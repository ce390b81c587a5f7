------------------------- MODULE ControlPlaneProofs -------------------------
(***************************************************************************)
(* Proofs about the control API's repository, for any number of calls,     *)
(* apps and policies: its tables agree, no update is lost, publications    *)
(* store the current draft and take effect in order, and to gateways it    *)
(* is a PolicySource.                                                      *)
(***************************************************************************)
EXTENDS ControlPlane, FiniteSetTheorems, TLAPS

-----------------------------------------------------------------------------
(* What each action does to the record of the call that takes it. *)

Fields == {"policy", "app", "began", "ended", "expected", "basis",
           "replaced", "draft", "number", "url"}

(* Only the record of c changes: its phase becomes ph, and of the fields   *)
(* above only the given ones may change.                                   *)
Moved(c, ph, changed) ==
  /\ call' \in [Calls -> CallType]
  /\ \A d \in Calls : d # c => call'[d] = call[d]
  /\ call'[c].phase = ph
  /\ \A f \in Fields \ changed : call'[c][f] = call[c][f]

LEMMA OneCall ==
  ASSUME TypeOK, NEW c \in Calls, NEW r \in CallType,
         call' = [call EXCEPT ![c] = r]
  PROVE  /\ call' \in [Calls -> CallType]
         /\ \A d \in Calls : d # c => call'[d] = call[d]
         /\ call'[c] = r
BY DEF TypeOK

LEMMA PhaseEffect ==
  ASSUME TypeOK, NEW c \in Calls, NEW ph \in Phases,
         call' = [call EXCEPT ![c].phase = ph]
  PROVE  Moved(c, ph, {})
<1> DEFINE r == [call[c] EXCEPT !.phase = ph]
<1>1. call[c] \in CallType
  BY DEF TypeOK
<1>2. r \in CallType
  BY <1>1 DEF CallType
<1>3. call' = [call EXCEPT ![c] = r]
  OBVIOUS
<1> QED
  BY <1>1, <1>2, <1>3, OneCall DEF Moved, Fields, CallType

LEMMA ReadAppEffect ==
  ASSUME TypeOK, NEW c \in Calls, NEW a \in Apps, NEW names \in SUBSET Hosts,
         NEW newStatus \in AppStatuses \cup {"kept"},
         NEW url \in Urls \cup {NoUrl}, ReadApp(c, a, names, newStatus, url)
  PROVE  /\ Moved(c, "merged", {"app", "url"})
         /\ call'[c].app = a
<1> DEFINE r == [call[c] EXCEPT
                   !.phase = "merged", !.app = a, !.url = url,
                   !.hostnames = IF names = {} THEN hostnames[a] ELSE names,
                   !.status = IF newStatus = "kept" THEN appStatus[a]
                                                    ELSE newStatus]
<1>1. /\ call[c] \in CallType
      /\ hostnames[a] \in SUBSET Hosts
      /\ newStatus = "kept" => appStatus[a] \in AppStatuses
  BY DEF TypeOK, ReadApp
<1>2. r \in CallType
  BY <1>1 DEF CallType, Phases
<1>3. call' = [call EXCEPT ![c] = r]
  BY DEF ReadApp
<1> QED
  BY <1>1, <1>2, <1>3, OneCall DEF Moved, Fields, CallType

LEMMA ReadPolicyEffect ==
  ASSUME TypeOK, NEW c \in Calls, NEW p \in Policies, ReadPolicy(c, p)
  PROVE  /\ Moved(c, "read", {"policy", "expected", "basis"})
         /\ call'[c].policy = p
         /\ call'[c].expected = updatedAt[p]
         /\ call'[c].basis = draft[p]
<1> DEFINE r == [call[c] EXCEPT !.phase = "read", !.policy = p,
                                !.expected = updatedAt[p], !.basis = draft[p]]
<1>1. call[c] \in CallType /\ updatedAt[p] \in Times /\ draft[p] \in Writers
  BY DEF TypeOK
<1>2. r \in CallType
  BY <1>1 DEF CallType, Phases
<1>3. call' = [call EXCEPT ![c] = r]
  BY DEF ReadPolicy
<1> QED
  BY <1>1, <1>2, <1>3, OneCall DEF Moved, Fields, CallType

LEMMA BeginUpdateEffect ==
  ASSUME TypeOK, NEW c \in Calls, BeginUpdate(c)
  PROVE  Moved(c, "updating", {"began"}) /\ call'[c].began = clock
<1> DEFINE r == [call[c] EXCEPT !.phase = "updating", !.began = clock]
<1>1. call[c] \in CallType /\ clock \in Times
  BY DEF TypeOK
<1>2. r \in CallType
  BY <1>1 DEF CallType, Phases
<1>3. call' = [call EXCEPT ![c] = r]
  BY DEF BeginUpdate
<1> QED
  BY <1>1, <1>2, <1>3, OneCall DEF Moved, Fields, CallType

LEMMA CommitUpdateEffect ==
  ASSUME TypeOK, NEW c \in Calls, NEW newStatus \in PolicyStatuses,
         call[c].policy \in Policies, CommitUpdate(c, newStatus)
  PROVE  /\ Moved(c, "done", {"ended", "replaced"})
         /\ call'[c].ended = clock
         /\ call'[c].replaced = draft[call[c].policy]
<1> DEFINE r == [call[c] EXCEPT !.phase = "done", !.ended = clock,
                                !.replaced = draft[call[c].policy]]
<1>1. /\ call[c] \in CallType
      /\ clock \in Times
      /\ draft[call[c].policy] \in Writers
  BY DEF TypeOK
<1>2. r \in CallType
  BY <1>1 DEF CallType, Phases
<1>3. call' = [call EXCEPT ![c] = r]
  BY DEF CommitUpdate
<1> QED
  BY <1>1, <1>2, <1>3, OneCall DEF Moved, Fields, CallType

LEMMA BeginPublishEffect ==
  ASSUME TypeOK, NEW c \in Calls, NEW p \in Policies, BeginPublish(c, p)
  PROVE  /\ Moved(c, "publishing", {"policy", "began", "draft"})
         /\ call'[c].policy = p
         /\ call'[c].began = clock
<1> DEFINE r == [call[c] EXCEPT !.phase = "publishing", !.policy = p,
                                !.began = clock, !.draft = draft[p]]
<1>1. call[c] \in CallType /\ clock \in Times /\ draft[p] \in Writers
  BY DEF TypeOK
<1>2. r \in CallType
  BY <1>1 DEF CallType, Phases
<1>3. call' = [call EXCEPT ![c] = r]
  BY DEF BeginPublish
<1> QED
  BY <1>1, <1>2, <1>3, OneCall DEF Moved, Fields, CallType

LEMMA LockPublishEffect ==
  ASSUME TypeOK, NEW c \in Calls, call[c].policy \in Policies, LockPublish(c)
  PROVE  /\ Moved(c, "locked", {"draft"})
         /\ call'[c].draft = draft[call[c].policy]
<1> DEFINE r == [call[c] EXCEPT !.phase = "locked",
                                !.draft = draft[call[c].policy]]
<1>1. call[c] \in CallType /\ draft[call[c].policy] \in Writers
  BY DEF TypeOK
<1>2. r \in CallType
  BY <1>1 DEF CallType, Phases
<1>3. call' = [call EXCEPT ![c] = r]
  BY DEF LockPublish
<1> QED
  BY <1>1, <1>2, <1>3, OneCall DEF Moved, Fields, CallType

LEMMA CompileEffect ==
  ASSUME TypeOK, NEW c \in Calls, NextNumber(call[c].policy) \in Nat,
         Compile(c)
  PROVE  /\ Moved(c, "compiled", {"url", "number"})
         /\ call'[c].url \in Urls
         /\ call'[c].number = NextNumber(call[c].policy)
<1>1. PICK row \in LiveOrigins(AppOf[call[c].policy]) :
        call' = [call EXCEPT ![c].phase = "compiled", ![c].url = row.url,
                             ![c].number = NextNumber(call[c].policy)]
  BY DEF Compile
<1> DEFINE r == [call[c] EXCEPT !.phase = "compiled", !.url = row.url,
                                !.number = NextNumber(call[c].policy)]
<1>2. call[c] \in CallType /\ row.url \in Urls
  BY DEF TypeOK, LiveOrigins
<1>3. r \in CallType
  BY <1>2 DEF CallType, Phases
<1>4. call' = [call EXCEPT ![c] = r]
  BY <1>1
<1> QED
  BY <1>2, <1>3, <1>4, OneCall DEF Moved, Fields, CallType

LEMMA CommitPublishEffect ==
  ASSUME TypeOK, NEW c \in Calls, CommitPublish(c)
  PROVE  Moved(c, "done", {"ended"}) /\ call'[c].ended = clock
<1> DEFINE r == [call[c] EXCEPT !.phase = "done", !.ended = clock]
<1>1. call[c] \in CallType /\ clock \in Times
  BY DEF TypeOK
<1>2. r \in CallType
  BY <1>1 DEF CallType, Phases
<1>3. call' = [call EXCEPT ![c] = r]
  BY DEF CommitPublish
<1> QED
  BY <1>1, <1>2, <1>3, OneCall DEF Moved, Fields, CallType

LEMMA EndEffect ==
  ASSUME TypeOK, NEW c \in Calls, NEW result \in Outcomes, End(c, result)
  PROVE  /\ outcome' \in [Calls -> Outcomes]
         /\ outcome'[c] = result
         /\ \A d \in Calls : d # c => outcome'[d] = outcome[d]
         /\ rowLock' \in [Policies -> Writers]
         /\ \A p \in Policies :
              rowLock'[p] = IF rowLock[p] = c THEN NoCall ELSE rowLock[p]
BY DEF TypeOK, End, Writers

LEMMA Types ==
  ASSUME TypeOK
  PROVE  /\ MaxClock \in Nat
         /\ clock \in 0 .. MaxClock
         /\ \A c \in Calls : /\ call[c].began \in 0 .. MaxClock
                             /\ call[c].ended \in 0 .. MaxClock
                             /\ call[c].expected \in 0 .. MaxClock
                             /\ call[c].number \in Nat
                             /\ call[c].draft \in Writers
         /\ \A p \in Policies : /\ updatedAt[p] \in 0 .. MaxClock
                                /\ deployed[p].at \in 0 .. MaxClock
BY ControlPlaneAssumption DEF TypeOK, CallType, Times

-----------------------------------------------------------------------------
(* The next number of a policy is the one after its active version. *)

LEMMA NextNumberIsNew ==
  ASSUME TypeOK, PointersAgree, NEW p \in Policies
  PROVE  NextNumber(p) = active[p] + 1 /\ NextNumber(p) \notin Numbers(p)
<1> DEFINE n == active[p]
<1>1. n \in Nat /\ Numbers(p) = 1 .. n
  BY DEF TypeOK, PointersAgree
<1>2. n \in Numbers(p) \cup {0} /\ \A m \in Numbers(p) : m <= n
  BY <1>1
<1>3. \A k \in Numbers(p) \cup {0} : (\A m \in Numbers(p) : m <= k) => k = n
  BY <1>1
<1>4. (CHOOSE k \in Numbers(p) \cup {0} : \A m \in Numbers(p) : m <= k) = n
  BY <1>2, <1>3
<1> QED
  BY <1>1, <1>4 DEF NextNumber

-----------------------------------------------------------------------------
(* Apps: nothing that the policies' part of the invariant speaks of. *)

LEMMA CreateAppKeeps ==
  ASSUME ControlPlaneInv, NEW a \in Apps, NEW names \in SUBSET Hosts,
         NEW url \in Urls, CreateApp(a, names, url)
  PROVE  ControlPlaneInv'
<1> USE DEF ControlPlaneInv
<1>1. UNCHANGED <<clock, policyVars, rowLock, call, outcome>>
  BY DEF CreateApp
<1>2. TypeOK'
  <2>1. origins' \subseteq [app : Apps, url : Urls, live : BOOLEAN]
    <3>1. origins' = origins \cup {[app |-> a, url |-> url, live |-> TRUE]}
      BY DEF CreateApp, InsertOrigin
    <3>2. [app |-> a, url |-> url, live |-> TRUE]
            \in [app : Apps, url : Urls, live : BOOLEAN]
      OBVIOUS
    <3> QED
      BY <3>1, <3>2 DEF TypeOK
  <2>2. /\ appStatus' \in [Apps -> AppStatuses \cup {"absent"}]
        /\ hostnames' \in [Apps -> SUBSET Hosts]
    BY DEF CreateApp, TypeOK, AppStatuses
  <2> QED
    BY <1>1, <2>1, <2>2 DEF TypeOK, policyVars
<1>3. PhaseInv'
  BY <1>1 DEF PhaseInv, Open, Updating, policyVars
<1>4. LockInv' /\ ReadInv'
  BY <1>1 DEF LockInv, ReadInv, Locking, policyVars
<1>5. RowsInv'
  BY <1>1 DEF RowsInv, PointersAgree, Numbers, policyVars
<1>6. StampInv'
  BY <1>1 DEF StampInv, Past, Open, policyVars
<1>7. BasisInv' /\ DeployInv' /\ NoLostUpdate'
  BY <1>1 DEF BasisInv, DeployInv, NoLostUpdate, Updating, policyVars
<1> QED
  BY <1>2, <1>3, <1>4, <1>5, <1>6, <1>7

LEMMA ReadAppKeeps ==
  ASSUME ControlPlaneInv, NEW c \in Calls, NEW a \in Apps,
         NEW names \in SUBSET Hosts,
         NEW newStatus \in AppStatuses \cup {"kept"},
         NEW url \in Urls \cup {NoUrl}, ReadApp(c, a, names, newStatus, url)
  PROVE  ControlPlaneInv'
<1> USE DEF ControlPlaneInv
<1>1. /\ UNCHANGED <<clock, appVars, policyVars, rowLock, outcome>>
      /\ call[c].phase = "idle"
  BY DEF ReadApp
<1>2. Moved(c, "merged", {"app", "url"}) /\ call'[c].app = a
  BY ReadAppEffect
<1>3. /\ call'[c].policy = call[c].policy
      /\ call'[c].began = call[c].began
      /\ call'[c].ended = call[c].ended
      /\ call'[c].expected = call[c].expected
      /\ call'[c].basis = call[c].basis
      /\ call'[c].replaced = call[c].replaced
  BY <1>2 DEF Moved, Fields
<1>4. /\ call' \in [Calls -> CallType]
      /\ call'[c].phase = "merged"
      /\ \A d \in Calls : d # c => call'[d] = call[d]
  BY <1>2 DEF Moved
<1>5. TypeOK'
  BY <1>1, <1>4 DEF TypeOK, appVars, policyVars
<1>6. PhaseInv'
  BY <1>1, <1>2, <1>3, <1>4 DEF PhaseInv, Open, Updating, policyVars
<1>7. LockInv' /\ ReadInv'
  BY <1>1, <1>3, <1>4 DEF LockInv, ReadInv, Locking, policyVars
<1>8. RowsInv'
  BY <1>1 DEF RowsInv, PointersAgree, Numbers, policyVars
<1>9. StampInv'
  BY <1>1, <1>3, <1>4 DEF StampInv, Past, Open, policyVars
<1>10. BasisInv' /\ DeployInv' /\ NoLostUpdate'
  BY <1>1, <1>3, <1>4
  DEF BasisInv, DeployInv, NoLostUpdate, Updating, policyVars
<1> QED
  BY <1>5, <1>6, <1>7, <1>8, <1>9, <1>10

LEMMA CommitUpdateKeeps ==
  ASSUME ControlPlaneInv, NEW c \in Calls, NEW newStatus \in PolicyStatuses,
         CommitUpdate(c, newStatus)
  PROVE  ControlPlaneInv'
<1> DEFINE p == call[c].policy
<1> USE DEF ControlPlaneInv
<1>1. /\ UNCHANGED <<clock, appVars, active, versions, deployed>>
      /\ call[c].phase = "checked"
      /\ status' = [status EXCEPT ![p] = newStatus]
      /\ draft' = [draft EXCEPT ![p] = c]
      /\ updatedAt' = [updatedAt EXCEPT ![p] = call[c].began]
  BY DEF CommitUpdate
<1>e. PICK result \in Answered : End(c, result)
  BY DEF CommitUpdate
<1>f. /\ outcome' \in [Calls -> Outcomes]
      /\ outcome'[c] = result
      /\ \A d \in Calls : d # c => outcome'[d] = outcome[d]
      /\ rowLock' \in [Policies -> Writers]
      /\ \A q \in Policies :
              rowLock'[q] = IF rowLock[q] = c THEN NoCall ELSE rowLock[q]
  BY <1>e, EndEffect DEF Answered, Outcomes
<1>p. p \in Policies /\ status[p] # "absent"
  BY <1>1 DEF PhaseInv, Open
<1>2. /\ Moved(c, "done", {"ended", "replaced"})
      /\ call'[c].ended = clock
      /\ call'[c].replaced = draft[p]
  BY <1>p, CommitUpdateEffect
<1>3. /\ call'[c].policy = call[c].policy
      /\ call'[c].began = call[c].began
      /\ call'[c].expected = call[c].expected
      /\ call'[c].basis = call[c].basis
  BY <1>2 DEF Moved, Fields
<1>4. /\ call' \in [Calls -> CallType]
      /\ call'[c].phase = "done"
      /\ \A d \in Calls : d # c => call'[d] = call[d]
  BY <1>2 DEF Moved
<1>t. call[c].began \in Times /\ c \in Writers
  BY DEF TypeOK, CallType, Writers
<1>5. TypeOK'
  BY <1>1, <1>4, <1>t, <1>p, <1>f DEF TypeOK, appVars, PolicyStatuses
<1>6. PhaseInv'
  BY <1>1, <1>2, <1>3, <1>4, <1>f, <1>p DEF PhaseInv, Open, Updating, TypeOK, Answered, PolicyStatuses
<1>7. LockInv'
  BY <1>3, <1>4, <1>p, <1>f, ControlPlaneAssumption DEF LockInv, Locking
<1>r. ReadInv'
  BY <1>1, <1>3, <1>4, <1>p DEF ReadInv, LockInv, Locking, PhaseInv, Open, Updating, TypeOK
<1>8. RowsInv'
  BY <1>1 DEF RowsInv, PointersAgree, Numbers
<1>9. StampInv'
  <2>1. call[c].began > 0 /\ call[c].began < clock
    BY <1>1, Types DEF StampInv, Past, Open
  <2>2. \A q \in Policies : /\ status'[q] # "absent" => clock > 0
                            /\ Past(updatedAt'[q])
                            /\ Past(deployed[q].at)
    BY <1>1, <1>p, <2>1, Types DEF StampInv, Past, TypeOK, PolicyStatuses
  <2>3. \A d \in Calls : Open(d)' => Open(d) /\ d # c
    BY <1>4 DEF Open
  <2>4. \A d \in Calls, q \in Policies :
          Open(d)' => updatedAt'[q] # call[d].began
    BY <1>1, <1>p, <2>1, <2>3 DEF StampInv, TypeOK
  <2>5. \A d \in Calls : /\ call'[d].began = call[d].began
                         /\ call'[d].expected = call[d].expected
    BY <1>3, <1>4
  <2> QED
    BY <1>1, <2>2, <2>3, <2>4, <2>5 DEF StampInv, Past
<1>10. BasisInv'
  BY <1>1, <1>3, <1>4, <1>p DEF BasisInv, Updating, TypeOK, StampInv, Open, PhaseInv
<1>11. DeployInv'
  BY <1>1, <1>3, <1>4 DEF DeployInv
<1>12. NoLostUpdate'
  BY <1>1, <1>2, <1>3, <1>4 DEF NoLostUpdate, ReadInv
<1> QED
  BY <1>5, <1>6, <1>7, <1>r, <1>8, <1>9, <1>10, <1>11, <1>12

(* A call ends without having changed a policy. *)
LEMMA DoneKeeps ==
  ASSUME ControlPlaneInv, NEW c \in Calls, NEW result \in Outcomes,
         result = "collision" => call[c].policy = NoCall,
         End(c, result), Moved(c, "done", {}), TypeOK',
         UNCHANGED <<clock, policyVars>>
  PROVE  ControlPlaneInv'
<1> USE DEF ControlPlaneInv
<1>1. /\ outcome'[c] = result
      /\ \A d \in Calls : d # c => outcome'[d] = outcome[d]
      /\ \A q \in Policies :
           rowLock'[q] = IF rowLock[q] = c THEN NoCall ELSE rowLock[q]
  BY EndEffect
<1>2. Moved(c, "done", {})
  OBVIOUS
<1>3. /\ call'[c].policy = call[c].policy
      /\ call'[c].app = call[c].app
      /\ call'[c].began = call[c].began
      /\ call'[c].ended = call[c].ended
      /\ call'[c].expected = call[c].expected
      /\ call'[c].basis = call[c].basis
      /\ call'[c].replaced = call[c].replaced
      /\ call'[c].draft = call[c].draft
      /\ call'[c].number = call[c].number
      /\ call'[c].url = call[c].url
  BY <1>2 DEF Moved, Fields
<1>4. /\ call' \in [Calls -> CallType]
      /\ call'[c].phase = "done"
      /\ \A d \in Calls : d # c => call'[d] = call[d]
  BY <1>2 DEF Moved
<1>5. PhaseInv'
  BY <1>1, <1>3, <1>4 DEF PhaseInv, Open, Updating, policyVars
<1>6. LockInv'
  BY <1>1, <1>3, <1>4, ControlPlaneAssumption DEF LockInv, Locking
<1>7. ReadInv' /\ BasisInv' /\ DeployInv' /\ NoLostUpdate'
  BY <1>3, <1>4
  DEF ReadInv, BasisInv, DeployInv, NoLostUpdate, Updating, policyVars
<1>8. RowsInv'
  BY DEF RowsInv, PointersAgree, Numbers, policyVars
<1>9. StampInv'
  BY <1>3, <1>4 DEF StampInv, Past, Open, policyVars
<1> QED
  BY <1>5, <1>6, <1>7, <1>8, <1>9

LEMMA WriteAppKeeps ==
  ASSUME ControlPlaneInv, NEW c \in Calls, WriteApp(c)
  PROVE  ControlPlaneInv'
<1> DEFINE a == call[c].app
           row == [app |-> a, url |-> call[c].url, live |-> TRUE]
           Row == [app : Apps, url : Urls, live : BOOLEAN]
<1> USE DEF ControlPlaneInv
<1>1. /\ call[c].policy = NoCall
      /\ a \in Apps
      /\ UNCHANGED <<clock, policyVars>>
  BY DEF WriteApp, PhaseInv
<1>2. Moved(c, "done", {})
  BY PhaseEffect DEF WriteApp, Phases
<1>3. PICK result \in Outcomes : End(c, result)
  BY DEF WriteApp, Answered, Outcomes
<1>4. origins' \subseteq Row
  <2>1. origins' = origins \/ origins' = Repointed(a, call[c].url)
    BY DEF WriteApp, appVars
  <2>2. CASE origins' = Repointed(a, call[c].url) /\ call[c].url # NoUrl
    <3>1. row \in Row
      BY <1>1, <2>2 DEF TypeOK, CallType
    <3>2. \A r \in origins : [r EXCEPT !.live = FALSE] \in Row
      BY DEF TypeOK
    <3>3. {IF r.app = a THEN [r EXCEPT !.live = FALSE] ELSE r : r \in origins}
            \subseteq Row
      BY <3>2 DEF TypeOK
    <3> QED
      BY <2>2, <3>1, <3>3 DEF Repointed, InsertOrigin
  <2> QED
    BY <2>1, <2>2 DEF Repointed, TypeOK
<1>5. TypeOK'
  <2>1. call[c].hostnames \in SUBSET Hosts /\ call[c].status \in AppStatuses
    BY DEF TypeOK, CallType
  <2>2. /\ appStatus' \in [Apps -> AppStatuses \cup {"absent"}]
        /\ hostnames' \in [Apps -> SUBSET Hosts]
    BY <1>1, <2>1 DEF WriteApp, TypeOK, appVars
  <2>3. /\ outcome' \in [Calls -> Outcomes]
        /\ rowLock' \in [Policies -> Writers]
    BY <1>3, EndEffect
  <2>4. call' \in [Calls -> CallType]
    BY <1>2 DEF Moved
  <2> QED
    BY <1>1, <1>4, <2>2, <2>3, <2>4 DEF TypeOK, policyVars
<1> QED
  BY <1>1, <1>2, <1>3, <1>5, DoneKeeps

LEMMA RefuseUpdateKeeps ==
  ASSUME ControlPlaneInv, NEW c \in Calls, RefuseUpdate(c)
  PROVE  ControlPlaneInv'
<1> USE DEF ControlPlaneInv
<1>1. End(c, "conflict") /\ UNCHANGED <<clock, appVars, policyVars>>
  BY DEF RefuseUpdate
<1>2. Moved(c, "done", {})
  BY PhaseEffect DEF RefuseUpdate, Phases
<1>3. /\ outcome' \in [Calls -> Outcomes]
      /\ rowLock' \in [Policies -> Writers]
  BY <1>1, EndEffect DEF Outcomes
<1>4. TypeOK'
  BY <1>1, <1>2, <1>3 DEF TypeOK, Moved, appVars, policyVars
<1> QED
  BY <1>1, <1>2, <1>4, DoneKeeps DEF Outcomes

LEMMA FailKeeps ==
  ASSUME ControlPlaneInv, NEW c \in Calls, Fail(c)
  PROVE  ControlPlaneInv'
<1> USE DEF ControlPlaneInv
<1>1. End(c, "failed") /\ UNCHANGED <<clock, appVars, policyVars>>
  BY DEF Fail
<1>2. Moved(c, "done", {})
  BY PhaseEffect DEF Fail, Phases
<1>3. /\ outcome' \in [Calls -> Outcomes]
      /\ rowLock' \in [Policies -> Writers]
  BY <1>1, EndEffect DEF Outcomes
<1>4. TypeOK'
  BY <1>1, <1>2, <1>3 DEF TypeOK, Moved, appVars, policyVars
<1> QED
  BY <1>1, <1>2, <1>4, DoneKeeps DEF Outcomes

LEMMA CreatePolicyKeeps ==
  ASSUME ControlPlaneInv, NEW p \in Policies, CreatePolicy(p)
  PROVE  ControlPlaneInv'
<1> USE DEF ControlPlaneInv
<1>1. /\ UNCHANGED <<appVars, draft, active, versions, deployed, rowLock, call,
                     outcome>>
      /\ status[p] = "absent"
      /\ status' = [status EXCEPT ![p] = "enabled"]
      /\ updatedAt' = [updatedAt EXCEPT ![p] = clock]
      /\ clock < MaxClock /\ clock' = clock + 1
  BY DEF CreatePolicy, Stamp
<1>2. TypeOK'
  BY <1>1, Types DEF TypeOK, Times, PolicyStatuses, appVars
<1>3. PhaseInv'
  BY <1>1 DEF PhaseInv, Open, Updating, TypeOK
<1>4. LockInv' /\ ReadInv' /\ DeployInv' /\ NoLostUpdate'
  BY <1>1 DEF LockInv, ReadInv, DeployInv, NoLostUpdate, Locking
<1>5. RowsInv'
  BY <1>1 DEF RowsInv, PointersAgree, Numbers
<1>6. StampInv'
  <2>1. \A q \in Policies : Past(updatedAt[q])' /\ Past(deployed[q].at)'
    BY <1>1, Types DEF StampInv, Past, TypeOK
  <2>2. \A d \in Calls : Past(call[d].began)' /\ Past(call[d].expected)'
    BY <1>1, Types DEF StampInv, Past
  <2>3. \A d \in Calls, q \in Policies :
          Open(d) => updatedAt'[q] # call[d].began
    BY <1>1, Types DEF StampInv, Past, TypeOK
  <2> QED
    BY <1>1, <2>1, <2>2, <2>3, Types DEF StampInv, Open
<1>7. BasisInv'
  BY <1>1 DEF BasisInv, Updating, PhaseInv, TypeOK
<1> QED
  BY <1>2, <1>3, <1>4, <1>5, <1>6, <1>7

LEMMA ReadPolicyKeeps ==
  ASSUME ControlPlaneInv, NEW c \in Calls, NEW p \in Policies, ReadPolicy(c, p)
  PROVE  ControlPlaneInv'
<1> USE DEF ControlPlaneInv
<1>1. /\ UNCHANGED <<clock, appVars, policyVars, rowLock, outcome>>
      /\ call[c].phase = "idle"
      /\ status[p] # "absent"
  BY DEF ReadPolicy
<1>2. /\ Moved(c, "read", {"policy", "expected", "basis"})
      /\ call'[c].policy = p
      /\ call'[c].expected = updatedAt[p]
      /\ call'[c].basis = draft[p]
  BY ReadPolicyEffect
<1>3. /\ call'[c].began = call[c].began
      /\ call'[c].ended = call[c].ended
      /\ call'[c].replaced = call[c].replaced
  BY <1>2 DEF Moved, Fields
<1>4. /\ call' \in [Calls -> CallType]
      /\ call'[c].phase = "read"
      /\ \A d \in Calls : d # c => call'[d] = call[d]
  BY <1>2 DEF Moved
<1>5. TypeOK'
  BY <1>1, <1>4 DEF TypeOK, appVars, policyVars
<1>6. PhaseInv'
  BY <1>1, <1>2, <1>3, <1>4 DEF PhaseInv, Open, Updating, policyVars
<1>7. LockInv' /\ ReadInv'
  BY <1>1, <1>4 DEF LockInv, ReadInv, Locking, policyVars
<1>8. RowsInv'
  BY <1>1 DEF RowsInv, PointersAgree, Numbers, policyVars
<1>9. StampInv'
  BY <1>1, <1>2, <1>3, <1>4 DEF StampInv, Past, Open, policyVars
<1>10. BasisInv' /\ DeployInv' /\ NoLostUpdate'
  BY <1>1, <1>2, <1>3, <1>4
  DEF BasisInv, DeployInv, NoLostUpdate, PhaseInv, Updating, policyVars
<1> QED
  BY <1>5, <1>6, <1>7, <1>8, <1>9, <1>10

LEMMA BeginUpdateKeeps ==
  ASSUME ControlPlaneInv, NEW c \in Calls, BeginUpdate(c)
  PROVE  ControlPlaneInv'
<1> USE DEF ControlPlaneInv
<1>1. /\ UNCHANGED <<appVars, policyVars, rowLock, outcome>>
      /\ call[c].phase = "read"
      /\ clock < MaxClock /\ clock' = clock + 1
  BY DEF BeginUpdate, Stamp
<1>2. Moved(c, "updating", {"began"}) /\ call'[c].began = clock
  BY BeginUpdateEffect
<1>3. /\ call'[c].policy = call[c].policy
      /\ call'[c].ended = call[c].ended
      /\ call'[c].expected = call[c].expected
      /\ call'[c].basis = call[c].basis
      /\ call'[c].replaced = call[c].replaced
  BY <1>2 DEF Moved, Fields
<1>4. /\ call' \in [Calls -> CallType]
      /\ call'[c].phase = "updating"
      /\ \A d \in Calls : d # c => call'[d] = call[d]
  BY <1>2 DEF Moved
<1>5. TypeOK'
  BY <1>1, <1>4, Types DEF TypeOK, Times, appVars, policyVars
<1>6. PhaseInv'
  BY <1>1, <1>2, <1>3, <1>4 DEF PhaseInv, Open, Updating, policyVars
<1>7. LockInv' /\ ReadInv'
  BY <1>1, <1>3, <1>4 DEF LockInv, ReadInv, Locking, policyVars
<1>8. RowsInv'
  BY <1>1 DEF RowsInv, PointersAgree, Numbers, policyVars
<1>9. StampInv'
  <2>1. clock > 0
    BY <1>1, Types DEF StampInv, PhaseInv, Updating
  <2>2. \A q \in Policies : /\ Past(updatedAt[q])' /\ Past(deployed[q].at)'
                            /\ updatedAt[q] # clock
    BY <1>1, <2>1, Types DEF StampInv, Past, policyVars
  <2>3. \A d \in Calls : /\ Past(call[d].expected)'
                         /\ call'[d].expected = call[d].expected
                         /\ call[d].expected # clock
                         /\ call[d].began # clock
    BY <1>1, <1>3, <1>4, <2>1, Types DEF StampInv, Past
  <2>4. \A d \in Calls : Past(call[d].began)'
    BY <1>1, <1>2, <1>4, Types DEF StampInv, Past
  <2>5. \A d \in Calls : Open(d)' =>
           /\ call'[d].began > 0
           /\ \A q \in Policies : updatedAt'[q] # call'[d].began
           /\ \A e \in Calls : call'[e].expected # call'[d].began
    BY <1>1, <1>2, <1>4, <2>1, <2>2, <2>3 DEF StampInv, Open, policyVars
  <2>6. \A d \in Calls : \A e \in Calls \ {d} :
           call'[d].began # 0 => call'[d].began # call'[e].began
    BY <1>2, <1>4, <2>3 DEF StampInv
  <2> QED
    BY <1>1, <2>1, <2>2, <2>4, <2>3, <2>5, <2>6, Types
    DEF StampInv, Open, policyVars
<1>10. BasisInv' /\ DeployInv' /\ NoLostUpdate'
  BY <1>1, <1>2, <1>3, <1>4
  DEF BasisInv, DeployInv, NoLostUpdate, PhaseInv, Updating, policyVars
<1> QED
  BY <1>5, <1>6, <1>7, <1>8, <1>9, <1>10

LEMMA BeginPublishKeeps ==
  ASSUME ControlPlaneInv, NEW c \in Calls, NEW p \in Policies,
         BeginPublish(c, p)
  PROVE  ControlPlaneInv'
<1> USE DEF ControlPlaneInv
<1>1. /\ UNCHANGED <<appVars, policyVars, rowLock, outcome>>
      /\ call[c].phase = "idle"
      /\ clock < MaxClock /\ clock' = clock + 1
      /\ status[p] # "absent"
  BY DEF BeginPublish, Stamp
<1>2. /\ Moved(c, "publishing", {"policy", "began", "draft"})
      /\ call'[c].policy = p
      /\ call'[c].began = clock
  BY BeginPublishEffect
<1>3. /\ call'[c].ended = call[c].ended
      /\ call'[c].expected = call[c].expected
      /\ call'[c].basis = call[c].basis
      /\ call'[c].replaced = call[c].replaced
  BY <1>2 DEF Moved, Fields
<1>4. /\ call' \in [Calls -> CallType]
      /\ call'[c].phase = "publishing"
      /\ \A d \in Calls : d # c => call'[d] = call[d]
  BY <1>2 DEF Moved
<1>5. TypeOK'
  BY <1>1, <1>4, Types DEF TypeOK, Times, appVars, policyVars
<1>6. PhaseInv'
  BY <1>1, <1>2, <1>3, <1>4 DEF PhaseInv, Open, Updating, policyVars
<1>7. LockInv' /\ ReadInv'
  BY <1>1, <1>3, <1>4 DEF LockInv, ReadInv, Locking, policyVars
<1>8. RowsInv'
  BY <1>1 DEF RowsInv, PointersAgree, Numbers, policyVars
<1>9. StampInv'
  <2>1. clock > 0
    BY <1>1, Types DEF StampInv, PhaseInv, Updating
  <2>2. \A q \in Policies : /\ Past(updatedAt[q])' /\ Past(deployed[q].at)'
                            /\ updatedAt[q] # clock
    BY <1>1, <2>1, Types DEF StampInv, Past, policyVars
  <2>3. \A d \in Calls : /\ Past(call[d].expected)'
                         /\ call'[d].expected = call[d].expected
                         /\ call[d].expected # clock
                         /\ call[d].began # clock
    BY <1>1, <1>3, <1>4, <2>1, Types DEF StampInv, Past
  <2>4. \A d \in Calls : Past(call[d].began)'
    BY <1>1, <1>2, <1>4, Types DEF StampInv, Past
  <2>5. \A d \in Calls : Open(d)' =>
           /\ call'[d].began > 0
           /\ \A q \in Policies : updatedAt'[q] # call'[d].began
           /\ \A e \in Calls : call'[e].expected # call'[d].began
    BY <1>1, <1>2, <1>4, <2>1, <2>2, <2>3 DEF StampInv, Open, policyVars
  <2>6. \A d \in Calls : \A e \in Calls \ {d} :
           call'[d].began # 0 => call'[d].began # call'[e].began
    BY <1>2, <1>4, <2>3 DEF StampInv
  <2> QED
    BY <1>1, <2>1, <2>2, <2>4, <2>3, <2>5, <2>6, Types
    DEF StampInv, Open, policyVars
<1>10. BasisInv' /\ DeployInv' /\ NoLostUpdate'
  BY <1>1, <1>2, <1>3, <1>4
  DEF BasisInv, DeployInv, NoLostUpdate, PhaseInv, Updating, policyVars
<1> QED
  BY <1>5, <1>6, <1>7, <1>8, <1>9, <1>10

LEMMA CheckUpdateKeeps ==
  ASSUME ControlPlaneInv, NEW c \in Calls, CheckUpdate(c)
  PROVE  ControlPlaneInv'
<1> DEFINE p == call[c].policy
<1> USE DEF ControlPlaneInv
<1>1. /\ UNCHANGED <<clock, appVars, policyVars, outcome>>
      /\ call[c].phase = "updating"
      /\ rowLock[p] = NoCall
      /\ rowLock' = [rowLock EXCEPT ![p] = c]
  BY DEF CheckUpdate, GetPolicyForUpdate
<1>u. updatedAt[p] = call[c].expected
  BY DEF CheckUpdate
<1>p. p \in Policies /\ status[p] # "absent"
  BY <1>1 DEF PhaseInv, Open
<1>2. Moved(c, "checked", {})
  BY PhaseEffect DEF CheckUpdate, Phases
<1>3. /\ call'[c].policy = call[c].policy
      /\ call'[c].began = call[c].began
      /\ call'[c].ended = call[c].ended
      /\ call'[c].expected = call[c].expected
      /\ call'[c].basis = call[c].basis
      /\ call'[c].replaced = call[c].replaced
      /\ call'[c].draft = call[c].draft
      /\ call'[c].number = call[c].number
      /\ call'[c].url = call[c].url
  BY <1>2 DEF Moved, Fields
<1>4. /\ call' \in [Calls -> CallType]
      /\ call'[c].phase = "checked"
      /\ \A d \in Calls : d # c => call'[d] = call[d]
  BY <1>2 DEF Moved
<1>5. TypeOK'
  BY <1>1, <1>4, <1>p DEF TypeOK, Writers, appVars, policyVars
<1>6. PhaseInv'
  BY <1>1, <1>3, <1>4, <1>p DEF PhaseInv, Open, Updating, policyVars
<1>7. LockInv'
  BY <1>1, <1>3, <1>4, <1>p, ControlPlaneAssumption
  DEF LockInv, Locking, TypeOK
<1>8. ReadInv'
  BY <1>1, <1>2, <1>3, <1>4, <1>p, <1>u
  DEF ReadInv, BasisInv, Updating, policyVars
<1>9. RowsInv'
  BY <1>1 DEF RowsInv, PointersAgree, Numbers, policyVars
<1>10. StampInv'
  BY <1>1, <1>3, <1>4 DEF StampInv, Past, Open, policyVars
<1>11. BasisInv' /\ DeployInv' /\ NoLostUpdate'
  BY <1>1, <1>3, <1>4
  DEF BasisInv, DeployInv, NoLostUpdate, Updating, policyVars
<1> QED
  BY <1>5, <1>6, <1>7, <1>8, <1>9, <1>10, <1>11

LEMMA LockPublishKeeps ==
  ASSUME ControlPlaneInv, NEW c \in Calls, LockPublish(c)
  PROVE  ControlPlaneInv'
<1> DEFINE p == call[c].policy
<1> USE DEF ControlPlaneInv
<1>1. /\ UNCHANGED <<clock, appVars, policyVars, outcome>>
      /\ call[c].phase = "publishing"
      /\ rowLock[p] = NoCall
      /\ rowLock' = [rowLock EXCEPT ![p] = c]
  BY DEF LockPublish, GetPolicyForUpdate
<1>p. p \in Policies /\ status[p] # "absent"
  BY <1>1 DEF PhaseInv, Open
<1>2. Moved(c, "locked", {"draft"}) /\ call'[c].draft = draft[p]
  BY <1>p, LockPublishEffect
<1>3. /\ call'[c].policy = call[c].policy
      /\ call'[c].began = call[c].began
      /\ call'[c].ended = call[c].ended
      /\ call'[c].expected = call[c].expected
      /\ call'[c].basis = call[c].basis
      /\ call'[c].replaced = call[c].replaced
      /\ call'[c].number = call[c].number
      /\ call'[c].url = call[c].url
  BY <1>2 DEF Moved, Fields
<1>4. /\ call' \in [Calls -> CallType]
      /\ call'[c].phase = "locked"
      /\ \A d \in Calls : d # c => call'[d] = call[d]
  BY <1>2 DEF Moved
<1>5. TypeOK'
  BY <1>1, <1>4, <1>p DEF TypeOK, Writers, appVars, policyVars
<1>6. PhaseInv'
  BY <1>1, <1>3, <1>4, <1>p DEF PhaseInv, Open, Updating, policyVars
<1>7. LockInv'
  BY <1>1, <1>3, <1>4, <1>p, ControlPlaneAssumption
  DEF LockInv, Locking, TypeOK
<1>8. ReadInv'
  BY <1>1, <1>2, <1>3, <1>4, <1>p
  DEF ReadInv, BasisInv, Updating, policyVars
<1>9. RowsInv'
  BY <1>1 DEF RowsInv, PointersAgree, Numbers, policyVars
<1>10. StampInv'
  BY <1>1, <1>3, <1>4 DEF StampInv, Past, Open, policyVars
<1>11. BasisInv' /\ DeployInv' /\ NoLostUpdate'
  BY <1>1, <1>3, <1>4
  DEF BasisInv, DeployInv, NoLostUpdate, Updating, policyVars
<1> QED
  BY <1>5, <1>6, <1>7, <1>8, <1>9, <1>10, <1>11

LEMMA CompileKeeps ==
  ASSUME ControlPlaneInv, NEW c \in Calls, Compile(c)
  PROVE  ControlPlaneInv'
<1> DEFINE p == call[c].policy
<1> USE DEF ControlPlaneInv
<1>1. /\ UNCHANGED <<clock, appVars, policyVars, rowLock, outcome>>
      /\ call[c].phase = "locked"
  BY DEF Compile
<1>p. p \in Policies /\ status[p] # "absent"
  BY <1>1 DEF PhaseInv, Open
<1>n. NextNumber(p) = active[p] + 1 /\ NextNumber(p) \in Nat
  BY <1>p, NextNumberIsNew DEF RowsInv, TypeOK
<1>2. /\ Moved(c, "compiled", {"url", "number"})
      /\ call'[c].url \in Urls
      /\ call'[c].number = active[p] + 1
  BY <1>n, CompileEffect
<1>3. /\ call'[c].policy = call[c].policy
      /\ call'[c].began = call[c].began
      /\ call'[c].ended = call[c].ended
      /\ call'[c].expected = call[c].expected
      /\ call'[c].basis = call[c].basis
      /\ call'[c].replaced = call[c].replaced
      /\ call'[c].draft = call[c].draft
  BY <1>2 DEF Moved, Fields
<1>4. /\ call' \in [Calls -> CallType]
      /\ call'[c].phase = "compiled"
      /\ \A d \in Calls : d # c => call'[d] = call[d]
  BY <1>2 DEF Moved
<1>5. TypeOK'
  BY <1>1, <1>4 DEF TypeOK, appVars, policyVars
<1>6. PhaseInv'
  BY <1>1, <1>2, <1>3, <1>4, <1>p DEF PhaseInv, Open, Updating, policyVars
<1>7. LockInv' /\ ReadInv'
  BY <1>1, <1>2, <1>3, <1>4 DEF LockInv, ReadInv, Locking, policyVars
<1>8. RowsInv'
  BY <1>1 DEF RowsInv, PointersAgree, Numbers, policyVars
<1>9. StampInv'
  BY <1>1, <1>3, <1>4 DEF StampInv, Past, Open, policyVars
<1>10. BasisInv' /\ DeployInv' /\ NoLostUpdate'
  BY <1>1, <1>3, <1>4
  DEF BasisInv, DeployInv, NoLostUpdate, Updating, policyVars
<1> QED
  BY <1>5, <1>6, <1>7, <1>8, <1>9, <1>10

(* The writes of a publication: its number is not taken, so the UNIQUE     *)
(* constraint lets them through.                                           *)
LEMMA CommitPublishWrites ==
  ASSUME ControlPlaneInv, NEW c \in Calls, CommitPublish(c)
  PROVE  /\ call[c].policy \in Policies
         /\ call[c].number = active[call[c].policy] + 1
         /\ call[c].number \notin Numbers(call[c].policy)
         /\ CompiledVersion(c, call[c].policy)
              \in [policy : Policies, number : Nat, draft : Writers, url : Urls]
         /\ WriteVersion(c, call[c].policy)
         /\ \E result \in Answered : End(c, result)
<1> DEFINE p == call[c].policy
<1> USE DEF ControlPlaneInv
<1>1. call[c].phase = "compiled"
  BY DEF CommitPublish
<1>2. p \in Policies /\ call[c].url \in Urls /\ call[c].number = active[p] + 1
  BY <1>1 DEF PhaseInv, ReadInv, Open
<1>3. call[c].number \notin Numbers(p)
  BY <1>2, NextNumberIsNew DEF RowsInv
<1>4. CompiledVersion(c, p)
        \in [policy : Policies, number : Nat, draft : Writers, url : Urls]
  BY <1>2, Types DEF CompiledVersion
<1> QED
  BY <1>2, <1>3, <1>4 DEF CommitPublish

LEMMA CommitPublishKeeps ==
  ASSUME ControlPlaneInv, NEW c \in Calls, CommitPublish(c)
  PROVE  ControlPlaneInv'
<1> DEFINE p == call[c].policy
           n == active[p]
           v == CompiledVersion(c, p)
           rows(q) == {w \in versions : w.policy = q}
<1> USE DEF ControlPlaneInv
<1>1. /\ UNCHANGED <<clock, appVars, status, draft>>
      /\ call[c].phase = "compiled"
      /\ p \in Policies
      /\ call[c].number = n + 1
      /\ n + 1 \notin Numbers(p)
      /\ v \in [policy : Policies, number : Nat, draft : Writers, url : Urls]
      /\ versions' = versions \cup {v}
      /\ active' = [active EXCEPT ![p] = n + 1]
      /\ updatedAt' = [updatedAt EXCEPT ![p] = call[c].began]
      /\ deployed' = [deployed EXCEPT ![p] =
                        [version |-> n + 1, at |-> call[c].began, by |-> c]]
  BY CommitPublishWrites DEF CommitPublish, WriteVersion, Deploy
<1>2. Moved(c, "done", {"ended"}) /\ call'[c].ended = clock
  BY CommitPublishEffect
<1>3. /\ call'[c].policy = call[c].policy
      /\ call'[c].began = call[c].began
      /\ call'[c].expected = call[c].expected
      /\ call'[c].basis = call[c].basis
      /\ call'[c].replaced = call[c].replaced
      /\ call'[c].draft = call[c].draft
      /\ call'[c].number = call[c].number
      /\ call'[c].url = call[c].url
  BY <1>2 DEF Moved, Fields
<1>4. /\ call' \in [Calls -> CallType]
      /\ call'[c].phase = "done"
      /\ \A d \in Calls : d # c => call'[d] = call[d]
  BY <1>2 DEF Moved
<1>5. PICK result \in Answered : End(c, result)
  BY CommitPublishWrites
<1>6. /\ outcome' \in [Calls -> Outcomes]
      /\ outcome'[c] = result
      /\ \A d \in Calls : d # c => outcome'[d] = outcome[d]
      /\ rowLock' \in [Policies -> Writers]
      /\ \A q \in Policies :
           rowLock'[q] = IF rowLock[q] = c THEN NoCall ELSE rowLock[q]
  BY <1>5, EndEffect DEF Answered, Outcomes
<1>7. call[c].began > 0 /\ call[c].began < clock
  BY <1>1, Types DEF StampInv, Past, Open
<1>8. TypeOK'
  <2>1. n + 1 \in Nat /\ call[c].began \in Times /\ c \in Writers
    BY <1>1, Types DEF TypeOK, Times, Writers
  <2>2. /\ active' \in [Policies -> Nat]
        /\ updatedAt' \in [Policies -> Times]
        /\ deployed' \in [Policies -> [version : Nat, at : Times, by : Writers]]
    BY <1>1, <2>1 DEF TypeOK
  <2>3. versions' \subseteq [policy : Policies, number : Nat, draft : Writers,
                             url : Urls]
    BY <1>1 DEF TypeOK
  <2> QED
    BY <1>1, <1>4, <1>6, <2>2, <2>3 DEF TypeOK, appVars
<1>9. PhaseInv'
  BY <1>1, <1>3, <1>4, <1>6 DEF PhaseInv, Open, Updating, Answered
<1>10. LockInv'
  BY <1>3, <1>4, <1>6, ControlPlaneAssumption DEF LockInv, Locking
<1>11. ReadInv'
  BY <1>1, <1>3, <1>4 DEF ReadInv, LockInv, Locking, PhaseInv, Open, TypeOK
<1>12. RowsInv'
  <2> SUFFICES ASSUME NEW q \in Policies
               PROVE  /\ Numbers(q)' = 1 .. Cardinality(rows(q)')
                      /\ active'[q] = Cardinality(rows(q)')
                      /\ deployed'[q].version = active'[q]
                      /\ IsFiniteSet(rows(q)')
    BY DEF RowsInv, PointersAgree
  <2>1. v.policy = p /\ v.number = n + 1
    BY <1>1 DEF CompiledVersion
  <2>2. CASE q # p
    <3>1. rows(q)' = rows(q) /\ Numbers(q)' = Numbers(q)
      BY <1>1, <2>1, <2>2 DEF Numbers
    <3> QED
      BY <1>1, <2>2, <3>1 DEF RowsInv, PointersAgree, TypeOK
  <2>3. CASE q = p
    <3>1. rows(q)' = rows(q) \cup {v}
      BY <1>1, <2>1, <2>3
    <3>2. v \notin rows(q)
      BY <1>1, <2>1, <2>3 DEF Numbers
    <3>3. /\ IsFiniteSet(rows(q)')
          /\ Cardinality(rows(q)') = Cardinality(rows(q)) + 1
      <4>1. IsFiniteSet(rows(q))
        BY DEF RowsInv
      <4> HIDE DEF rows, v
      <4> QED
        BY <3>1, <3>2, <4>1, FS_AddElement
    <3>4. /\ n \in Nat
          /\ Cardinality(rows(q)) = n
          /\ Numbers(q) = 1 .. n
      BY <1>1, <2>3 DEF RowsInv, PointersAgree, TypeOK
    <3>5. Numbers(q)' = Numbers(q) \cup {n + 1}
      BY <2>1, <3>1 DEF Numbers
    <3>6. Numbers(q)' = 1 .. (n + 1)
      BY <3>4, <3>5
    <3> QED
      BY <1>1, <2>3, <3>3, <3>4, <3>6 DEF TypeOK
  <2> QED
    BY <2>2, <2>3
<1>13. StampInv'
  <2>1. \A q \in Policies : /\ status'[q] # "absent" => clock > 0
                            /\ Past(updatedAt'[q])
                            /\ Past(deployed'[q].at)
    BY <1>1, <1>7, Types DEF StampInv, Past, TypeOK
  <2>2. \A d \in Calls : Open(d)' => Open(d) /\ d # c
    BY <1>4 DEF Open
  <2>3. \A d \in Calls, q \in Policies :
          Open(d)' => updatedAt'[q] # call[d].began
    BY <1>1, <1>7, <2>2 DEF StampInv, TypeOK
  <2>4. \A d \in Calls : /\ call'[d].began = call[d].began
                         /\ call'[d].expected = call[d].expected
    BY <1>3, <1>4
  <2> QED
    BY <1>1, <2>1, <2>2, <2>3, <2>4 DEF StampInv, Past
<1>14. BasisInv'
  <2> SUFFICES ASSUME NEW d \in Calls, Updating(d)',
                      updatedAt'[call'[d].policy] = call'[d].expected
               PROVE  draft'[call'[d].policy] = call'[d].basis
    BY DEF BasisInv
  <2>1. d # c /\ call'[d] = call[d] /\ Updating(d)
    BY <1>4 DEF Updating
  <2>2. call[d].policy # p
    BY <1>1, <2>1 DEF StampInv, Open, TypeOK
  <2> QED
    BY <1>1, <2>1, <2>2 DEF BasisInv, PhaseInv, TypeOK
<1>15. DeployInv'
  BY <1>1, <1>2, <1>3, <1>4, <1>7 DEF DeployInv, TypeOK
<1>16. NoLostUpdate'
  BY <1>1, <1>3, <1>4 DEF NoLostUpdate, PhaseInv, Open, Updating
<1> QED
  BY <1>8, <1>9, <1>10, <1>11, <1>12, <1>13, <1>14, <1>15, <1>16

-----------------------------------------------------------------------------
(* The invariant. *)

LEMMA InvInit == Init => ControlPlaneInv
<1> SUFFICES ASSUME Init PROVE ControlPlaneInv
  OBVIOUS
<1>1. TypeOK
  BY ControlPlaneAssumption
  DEF Init, NewCall, TypeOK, CallType, Times, Writers, AppStatuses, Phases,
      Outcomes, PolicyStatuses
<1>2. PhaseInv
  BY DEF Init, NewCall, PhaseInv, Open, Updating
<1>3. LockInv /\ ReadInv
  BY ControlPlaneAssumption DEF Init, NewCall, LockInv, ReadInv, Locking
<1>4. RowsInv
  <2>1. \A p \in Policies : {v \in versions : v.policy = p} = {}
    BY DEF Init
  <2>2. \A p \in Policies : Numbers(p) = {}
    BY <2>1 DEF Numbers
  <2>3. \A p \in Policies :
          /\ Cardinality({v \in versions : v.policy = p}) = 0
          /\ IsFiniteSet({v \in versions : v.policy = p})
    BY <2>1, FS_EmptySet
  <2>4. \A p \in Policies : active[p] = 0 /\ deployed[p].version = 0
    BY DEF Init
  <2>5. 1 .. 0 = {}
    OBVIOUS
  <2> QED
    BY <2>2, <2>3, <2>4, <2>5 DEF RowsInv, PointersAgree
<1>5. StampInv
  BY DEF Init, NewCall, StampInv, Past, Open
<1>6. BasisInv /\ DeployInv /\ NoLostUpdate
  BY DEF Init, NewCall, BasisInv, DeployInv, NoLostUpdate, Updating
<1> QED
  BY <1>1, <1>2, <1>3, <1>4, <1>5, <1>6 DEF ControlPlaneInv

LEMMA InvStep == ControlPlaneInv /\ [Next]_vars => ControlPlaneInv'
<1> SUFFICES ASSUME ControlPlaneInv, [Next]_vars PROVE ControlPlaneInv'
  OBVIOUS
<1>1. CASE UNCHANGED vars
  <2> USE <1>1 DEF vars, policyVars, ControlPlaneInv
  <2>1. TypeOK'
    BY DEF appVars, TypeOK
  <2>2. PhaseInv' /\ LockInv' /\ ReadInv'
    BY DEF PhaseInv, LockInv, ReadInv, Open, Locking, Updating
  <2>3. RowsInv'
    BY DEF RowsInv, PointersAgree, Numbers
  <2>4. StampInv'
    BY DEF StampInv, Past, Open
  <2>5. BasisInv' /\ DeployInv' /\ NoLostUpdate'
    BY DEF BasisInv, DeployInv, NoLostUpdate, Updating
  <2> QED
    BY <2>1, <2>2, <2>3, <2>4, <2>5
<1>2. CASE Create
  BY <1>2, CreateAppKeeps, CreatePolicyKeeps DEF Create
<1>3. ASSUME NEW c \in Calls, UpdateApp(c) PROVE ControlPlaneInv'
  BY <1>3, ReadAppKeeps, WriteAppKeeps DEF UpdateApp
<1>4. ASSUME NEW c \in Calls, UpdatePolicy(c) PROVE ControlPlaneInv'
  BY <1>4, ReadPolicyKeeps, BeginUpdateKeeps, CheckUpdateKeeps,
     RefuseUpdateKeeps, CommitUpdateKeeps DEF UpdatePolicy
<1>5. ASSUME NEW c \in Calls, PublishPolicy(c) PROVE ControlPlaneInv'
  BY <1>5, BeginPublishKeeps, LockPublishKeeps, CompileKeeps,
     CommitPublishKeeps DEF PublishPolicy
<1> QED
  BY <1>1, <1>2, <1>3, <1>4, <1>5, FailKeeps DEF Next, Finished

(* The invariant holds of every behaviour: locks, stamps and what calls    *)
(* have read stay consistent with the tables, whatever runs concurrently   *)
(* and whatever fails (db.go:193-428).                                     *)
THEOREM ControlPlaneCorrect == Spec => []ControlPlaneInv
BY InvInit, InvStep, PTL DEF Spec

(* Every policy's versions are numbered without a gap or a duplicate, the  *)
(* two pointers name the last of them, and no publication is refused for   *)
(* its number (db.go:361-428).                                             *)
THEOREM TablesAlwaysAgree == Spec => []TablesAgree
<1>1. ControlPlaneInv => TablesAgree
  <2> SUFFICES ASSUME ControlPlaneInv PROVE TablesAgree
    OBVIOUS
  <2>1. PublicationsDoNotCollide
    BY DEF ControlPlaneInv, PhaseInv, PublicationsDoNotCollide
  <2> QED
    BY <2>1 DEF ControlPlaneInv, RowsInv, TablesAgree
<1> QED
  BY <1>1, ControlPlaneCorrect, PTL

(* An update that commits replaces the draft its client had read           *)
(* (db.go:315-352).                                                        *)
THEOREM UpdatesAreNotLost == Spec => []NoLostUpdate
<1>1. ControlPlaneInv => NoLostUpdate
  BY DEF ControlPlaneInv
<1> QED
  BY <1>1, ControlPlaneCorrect, PTL

(* The gateway query has one answer, and no publication that was over      *)
(* when another began hides it (db.go:413-419, 473).                       *)
THEOREM LaterWins == Spec => []LaterPublicationWins
<1>1. ControlPlaneInv => LaterPublicationWins
  <2> SUFFICES ASSUME ControlPlaneInv, NEW h \in Hosts
               PROVE  /\ Cardinality(GatewayPolicies(h)) <= 1
                      /\ \A p \in GatewayPolicies(h), q \in Candidates(h) :
                           ~ (call[deployed[p].by].ended
                                <= call[deployed[q].by].began)
    BY DEF LaterPublicationWins
  <2>1. \A p \in Candidates(h) :
          /\ p \in Policies
          /\ deployed[p].by \in Calls
          /\ call[deployed[p].by].policy = p
          /\ call[deployed[p].by].began = deployed[p].at
          /\ call[deployed[p].by].began > 0
          /\ call[deployed[p].by].began < call[deployed[p].by].ended
    BY DEF ControlPlaneInv, DeployInv, Candidates
  <2>2. \A p, q \in GatewayPolicies(h) : p = q
    <3> SUFFICES ASSUME NEW p \in GatewayPolicies(h),
                        NEW q \in GatewayPolicies(h)
                 PROVE  p = q
      OBVIOUS
    <3>1. p \in Candidates(h) /\ q \in Candidates(h)
      BY DEF GatewayPolicies
    <3>2. deployed[p].at = deployed[q].at
      BY <2>1, <3>1, Types DEF ControlPlaneInv, GatewayPolicies
    <3>3. deployed[p].by = deployed[q].by
      BY <2>1, <3>1, <3>2, Types DEF ControlPlaneInv, StampInv
    <3> QED
      BY <2>1, <3>1, <3>3
  <2>3. Cardinality(GatewayPolicies(h)) <= 1
    <3>1. CASE GatewayPolicies(h) = {}
      BY <3>1, FS_EmptySet
    <3>2. CASE GatewayPolicies(h) # {}
      <4>1. PICK p : p \in GatewayPolicies(h)
        BY <3>2
      <4>2. GatewayPolicies(h) = {p}
        BY <2>2, <4>1
      <4>3. Cardinality({p}) = 1
        BY FS_Singleton
      <4> QED
        BY <4>2, <4>3
    <3> QED
      BY <3>1, <3>2
  <2>4. ASSUME NEW p \in GatewayPolicies(h), NEW q \in Candidates(h)
        PROVE  ~ (call[deployed[p].by].ended <= call[deployed[q].by].began)
    <3>1. p \in Candidates(h) /\ deployed[q].at <= deployed[p].at
      BY DEF GatewayPolicies
    <3> QED
      BY <2>1, <3>1, Types DEF ControlPlaneInv
  <2> QED
    BY <2>3, <2>4
<1> QED
  BY <1>1, ControlPlaneCorrect, PTL

(* Only a publication writes versions, only it and the writers of a        *)
(* policy's status change what gateways are told.                          *)
LEMMA WhoWrites ==
  ASSUME [Next]_vars
  PROVE  \/ UNCHANGED <<status, versions, deployed>>
         \/ \E p \in Policies : CreatePolicy(p)
         \/ \E c \in Calls, newStatus \in PolicyStatuses :
              CommitUpdate(c, newStatus)
         \/ \E c \in Calls : CommitPublish(c)
<1>1. CASE UNCHANGED vars
  BY <1>1 DEF vars, policyVars
<1>2. CASE Create
  BY <1>2 DEF Create, CreateApp, policyVars
<1>3. ASSUME NEW c \in Calls, UpdateApp(c) \/ Fail(c)
      PROVE  UNCHANGED policyVars
  BY <1>3 DEF UpdateApp, ReadApp, WriteApp, Fail
<1>4. ASSUME NEW c \in Calls, UpdatePolicy(c) \/ PublishPolicy(c)
      PROVE  \/ UNCHANGED policyVars
             \/ \E newStatus \in PolicyStatuses : CommitUpdate(c, newStatus)
             \/ CommitPublish(c)
  BY <1>4 DEF UpdatePolicy, PublishPolicy, ReadPolicy, BeginUpdate,
     CheckUpdate, RefuseUpdate, BeginPublish, LockPublish, Compile
<1> QED
  BY <1>1, <1>2, <1>3, <1>4 DEF Next, Finished, policyVars

(* A publication stores the draft that the policy has when it commits      *)
(* (db.go:378-407).                                                        *)
THEOREM PublicationIsCurrent == Spec => PublishesCurrentDraft
<1>1. ControlPlaneInv /\ [Next]_vars =>
        [\A v \in versions' \ versions : v.draft = draft[v.policy]]_vars
  <2> SUFFICES ASSUME ControlPlaneInv, [Next]_vars,
                      NEW v \in versions', v \notin versions
               PROVE  v.draft = draft[v.policy]
    OBVIOUS
  <2>1. PICK c \in Calls : CommitPublish(c)
    BY WhoWrites DEF CreatePolicy, CommitUpdate
  <2>2. v = CompiledVersion(c, call[c].policy)
    BY <2>1, CommitPublishWrites DEF WriteVersion
  <2>3. call[c].draft = draft[call[c].policy]
    BY <2>1 DEF CommitPublish, ControlPlaneInv, ReadInv
  <2> QED
    BY <2>2, <2>3 DEF CompiledVersion
<1> QED
  BY <1>1, ControlPlaneCorrect, PTL DEF Spec, PublishesCurrentDraft

(* To gateways the repository is a PolicySource: one publication at a      *)
(* time, each raising one policy's version by one, and policies enabled    *)
(* and disabled (db.go:315-428).                                           *)
THEOREM ControlPlaneIsASource == Spec => ImplementsSource
<1>1. Init => Source!SourceInit
  <2> SUFFICES ASSUME Init PROVE Source!SourceInit
    OBVIOUS
  <2>1. [p \in Policies |-> deployed[p].version] = [p \in Policies |-> 0]
    BY DEF Init
  <2>2. \A p \in Policies : (status[p] = "enabled") = FALSE
    BY DEF Init
  <2>3. [p \in Policies |-> status[p] = "enabled"] = [p \in Policies |-> FALSE]
    BY <2>2, Zenon
  <2> QED
    BY <2>1, <2>3 DEF Source!SourceInit
<1>2. ControlPlaneInv /\ [Next]_vars =>
        [Source!SourceNext]_(Source!sourceVars)
  <2> SUFFICES ASSUME ControlPlaneInv, [Next]_vars
               PROVE  [Source!SourceNext]_(Source!sourceVars)
    OBVIOUS
  <2> DEFINE version == [p \in Policies |-> deployed[p].version]
             enabled == [p \in Policies |-> status[p] = "enabled"]
  <2>1. CASE UNCHANGED <<status, versions, deployed>>
    BY <2>1 DEF Source!sourceVars
  <2>2. ASSUME NEW p \in Policies, NEW s \in PolicyStatuses,
               status' = [status EXCEPT ![p] = s], UNCHANGED deployed
        PROVE  [Source!SourceNext]_(Source!sourceVars)
    <3>1. version' = version
      BY <2>2
    <3>2. CASE (status[p] = "enabled") = (s = "enabled")
      <4>1. enabled' = enabled
        BY <2>2, <3>2 DEF ControlPlaneInv, TypeOK
      <4> QED
        BY <3>1, <4>1 DEF Source!sourceVars
    <3>3. CASE (status[p] = "enabled") # (s = "enabled")
      <4>1. enabled' = [enabled EXCEPT ![p] = ~ @]
        BY <2>2, <3>3 DEF ControlPlaneInv, TypeOK
      <4> QED
        BY <3>1, <4>1 DEF Source!SourceNext, Source!Toggle
    <3> QED
      BY <3>2, <3>3
  <2>3. ASSUME NEW c \in Calls, CommitPublish(c)
        PROVE  Source!SourceNext
    <3> DEFINE p == call[c].policy
    <3>1. /\ p \in Policies
          /\ UNCHANGED status
          /\ deployed' = [deployed EXCEPT ![p] =
               [version |-> active[p] + 1, at |-> call[c].began, by |-> c]]
      BY <2>3, CommitPublishWrites DEF WriteVersion, Deploy
    <3>2. deployed[p].version = active[p]
      BY <3>1 DEF ControlPlaneInv, RowsInv, PointersAgree
    <3>3. version' = [version EXCEPT ![p] = @ + 1]
      BY <3>1, <3>2 DEF ControlPlaneInv, TypeOK
    <3>4. enabled' = enabled
      BY <3>1
    <3> QED
      BY <3>1, <3>3, <3>4 DEF Source!SourceNext, Source!Publish
  <2>4. ASSUME NEW p \in Policies, CreatePolicy(p)
        PROVE  [Source!SourceNext]_(Source!sourceVars)
    BY <2>2, <2>4 DEF CreatePolicy, PolicyStatuses
  <2>5. ASSUME NEW c \in Calls, NEW s \in PolicyStatuses, CommitUpdate(c, s)
        PROVE  [Source!SourceNext]_(Source!sourceVars)
    BY <2>2, <2>5 DEF CommitUpdate, ControlPlaneInv, PhaseInv, Open
  <2> QED
    BY <2>1, <2>3, <2>4, <2>5, WhoWrites
<1> QED
  BY <1>1, <1>2, ControlPlaneCorrect, PTL
  DEF Spec, ImplementsSource, Source!SourceSpec

=============================================================================
