---------------------------- MODULE ControlPlane ----------------------------
(***************************************************************************)
(* The control API's repository (services/control-api/internal/db/db.go):  *)
(* the transactions by which apps and policies are created, edited and     *)
(* published, run concurrently against one PostgreSQL database, and the    *)
(* query that answers a gateway.                                           *)
(*                                                                         *)
(* PostgreSQL runs them at its default level, READ COMMITTED: a statement  *)
(* sees what was committed before it, SELECT ... FOR UPDATE waits for the  *)
(* row lock and then reads the newest row, a transaction's writes become   *)
(* visible together when it commits, and now() is when it began.  No code  *)
(* deletes a row of apps or policies.  Calls about rows that do not exist  *)
(* are answered 404 and change nothing: they are left out.                 *)
(***************************************************************************)
EXTENDS Integers, FiniteSets

CONSTANTS Calls,     \* API calls that edit or publish
          Apps,      \* rows of apps
          Policies,  \* rows of policies
          AppOf,     \* policies.app_id
          Hosts,     \* hostnames
          Urls,      \* origin URLs
          NoCall,    \* no call: a free lock, a draft as it was created
          NoUrl,     \* a request without origin_url
          MaxClock   \* bound on the number of transactions

ASSUME ControlPlaneAssumption ==
  /\ AppOf \in [Policies -> Apps]
  /\ NoCall \notin Calls
  /\ NoUrl \notin Urls
  /\ MaxClock \in Nat

VARIABLES
  clock,      \* the database clock, advanced by every transaction it stamps
  appStatus,  \* apps.status, "absent" if there is no row
  hostnames,  \* apps.hostnames
  origins,    \* rows of origins, all named 'primary'
  status,     \* policies.enabled, "absent" if there is no row
  draft,      \* what else policies holds: the call that wrote it
  updatedAt,  \* policies.updated_at
  active,     \* policies.active_version_id, as a number; 0 is NULL
  versions,   \* rows of policy_versions
  deployed,   \* policy_deployments of node 'default'; version 0 is no row
  rowLock,    \* the transaction that holds the lock on a row of policies
  call,       \* where each API call is and what it has read
  outcome     \* how it ended

appVars == <<appStatus, hostnames, origins>>
policyVars == <<status, draft, updatedAt, active, versions, deployed>>
vars == <<clock, appVars, policyVars, rowLock, call, outcome>>

Writers == Calls \cup {NoCall}
Times == 0 .. MaxClock
AppStatuses == {"active", "disabled"}
PolicyStatuses == {"enabled", "disabled"}
Phases == {"idle", "read", "updating", "checked", "publishing", "locked",
           "compiled", "merged", "done"}
Outcomes == {"none", "ok", "conflict", "collision", "failed"}

(* What a call holds before it has read anything. *)
NewCall == [phase |-> "idle", policy |-> NoCall, app |-> NoCall,
            began |-> 0, ended |-> 0, expected |-> 0, basis |-> NoCall,
            replaced |-> NoCall, draft |-> NoCall, number |-> 0, url |-> NoUrl,
            hostnames |-> {}, status |-> "active"]

Init ==
  /\ clock = 0
  /\ appStatus = [a \in Apps |-> "absent"]
  /\ hostnames = [a \in Apps |-> {}]
  /\ origins = {}
  /\ status = [p \in Policies |-> "absent"]
  /\ draft = [p \in Policies |-> NoCall]
  /\ updatedAt = [p \in Policies |-> 0]
  /\ active = [p \in Policies |-> 0]
  /\ versions = {}
  /\ deployed = [p \in Policies |-> [version |-> 0, at |-> 0, by |-> NoCall]]
  /\ rowLock = [p \in Policies |-> NoCall]
  /\ call = [c \in Calls |-> NewCall]
  /\ outcome = [c \in Calls |-> "none"]

(* now() of a transaction that begins: no two begin in one microsecond. *)
Stamp ==
  /\ clock < MaxClock
  /\ clock' = clock + 1

(* A call ends: what it began is committed or rolled back. *)
End(c, result) ==
  /\ outcome' = [outcome EXCEPT ![c] = result]
  /\ rowLock' = [p \in Policies |->
                   IF rowLock[p] = c THEN NoCall ELSE rowLock[p]]

(* Whether the client sees the answer to a COMMIT or loses it. *)
Answered == {"ok", "failed"}

-----------------------------------------------------------------------------
(* Apps. *)

(* UNIQUE (app_id, name), which soft-deleted rows count towards too. *)
OriginFits(a) == ~ \E row \in origins : row.app = a

(* insertOrigin: another row named 'primary'. *)
InsertOrigin(rows, a, url) ==
  rows \cup {[app |-> a, url |-> url, live |-> TRUE]}

(* The rows getPrimaryOrigin chooses from. *)
LiveOrigins(a) == {row \in origins : row.app = a /\ row.live}

(* CreateApp: the app and its primary origin in one transaction. *)
CreateApp(a, names, url) ==
  /\ appStatus[a] = "absent"
  /\ OriginFits(a)
  /\ appStatus' = [appStatus EXCEPT ![a] = "active"]
  /\ hostnames' = [hostnames EXCEPT ![a] = names]
  /\ origins' = InsertOrigin(origins, a, url)
  /\ UNCHANGED <<clock, policyVars, rowLock, call, outcome>>

(* UpdateApp reads the row and merges the request into what it has read,   *)
(* before its transaction begins.                                          *)
ReadApp(c, a, names, newStatus, url) ==
  /\ call[c].phase = "idle"
  /\ appStatus[a] # "absent"
  /\ call' = [call EXCEPT ![c] =
                [@ EXCEPT !.phase = "merged", !.app = a, !.url = url,
                          !.hostnames = IF names = {} THEN hostnames[a]
                                                      ELSE names,
                          !.status = IF newStatus = "kept" THEN appStatus[a]
                                                           ELSE newStatus]]
  /\ UNCHANGED <<clock, appVars, policyVars, rowLock, outcome>>

(* The rows of origins after UpdateApp: the old one is marked deleted. *)
Repointed(a, url) ==
  IF url = NoUrl
    THEN origins
    ELSE InsertOrigin(
           {IF row.app = a THEN [row EXCEPT !.live = FALSE] ELSE row :
              row \in origins}, a, url)

(* The transaction of UpdateApp writes all columns, read or requested; a   *)
(* violated constraint rolls everything back.                              *)
WriteApp(c) ==
  LET a == call[c].app
      url == call[c].url
  IN
  /\ call[c].phase = "merged"
  /\ call' = [call EXCEPT ![c].phase = "done"]
  /\ \/ /\ url = NoUrl \/ OriginFits(a)
        /\ appStatus' = [appStatus EXCEPT ![a] = call[c].status]
        /\ hostnames' = [hostnames EXCEPT ![a] = call[c].hostnames]
        /\ origins' = Repointed(a, url)
        /\ \E result \in Answered : End(c, result)
     \/ /\ url # NoUrl /\ ~ OriginFits(a)
        /\ End(c, "collision")
        /\ UNCHANGED appVars
  /\ UNCHANGED <<clock, policyVars>>

-----------------------------------------------------------------------------
(* Policy drafts. *)

(* CreatePolicy: one statement, after GetApp has found the app. *)
CreatePolicy(p) ==
  /\ status[p] = "absent"
  /\ appStatus[AppOf[p]] # "absent"
  /\ Stamp
  /\ status' = [status EXCEPT ![p] = "enabled"]
  /\ updatedAt' = [updatedAt EXCEPT ![p] = clock]
  /\ UNCHANGED <<appVars, draft, active, versions, deployed, rowLock, call,
                 outcome>>

(* The client of an update gets the draft and its updated_at first. *)
ReadPolicy(c, p) ==
  /\ call[c].phase = "idle"
  /\ status[p] # "absent"
  /\ call' = [call EXCEPT ![c] =
                [@ EXCEPT !.phase = "read", !.policy = p,
                          !.expected = updatedAt[p], !.basis = draft[p]]]
  /\ UNCHANGED <<clock, appVars, policyVars, rowLock, outcome>>

BeginUpdate(c) ==
  /\ call[c].phase = "read"
  /\ Stamp
  /\ call' = [call EXCEPT ![c].phase = "updating", ![c].began = clock]
  /\ UNCHANGED <<appVars, policyVars, rowLock, outcome>>

(* Mutant: getPolicyForUpdate reads the row without FOR UPDATE. *)
GetPolicyUnlocked(c, p) == UNCHANGED rowLock

(* getPolicyForUpdate: the row lock is free and taken. *)
GetPolicyForUpdate(c, p) ==
  /\ rowLock[p] = NoCall
  /\ rowLock' = [rowLock EXCEPT ![p] = c]

(* Mutant: the expected updated_at is not looked at. *)
CheckUpdateBlindly(c) ==
  LET p == call[c].policy IN
  /\ call[c].phase = "updating"
  /\ GetPolicyForUpdate(c, p)
  /\ call' = [call EXCEPT ![c].phase = "checked"]
  /\ UNCHANGED <<clock, appVars, policyVars, outcome>>

(* The row is locked, then its updated_at compared with the expected one. *)
CheckUpdate(c) ==
  LET p == call[c].policy IN
  /\ call[c].phase = "updating"
  /\ updatedAt[p] = call[c].expected
  /\ GetPolicyForUpdate(c, p)
  /\ call' = [call EXCEPT ![c].phase = "checked"]
  /\ UNCHANGED <<clock, appVars, policyVars, outcome>>

(* ErrConflict: the lock is taken and given up in the rollback. *)
RefuseUpdate(c) ==
  LET p == call[c].policy IN
  /\ call[c].phase = "updating"
  /\ rowLock[p] = NoCall
  /\ updatedAt[p] # call[c].expected
  /\ call' = [call EXCEPT ![c].phase = "done"]
  /\ End(c, "conflict")
  /\ UNCHANGED <<clock, appVars, policyVars>>

(* The UPDATE and COMMIT of UpdatePolicy. *)
CommitUpdate(c, newStatus) ==
  LET p == call[c].policy IN
  /\ call[c].phase = "checked"
  /\ status' = [status EXCEPT ![p] = newStatus]
  /\ draft' = [draft EXCEPT ![p] = c]
  /\ updatedAt' = [updatedAt EXCEPT ![p] = call[c].began]
  /\ call' = [call EXCEPT ![c].phase = "done", ![c].ended = clock,
                          ![c].replaced = draft[p]]
  /\ \E result \in Answered : End(c, result)
  /\ UNCHANGED <<clock, appVars, active, versions, deployed>>

-----------------------------------------------------------------------------
(* Publication. *)

(* The handler gets the policy and validates its draft, then PublishPolicy *)
(* begins its transaction.                                                 *)
BeginPublish(c, p) ==
  /\ call[c].phase = "idle"
  /\ status[p] # "absent"
  /\ Stamp
  /\ call' = [call EXCEPT ![c].phase = "publishing", ![c].policy = p,
                          ![c].began = clock, ![c].draft = draft[p]]
  /\ UNCHANGED <<appVars, policyVars, rowLock, outcome>>

(* Mutant: the draft that was validated is published. *)
LockPublishStale(c) ==
  LET p == call[c].policy IN
  /\ call[c].phase = "publishing"
  /\ GetPolicyForUpdate(c, p)
  /\ call' = [call EXCEPT ![c].phase = "locked"]
  /\ UNCHANGED <<clock, appVars, policyVars, outcome>>

(* The draft that will be published is the one in the locked row. *)
LockPublish(c) ==
  LET p == call[c].policy IN
  /\ call[c].phase = "publishing"
  /\ GetPolicyForUpdate(c, p)
  /\ call' = [call EXCEPT ![c].phase = "locked", ![c].draft = draft[p]]
  /\ UNCHANGED <<clock, appVars, policyVars, outcome>>

Numbers(p) == {v.number : v \in {w \in versions : w.policy = p}}

(* Mutant: the versions of all policies are counted. *)
NumberAmongAll(p) == 1 + Cardinality(versions)

(* COALESCE(MAX(version), 0) + 1 *)
NextNumber(p) ==
  1 + (CHOOSE n \in Numbers(p) \cup {0} : \A m \in Numbers(p) : m <= n)

(* The number is read, then compileGatewayPolicy reads the app's origin. *)
Compile(c) ==
  LET p == call[c].policy IN
  /\ call[c].phase = "locked"
  /\ \E row \in LiveOrigins(AppOf[p]) :
       call' = [call EXCEPT ![c].phase = "compiled", ![c].url = row.url,
                            ![c].number = NextNumber(p)]
  /\ UNCHANGED <<clock, appVars, policyVars, rowLock, outcome>>

(* Mutant: the upsert leaves deployed_at as it was. *)
DeployKeepingTime(c, p) ==
  deployed' = [deployed EXCEPT ![p] =
                 [version |-> call[c].number,
                  at |-> IF @.version = 0 THEN call[c].began ELSE @.at,
                  by |-> c]]

(* The upsert of the policy's deployment, stamped with now(). *)
Deploy(c, p) ==
  deployed' = [deployed EXCEPT ![p] =
                 [version |-> call[c].number, at |-> call[c].began, by |-> c]]

(* The row of policy_versions: the draft compiled with the app's origin. *)
CompiledVersion(c, p) ==
  [policy |-> p, number |-> call[c].number, draft |-> call[c].draft,
   url |-> call[c].url]

(* The three writes of PublishPolicy. *)
WriteVersion(c, p) ==
  /\ versions' = versions \cup {CompiledVersion(c, p)}
  /\ active' = [active EXCEPT ![p] = call[c].number]
  /\ updatedAt' = [updatedAt EXCEPT ![p] = call[c].began]
  /\ Deploy(c, p)
  /\ UNCHANGED <<status, draft>>

(* They are committed together, unless UNIQUE (policy_id, version) rejects *)
(* the first and the transaction rolls back.                               *)
CommitPublish(c) ==
  LET p == call[c].policy IN
  /\ call[c].phase = "compiled"
  /\ IF call[c].number \in Numbers(p)
       THEN End(c, "collision") /\ UNCHANGED policyVars
       ELSE WriteVersion(c, p) /\ \E result \in Answered : End(c, result)
  /\ call' = [call EXCEPT ![c].phase = "done", ![c].ended = clock]
  /\ UNCHANGED <<clock, appVars>>

-----------------------------------------------------------------------------
(* A statement fails, the request is cancelled or the control API dies:    *)
(* the open transaction rolls back.                                        *)
Fail(c) ==
  /\ call[c].phase \notin {"idle", "done"}
  /\ call' = [call EXCEPT ![c].phase = "done"]
  /\ End(c, "failed")
  /\ UNCHANGED <<clock, appVars, policyVars>>

(* Nothing is left to do once every call has ended. *)
Finished ==
  /\ \A c \in Calls : call[c].phase = "done"
  /\ UNCHANGED vars

Create ==
  \/ \E a \in Apps, names \in (SUBSET Hosts) \ {{}}, url \in Urls :
       CreateApp(a, names, url)
  \/ \E p \in Policies : CreatePolicy(p)

UpdateApp(c) ==
  \/ \E a \in Apps, names \in SUBSET Hosts,
        newStatus \in AppStatuses \cup {"kept"}, url \in Urls \cup {NoUrl} :
       ReadApp(c, a, names, newStatus, url)
  \/ WriteApp(c)

UpdatePolicy(c) ==
  \/ \E p \in Policies : ReadPolicy(c, p)
  \/ BeginUpdate(c)
  \/ CheckUpdate(c)
  \/ RefuseUpdate(c)
  \/ \E newStatus \in PolicyStatuses : CommitUpdate(c, newStatus)

PublishPolicy(c) ==
  \/ \E p \in Policies : BeginPublish(c, p)
  \/ LockPublish(c)
  \/ Compile(c)
  \/ CommitPublish(c)

Next ==
  \/ Create
  \/ \E c \in Calls : UpdateApp(c) \/ UpdatePolicy(c) \/ PublishPolicy(c)
                        \/ Fail(c)
  \/ Finished

Spec == Init /\ [][Next]_vars

-----------------------------------------------------------------------------
(* The answer to a gateway. *)

(* The rows GetGatewayPolicyByHostname joins. *)
Candidates(h) ==
  {p \in Policies : /\ deployed[p].version # 0
                    /\ status[p] = "enabled"
                    /\ appStatus[AppOf[p]] = "active"
                    /\ h \in hostnames[AppOf[p]]}

(* ORDER BY deployed_at DESC LIMIT 1: what the query may return. *)
GatewayPolicies(h) ==
  {p \in Candidates(h) :
     \A q \in Candidates(h) : deployed[q].at <= deployed[p].at}

-----------------------------------------------------------------------------
(* Properties. *)

CallType ==
  [phase : Phases, policy : Policies \cup {NoCall}, app : Apps \cup {NoCall},
   began : Times, ended : Times, expected : Times, basis : Writers,
   replaced : Writers, draft : Writers, number : Nat, url : Urls \cup {NoUrl},
   hostnames : SUBSET Hosts, status : AppStatuses]

(* Types of the tables and of the calls. *)
TypeOK ==
  /\ clock \in Times
  /\ appStatus \in [Apps -> AppStatuses \cup {"absent"}]
  /\ hostnames \in [Apps -> SUBSET Hosts]
  /\ origins \subseteq [app : Apps, url : Urls, live : BOOLEAN]
  /\ status \in [Policies -> PolicyStatuses \cup {"absent"}]
  /\ draft \in [Policies -> Writers]
  /\ updatedAt \in [Policies -> Times]
  /\ active \in [Policies -> Nat]
  /\ versions \subseteq [policy : Policies, number : Nat, draft : Writers,
                         url : Urls]
  /\ deployed \in [Policies -> [version : Nat, at : Times, by : Writers]]
  /\ rowLock \in [Policies -> Writers]
  /\ call \in [Calls -> CallType]
  /\ outcome \in [Calls -> Outcomes]

(* A policy's versions are numbered 1, 2, 3, ... without a gap, no number  *)
(* twice, and active_version_id and the deployment both name the last one: *)
(* PublishPolicy moves the three tables together (db.go:401-424).          *)
PointersAgree ==
  \A p \in Policies :
    LET rows == {v \in versions : v.policy = p} IN
    /\ Numbers(p) = 1 .. Cardinality(rows)
    /\ active[p] = Cardinality(rows)
    /\ deployed[p].version = active[p]

(* The row lock keeps publications of one policy from computing the same   *)
(* number: the UNIQUE constraint never fails a publication (db.go:383).    *)
PublicationsDoNotCollide ==
  \A c \in Calls : call[c].policy # NoCall => outcome[c] # "collision"

(* The tables agree after every commit, whatever calls run beside it and   *)
(* whichever statements fail (db.go:361-428).                              *)
TablesAgree == TypeOK /\ PointersAgree /\ PublicationsDoNotCollide

(* An update replaces the very draft its client had read, however many     *)
(* updates and publications ran meanwhile, although the rows are told      *)
(* apart by a timestamp (db.go:328).                                       *)
NoLostUpdate ==
  \A c \in Calls :
    call[c].ended # 0 => call[c].replaced = call[c].basis

(* What a publication stores is the draft as it is when it commits, not    *)
(* one that an update has replaced since it was read (db.go:378-407).      *)
PublishesCurrentDraft ==
  [][\A v \in versions' \ versions : v.draft = draft[v.policy]]_vars

(* Of two publications visible under one hostname, one that began after    *)
(* the other had ended wins, also when a policy is published again; and    *)
(* the query has one answer (db.go:413-419, 473).                          *)
LaterPublicationWins ==
  \A h \in Hosts :
    /\ Cardinality(GatewayPolicies(h)) <= 1
    /\ \A p \in GatewayPolicies(h), q \in Candidates(h) :
         ~ (call[deployed[p].by].ended <= call[deployed[q].by].began)

Source == INSTANCE PolicySource WITH
            version <- [p \in Policies |-> deployed[p].version],
            enabled <- [p \in Policies |-> status[p] = "enabled"]

(* Whatever runs concurrently, fails or is rolled back, gateways see one   *)
(* publication at a time, each raising the version of one policy by one,   *)
(* and apart from them only policies enabled and disabled (db.go:315-428). *)
ImplementsSource == Source!SourceSpec

-----------------------------------------------------------------------------
(* The inductive invariant behind these properties. *)

(* A transaction is open; it holds its policy's row; a client has read a   *)
(* draft that it means to replace.                                         *)
Open(c) == call[c].phase \in {"updating", "checked", "publishing", "locked",
                              "compiled"}
Locking(c) == call[c].phase \in {"checked", "locked", "compiled"}
Updating(c) == call[c].phase \in {"read", "updating", "checked"}

(* What a call holds in each phase. *)
PhaseInv ==
  \A c \in Calls :
    /\ call[c].phase # "done" => /\ outcome[c] = "none"
                                 /\ call[c].ended = 0
                                 /\ call[c].replaced = NoCall
    /\ call[c].phase \in {"idle", "merged"} => call[c].policy = NoCall
    /\ call[c].phase = "merged" => call[c].app \in Apps
    /\ Open(c) \/ Updating(c) => /\ call[c].policy \in Policies
                                 /\ status[call[c].policy] # "absent"
    /\ Open(c) /\ ~ Updating(c) => call[c].basis = NoCall
    /\ call[c].phase = "idle" => call[c].basis = NoCall
    /\ call[c].phase = "compiled" => call[c].url \in Urls
    /\ outcome[c] = "collision" => call[c].policy = NoCall

(* A row is locked by the one call that works on it. *)
LockInv ==
  \A c \in Calls, p \in Policies :
    rowLock[p] = c <=> Locking(c) /\ call[c].policy = p

(* What the holder of a row lock has read is still so. *)
ReadInv ==
  \A c \in Calls :
    LET p == call[c].policy IN
    /\ call[c].phase = "checked" => draft[p] = call[c].basis
    /\ call[c].phase \in {"locked", "compiled"} => call[c].draft = draft[p]
    /\ call[c].phase = "compiled" => call[c].number = active[p] + 1

(* The tables as PointersAgree has them, and finite. *)
RowsInv ==
  /\ PointersAgree
  /\ \A p \in Policies : IsFiniteSet({v \in versions : v.policy = p})

(* A stamp is older than the clock, or is none. *)
Past(t) == t = 0 \/ t < clock

(* Every transaction has a stamp of its own, which no row and no client    *)
(* has before the transaction commits.                                     *)
StampInv ==
  /\ \A p \in Policies :
       /\ status[p] # "absent" => clock > 0
       /\ Past(updatedAt[p]) /\ Past(deployed[p].at)
  /\ \A c \in Calls :
       /\ Past(call[c].began) /\ Past(call[c].expected)
       /\ Open(c) =>
            /\ call[c].began > 0
            /\ \A p \in Policies : updatedAt[p] # call[c].began
            /\ \A d \in Calls : call[d].expected # call[c].began
       /\ \A d \in Calls \ {c} : call[c].began # 0 =>
                                   call[c].began # call[d].began

(* The expected stamp tells whether the draft is the one that was read. *)
BasisInv ==
  \A c \in Calls :
    Updating(c) /\ updatedAt[call[c].policy] = call[c].expected =>
      draft[call[c].policy] = call[c].basis

(* A deployment is stamped by the publication that made it, which is over. *)
DeployInv ==
  \A p \in Policies :
    deployed[p].version # 0 =>
      LET by == deployed[p].by IN
      /\ by \in Calls
      /\ call[by].phase = "done"
      /\ call[by].policy = p
      /\ call[by].began = deployed[p].at
      /\ call[by].began > 0
      /\ call[by].began < call[by].ended

ControlPlaneInv ==
  /\ TypeOK
  /\ PhaseInv
  /\ LockInv
  /\ ReadInv
  /\ RowsInv
  /\ StampInv
  /\ BasisInv
  /\ DeployInv
  /\ NoLostUpdate

-----------------------------------------------------------------------------
(* What the repository's documents say and the code does not do.           *)

(* A request to change an app's origin is not refused by the database      *)
(* (docs/openapi.yaml:824 has origin_url in UpdateAppRequest).             *)
OriginPatchApplies ==
  \A c \in Calls : call[c].app # NoCall => outcome[c] # "collision"

=============================================================================
