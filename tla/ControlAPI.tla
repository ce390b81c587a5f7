----------------------------- MODULE ControlAPI -----------------------------
(***************************************************************************)
(* The control API's routes (httpapi/server.go, validation.go) over its    *)
(* tables (db/db.go): who may call them, whose rows they read and write,   *)
(* and what becomes of a request sent twice.                               *)
(*                                                                         *)
(* A handler is an operator that takes the tables and a request to the new *)
(* tables and the answer: here a request is one step.  How transactions    *)
(* interleave is in ControlPlane, what rules a draft may hold in           *)
(* PolicyRules, the event routes in EventQueries.                          *)
(*                                                                         *)
(* Rows are numbered by the clock in place of random UUIDs.  What is wrong *)
(* with a body is told in `faults': "json" (decodeJSON), "name", "slug",   *)
(* "url", "metadata", "mode", "snapshot" (the validators), "status".       *)
(***************************************************************************)
EXTENDS ApiRequest, Integers, Sequences, FiniteSets

CONSTANTS Requests,   \* the requests clients send
          Seed,       \* the tables to begin with
          Malformed,  \* an id that is not a UUID
          MaxClock    \* bound on the number of requests that write

ASSUME ControlAPIAssumption == MaxClock \in Nat /\ Malformed \in Nat \ {0}

VARIABLE db  \* the tables tenants, apps, policies, managed, and the clock

GlobalRoutes == {"listTenants", "createTenant", "listManagedRuleSets",
                 "listManagedRuleVersions", "activateManagedRuleVersion"}
TenantRoutes == {"listApps", "createApp", "getApp", "patchApp",
                 "listPolicies", "createPolicy", "getActivePolicy",
                 "getPolicy", "patchPolicy", "publishPolicy"}
Routes == GlobalRoutes \cup TenantRoutes \cup {"getGatewayPolicy"}

Init == db = Seed

-----------------------------------------------------------------------------
(* Answers. *)

Refuse(d, status) == [db |-> d, status |-> status, shown |-> {}]

Show(d, status, rows) == [db |-> d, status |-> status, shown |-> rows]

(* A transaction that writes has a now() of its own. *)
Stamped(d) == [d EXCEPT !.clock = @ + 1]

Now(d) == d.clock + 1

(* PostgreSQL refuses a parameter that is no UUID: 500. *)
Unreadable(ids) == Malformed \in ids

(* handleReadError: of the row that is looked for there is none. *)
NotFound(d) == Refuse(d, 404)

IfFound(d, ids, rows, answer) ==
  IF Unreadable(ids) THEN Refuse(d, 500)
  ELSE IF rows = {} THEN NotFound(d) ELSE answer

(* The body does not decode (decodeJSON), or one of these fields is wrong. *)
BadBody(r, fields) == r.faults \cap ({"json"} \cup fields) # {}

-----------------------------------------------------------------------------
(* Tenants and managed rules, which belong to no tenant. *)

ListTenants(d) == Show(d, 200, d.tenants)

CreateTenant(d, r) ==
  LET row == [id |-> Now(d), slug |-> r.slug] IN
  IF BadBody(r, {"name", "slug", "metadata"}) THEN Refuse(d, 400)
  ELSE IF \E t \in d.tenants : t.slug = r.slug   \* UNIQUE (slug)
    THEN Refuse(d, 500)
    ELSE Show([Stamped(d) EXCEPT !.tenants = @ \cup {row}], 201, {row})

ListManagedRuleSets(d) == Show(d, 200, {m[1] : m \in d.managed})

ListManagedRuleVersions(d, r) ==
  IF Unreadable({r.set}) THEN Refuse(d, 500)
  ELSE Show(d, 200, {m \in d.managed : m[1] = r.set})

(* Nothing is activated: a policy that refers to the version has to be     *)
(* published.                                                              *)
ActivateManagedRuleVersion(d, r) ==
  IfFound(d, {r.set, r.version}, d.managed \cap {<<r.set, r.version>>},
          Show(d, 202, {}))

-----------------------------------------------------------------------------
(* Apps. *)

(* Mutant: the row is looked up by its id alone. *)
GetAppById(d, tenant, id) == {a \in d.apps : a.id = id}

(* GetApp: none or one. *)
GetApp(d, tenant, id) == {a \in d.apps : a.tenant = tenant /\ a.id = id}

(* validateHostnames: a name with a port counts as the name, the spelling  *)
(* is not changed; host 0 is one that is no DNS name.                      *)
ValidateHostnames(names) ==
  /\ names # <<>>
  /\ \A i \in DOMAIN names : names[i].host # 0
  /\ \A i, j \in DOMAIN names : names[i].host = names[j].host => i = j

(* Mutant: CREATE TABLE apps without UNIQUE (tenant_id, slug). *)
SlugAlwaysFree(d, tenant, slug) == TRUE

(* UNIQUE (tenant_id, slug) *)
SlugFree(d, tenant, slug) ==
  ~ \E a \in d.apps : a.tenant = tenant /\ a.slug = slug

(* validateCreateApp; the body's tenant is the request's or is left out. *)
ValidateCreateApp(r, tenant) ==
  /\ ~ BadBody(r, {"name", "slug", "url", "metadata"})
  /\ TrimSpace(r.body) \in {0, tenant}
  /\ ValidateHostnames(r.hostnames)

(* createApp: a tenant that does not exist violates a foreign key. *)
CreateApp(d, r, tenant) ==
  LET row == [id |-> Now(d), tenant |-> tenant, slug |-> r.slug,
              hostnames |-> r.hostnames, status |-> "active",
              updated |-> Now(d)]
  IN
  IF ~ ValidateCreateApp(r, tenant) THEN Refuse(d, 400)
  ELSE IF /\ ~ Unreadable({tenant})
          /\ \E t \in d.tenants : t.id = tenant
          /\ SlugFree(d, tenant, r.slug)
    THEN Show([Stamped(d) EXCEPT !.apps = @ \cup {row}], 201, {row})
    ELSE Refuse(d, 500)

(* validatePatchApp validates a list of hostnames that is not empty. *)
ValidatePatchedHostnames(names) == names = <<>> \/ ValidateHostnames(names)

ValidatePatchApp(r) ==
  /\ ~ BadBody(r, {"name", "status", "url", "metadata"})
  /\ ValidatePatchedHostnames(r.hostnames)

(* patchApp, UpdateApp: a new origin violates UNIQUE (app_id, name) of the *)
(* table origins and undoes the rest.                                      *)
PatchApp(d, r, tenant) ==
  LET found == GetApp(d, tenant, r.app)
      patched == {[a EXCEPT !.hostnames = IF r.hostnames = <<>> THEN @
                                                                ELSE r.hostnames,
                            !.status = IF r.status = "kept" THEN @
                                                            ELSE r.status,
                            !.updated = Now(d)] : a \in found}
  IN
  IF ~ ValidatePatchApp(r) THEN Refuse(d, 400)
  ELSE IfFound(d, {tenant, r.app}, found,
         IF r.origin THEN Refuse(d, 500)
         ELSE Show([Stamped(d) EXCEPT !.apps = (@ \ found) \cup patched],
                   200, patched))

-----------------------------------------------------------------------------
(* Policies. *)

OwnPolicies(d, tenant) == {p \in d.policies : p.tenant = tenant}

(* GetPolicy, getPolicyForUpdate *)
GetPolicy(d, tenant, id) == {p \in OwnPolicies(d, tenant) : p.id = id}

(* UNIQUE (app_id, name) *)
NameFree(d, app, name, self) ==
  ~ \E p \in d.policies : p.app = app /\ p.name = name /\ p.id # self

(* createPolicy, CreatePolicy: of the app's tenant. *)
CreatePolicy(d, r, tenant) ==
  LET found == GetApp(d, tenant, r.app)
      rows == {[id |-> Now(d), tenant |-> a.tenant, app |-> r.app,
                name |-> r.name, enabled |-> TRUE,
                updated |-> Now(d), version |-> 0, deployed |-> 0] : a \in found}
  IN
  IF BadBody(r, {"name", "mode", "snapshot"}) THEN Refuse(d, 400)
  ELSE IfFound(d, {tenant, r.app}, found,
         IF NameFree(d, r.app, r.name, 0)
           THEN Show([Stamped(d) EXCEPT !.policies = @ \cup rows], 201, rows)
           ELSE Refuse(d, 500))

(* Mutant: the expected updated_at is not compared. *)
AnyTime(p, r) == TRUE

(* current.UpdatedAt.Equal(req.ExpectedUpdatedAt) *)
Unmodified(p, r) == p.updated = r.expected

(* patchPolicy, validateUpdatePolicy, UpdatePolicy; name 0 and `enabled'   *)
(* "kept" are left out of the body.                                        *)
PatchPolicy(d, r, tenant) ==
  LET found == GetPolicy(d, tenant, r.policy)
      patched == {[p EXCEPT !.name = IF r.name = 0 THEN @ ELSE r.name,
                            !.enabled = IF r.enabled = "kept" THEN @
                                        ELSE r.enabled = "yes",
                            !.updated = Now(d)] : p \in found}
  IN
  IF BadBody(r, {"name", "mode", "snapshot"}) \/ r.expected = 0
    THEN Refuse(d, 400)
  ELSE IfFound(d, {tenant, r.policy}, found,
         IF \E p \in found : ~ Unmodified(p, r) THEN Refuse(d, 409)
         ELSE IF \A p \in patched : NameFree(d, p.app, p.name, p.id)
           THEN Show([Stamped(d) EXCEPT !.policies = (@ \ found) \cup patched],
                     200, patched)
           ELSE Refuse(d, 500))

(* publishPolicy, PublishPolicy: drafts have been validated when stored,   *)
(* and every app has its origin.                                           *)
PublishPolicy(d, r, tenant) ==
  LET found == GetPolicy(d, tenant, r.policy)
      published == {[p EXCEPT !.version = @ + 1, !.deployed = Now(d),
                              !.updated = Now(d)] : p \in found}
  IN
  IfFound(d, {tenant, r.policy}, found,
    Show([Stamped(d) EXCEPT !.policies = (@ \ found) \cup published],
         201, published))

(* ORDER BY deployed_at DESC LIMIT 1, of the enabled ones. *)
LastDeployed(policies) ==
  LET deployed == {p \in policies : p.deployed # 0 /\ p.enabled} IN
  {p \in deployed : \A q \in deployed : q.deployed <= p.deployed}

(* One row or 404. *)
ShowRow(d, ids, rows) == IfFound(d, ids, rows, Show(d, 200, rows))

(* All rows: an app of another tenant has an empty list. *)
ShowRows(d, ids, rows) ==
  IF Unreadable(ids) THEN Refuse(d, 500) ELSE Show(d, 200, rows)

-----------------------------------------------------------------------------
(* The gateway's route. *)

(* Mutant: hostnames are compared as they are spelled. *)
NamesAsSpelled(name, host) ==
  name = [host |-> host, upper |-> FALSE, port |-> FALSE, padded |-> FALSE]

(* lower(hostname) = lower($1): case is ignored, a port or spaces are not. *)
Names(name, host) == name.host = host /\ ~ name.port /\ ~ name.padded

(* GetGatewayPolicyByHostname *)
GatewayPolicies(d, host) ==
  LET apps == {a \in d.apps : a.status = "active"
                                /\ \E i \in DOMAIN a.hostnames :
                                     Names(a.hostnames[i], host)}
  IN  LastDeployed({p \in d.policies : \E a \in apps : p.app = a.id})

(* getGatewayPolicy: TrimSpace and ToLower; a port is no part of a name. *)
GetGatewayPolicy(d, r) ==
  IF r.hostname.host = 0 \/ r.hostname.port
    THEN Refuse(d, 400)
    ELSE ShowRow(d, {}, GatewayPolicies(d, r.hostname.host))

-----------------------------------------------------------------------------
(* Routes. *)

ServeTenant(d, r, tenant) ==
  CASE r.route = "listApps" ->
         ShowRows(d, {tenant}, {a \in d.apps : a.tenant = tenant})
    [] r.route = "createApp" -> CreateApp(d, r, tenant)
    [] r.route = "getApp" ->
         ShowRow(d, {tenant, r.app}, GetApp(d, tenant, r.app))
    [] r.route = "patchApp" -> PatchApp(d, r, tenant)
    [] r.route = "listPolicies" ->
         ShowRows(d, {tenant, r.app},
                  {p \in OwnPolicies(d, tenant) : p.app = r.app})
    [] r.route = "createPolicy" -> CreatePolicy(d, r, tenant)
    [] r.route = "getActivePolicy" ->
         ShowRow(d, {tenant, r.app},
                 LastDeployed({p \in OwnPolicies(d, tenant) : p.app = r.app}))
    [] r.route = "getPolicy" ->
         ShowRow(d, {tenant, r.policy}, GetPolicy(d, tenant, r.policy))
    [] r.route = "patchPolicy" -> PatchPolicy(d, r, tenant)
    [] r.route = "publishPolicy" -> PublishPolicy(d, r, tenant)

ServeGlobal(d, r) ==
  CASE r.route = "listTenants" -> ListTenants(d)
    [] r.route = "createTenant" -> CreateTenant(d, r)
    [] r.route = "listManagedRuleSets" -> ListManagedRuleSets(d)
    [] r.route = "listManagedRuleVersions" -> ListManagedRuleVersions(d, r)
    [] r.route = "activateManagedRuleVersion" -> ActivateManagedRuleVersion(d, r)

(* Server.Routes: who may call what. *)
Handle(d, r) ==
  CASE r.route \in TenantRoutes ->
         IF Refusal(r) # 0 THEN Refuse(d, Refusal(r))
         ELSE ServeTenant(d, r, TenantOf(r))
    [] r.route \in GlobalRoutes ->
         IF ~ Authorized(r.token, "admin") THEN Refuse(d, 401)
         ELSE ServeGlobal(d, r)
    [] r.route = "getGatewayPolicy" ->
         IF ~ Authorized(r.token, "gateway") THEN Refuse(d, 401)
         ELSE GetGatewayPolicy(d, r)

(* A request that a statement of fails, or that is refused, leaves the     *)
(* tables as they are: its transaction is rolled back.                     *)
Serve(r) ==
  /\ Handle(db, r).db.clock <= MaxClock
  /\ db' = Handle(db, r).db

Next == \E r \in Requests : Serve(r)

Spec == Init /\ [][Next]_db

-----------------------------------------------------------------------------
(* Properties. *)

(* The tables as they would be if there were no other tenant. *)
Alone(d, tenant) ==
  [d EXCEPT !.apps = {a \in @ : a.tenant = tenant},
            !.policies = OwnPolicies(d, tenant)]

Others(d, tenant) ==
  <<d.apps \ Alone(d, tenant).apps, d.policies \ Alone(d, tenant).policies>>

(* What a request about one tenant is told and what it does to that        *)
(* tenant's rows does not depend on the rows of any other: not on whether  *)
(* an id it asks for exists elsewhere, nor on slugs and names taken        *)
(* elsewhere.  And it leaves all other rows as they are (db.go: the tenant *)
(* predicates; 000001_init.up.sql:60, 126).                                *)
OtherTenantsDoNotMatter ==
  \A r \in Requests :
    r.route \in TenantRoutes =>
      LET tenant == TenantOf(r)
          here == Handle(db, r)
          there == Handle(Alone(db, tenant), r)
      IN  /\ here.status = there.status
          /\ here.shown = there.shown
          /\ Alone(here.db, tenant) = there.db
          /\ Others(here.db, tenant) = Others(db, tenant)

(* Tables but for the time of the last write to them and to their apps. *)
Timeless(d) == [d EXCEPT !.clock = 0,
                         !.apps = {[a EXCEPT !.updated = 0] : a \in @}]

(* A request whose answer was lost can be sent again at once: the second   *)
(* one finds the slug or the name taken, the row modified, or writes into  *)
(* the app what is there and moves nothing but its updated_at.  Only a     *)
(* publication is made twice (db.go:101, 138, 194, 275, 315;               *)
(* 000001_init.up.sql:6, 60, 126).  It says nothing of a retry after       *)
(* somebody else's write: a policy that was created and then renamed is    *)
(* created a second time.                                                  *)
RetryHasNoSecondEffect ==
  \A r \in Requests :
    r.route # "publishPolicy" =>
      LET once == Handle(db, r).db
      IN  Timeless(Handle(once, r).db) = Timeless(once)

(* Of a host that an active app names without port and spaces, in any      *)
(* case, the gateway gets the policy that was published last among all     *)
(* enabled ones of all apps that name it so, and of no other app           *)
(* (server.go:350, db.go:455).                                             *)
GatewayGetsLastPublished ==
  \A r \in Requests :
    (r.route = "getGatewayPolicy" /\ r.token = "gateway"
       /\ r.hostname.host # 0 /\ ~ r.hostname.port) =>
      LET naming == {a \in db.apps :
                       /\ a.status = "active"
                       /\ \E i \in DOMAIN a.hostnames :
                            /\ a.hostnames[i].host = r.hostname.host
                            /\ ~ a.hostnames[i].port
                            /\ ~ a.hostnames[i].padded}
          offered == {p \in db.policies :
                        /\ p.enabled /\ p.version > 0
                        /\ p.app \in {a.id : a \in naming}}
          got == Handle(db, r).shown
      IN  /\ got \subseteq offered
          /\ Cardinality(got) = (IF offered = {} THEN 0 ELSE 1)
          /\ \A p \in got, q \in offered : q.deployed <= p.deployed

-----------------------------------------------------------------------------
(* The inductive invariant. *)

Hostnames == [host : Nat, upper : BOOLEAN, port : BOOLEAN, padded : BOOLEAN]

RequestForms ==
  [route : Routes, token : Tokens, header : Raw(Nat), query : Raw(Nat),
   body : Raw(Nat), faults : SUBSET STRING, slug : Nat, name : Nat, app : Nat,
   policy : Nat, set : Nat, version : Nat, hostnames : Seq(Hostnames),
   status : {"kept", "active", "disabled"}, origin : BOOLEAN, expected : Nat,
   enabled : {"kept", "yes", "no"}, hostname : Hostnames]

AppRows == [id : Nat, tenant : Nat, slug : Nat, hostnames : Seq(Hostnames),
            status : {"active", "disabled"}, updated : Nat]

PolicyRows == [id : Nat, tenant : Nat, app : Nat, name : Nat,
               enabled : BOOLEAN, updated : Nat, version : Nat,
               deployed : Nat]

Tables == [clock : Nat, tenants : SUBSET [id : Nat, slug : Nat],
           apps : SUBSET AppRows, policies : SUBSET PolicyRows,
           managed : SUBSET (Nat \X Nat)]

(* Primary and foreign keys: an id names one row, and a policy is of its   *)
(* app's tenant.                                                           *)
KeysHold(d) ==
  /\ \A a, b \in d.apps : a.id = b.id => a = b
  /\ \A p, q \in d.policies : p.id = q.id => p = q
  /\ \A p \in d.policies :
       \E a \in d.apps : a.id = p.app /\ a.tenant = p.tenant

(* Ids and times are of the past; a policy that has a version has been     *)
(* deployed, no two of them at one time.                                   *)
StampsHold(d) ==
  /\ \A a \in d.apps : a.id <= d.clock
  /\ \A p \in d.policies :
       /\ p.id <= d.clock /\ p.updated <= d.clock /\ p.deployed <= d.clock
       /\ p.version = 0 <=> p.deployed = 0
  /\ \A p, q \in d.policies :
       p.deployed # 0 /\ p.deployed = q.deployed => p = q

(* What a request looks like; the tables to begin with are consistent. *)
ASSUME ControlAPIForms ==
  /\ Requests \subseteq RequestForms
  /\ Seed \in Tables /\ KeysHold(Seed) /\ StampsHold(Seed)

(* Inductive; implies all three properties. *)
ControlAPIInv == db \in Tables /\ KeysHold(db) /\ StampsHold(db)

=============================================================================
