-------------------------- MODULE ControlAPIProofs --------------------------
(***************************************************************************)
(* Proofs about ControlAPI for any requests and any consistent tables:     *)
(* keys and time stamps stay consistent, no tenant's rows matter to        *)
(* another, a request sent twice in a row has no second effect, and the    *)
(* gateway gets the policy that was published last.                        *)
(***************************************************************************)
EXTENDS ControlAPI, FiniteSetTheorems, WellFoundedInduction, TLAPS

-----------------------------------------------------------------------------
(* Tables. *)

Good(d) == d \in Tables /\ KeysHold(d) /\ StampsHold(d)

WithTenants(d, T) == [Stamped(d) EXCEPT !.tenants = T]
WithApps(d, A) == [Stamped(d) EXCEPT !.apps = A]
WithPolicies(d, P) == [Stamped(d) EXCEPT !.policies = P]

LEMMA TableFields ==
  ASSUME NEW d \in Tables
  PROVE  /\ d.clock \in Nat /\ Now(d) = d.clock + 1 /\ Now(d) \in Nat
         /\ d.tenants \subseteq [id : Nat, slug : Nat]
         /\ d.apps \subseteq AppRows /\ d.policies \subseteq PolicyRows
         /\ Stamped(d) \in Tables /\ Stamped(d).clock = Now(d)
         /\ Stamped(d).tenants = d.tenants /\ Stamped(d).apps = d.apps
         /\ Stamped(d).policies = d.policies
         /\ Stamped(d).managed = d.managed
BY DEF Tables, Stamped, Now

LEMMA TenantsWritten ==
  ASSUME NEW d \in Tables, NEW T \in SUBSET [id : Nat, slug : Nat]
  PROVE  LET w == WithTenants(d, T) IN
         /\ w \in Tables /\ w.clock = Now(d) /\ w.tenants = T
         /\ w.apps = d.apps /\ w.policies = d.policies
         /\ w.managed = d.managed
BY TableFields DEF Tables, WithTenants

LEMMA AppsWritten ==
  ASSUME NEW d \in Tables, NEW A \in SUBSET AppRows
  PROVE  LET w == WithApps(d, A) IN
         /\ w \in Tables /\ w.clock = Now(d) /\ w.apps = A
         /\ w.tenants = d.tenants /\ w.policies = d.policies
         /\ w.managed = d.managed
BY TableFields DEF Tables, WithApps

LEMMA PoliciesWritten ==
  ASSUME NEW d \in Tables, NEW P \in SUBSET PolicyRows
  PROVE  LET w == WithPolicies(d, P) IN
         /\ w \in Tables /\ w.clock = Now(d) /\ w.policies = P
         /\ w.tenants = d.tenants /\ w.apps = d.apps
         /\ w.managed = d.managed
BY TableFields DEF Tables, WithPolicies

(* Tables with the same columns are the same. *)
LEMMA SameTables ==
  ASSUME NEW d \in Tables, NEW e \in Tables,
         d.clock = e.clock, d.tenants = e.tenants, d.apps = e.apps,
         d.policies = e.policies, d.managed = e.managed
  PROVE  d = e
BY DEF Tables

LEMMA RowFields ==
  /\ \A a \in AppRows : a.id \in Nat /\ a.tenant \in Nat /\ a.slug \in Nat
  /\ \A p \in PolicyRows :
       /\ p.id \in Nat /\ p.tenant \in Nat /\ p.app \in Nat /\ p.name \in Nat
       /\ p.enabled \in BOOLEAN /\ p.updated \in Nat /\ p.version \in Nat
       /\ p.deployed \in Nat
BY DEF AppRows, PolicyRows

-----------------------------------------------------------------------------
(* What a write has to respect. *)

LEMMA GoodTenants ==
  ASSUME NEW d, Good(d), NEW T \in SUBSET [id : Nat, slug : Nat]
  PROVE  Good(WithTenants(d, T))
<1> DEFINE w == WithTenants(d, T)
<1>1. /\ d \in Tables /\ w \in Tables /\ w.clock = d.clock + 1
      /\ d.clock \in Nat
      /\ w.apps = d.apps /\ w.policies = d.policies
  BY TenantsWritten, TableFields DEF Good
<1> HIDE DEF w
<1>2. KeysHold(w)
  BY <1>1 DEF Good, KeysHold
<1>3. d.apps \subseteq AppRows /\ d.policies \subseteq PolicyRows
  BY <1>1, TableFields
<1>4. StampsHold(w)
  BY <1>1, <1>3, RowFields DEF Good, StampsHold
<1> QED
  BY <1>1, <1>2, <1>4 DEF Good, w

LEMMA GoodApps ==
  ASSUME NEW d, Good(d), NEW A \in SUBSET AppRows,
         \A a, b \in A : a.id = b.id => a = b,
         \A a \in A : a.id <= Now(d),
         \A a \in d.apps : \E b \in A : b.id = a.id /\ b.tenant = a.tenant
  PROVE  Good(WithApps(d, A))
<1> DEFINE w == WithApps(d, A)
<1>1. /\ d \in Tables /\ w \in Tables /\ w.clock = d.clock + 1
      /\ d.clock \in Nat /\ Now(d) = d.clock + 1
      /\ w.apps = A /\ w.policies = d.policies
  BY AppsWritten, TableFields DEF Good
<1> HIDE DEF w
<1>2. \A p \in d.policies : \E b \in A : b.id = p.app /\ b.tenant = p.tenant
  <2>1. \A p \in d.policies :
          \E a \in d.apps : a.id = p.app /\ a.tenant = p.tenant
    BY DEF Good, KeysHold
  <2> QED
    BY <2>1
<1>3. \A p, q \in d.policies : p.id = q.id => p = q
  BY DEF Good, KeysHold
<1>4. KeysHold(w)
  BY <1>1, <1>2, <1>3 DEF KeysHold
<1>5. d.policies \subseteq PolicyRows
  BY <1>1, TableFields
<1>6. StampsHold(w)
  BY <1>1, <1>5, RowFields DEF Good, StampsHold
<1> QED
  BY <1>1, <1>4, <1>6 DEF Good, w

LEMMA GoodPolicies ==
  ASSUME NEW d, Good(d), NEW P \in SUBSET PolicyRows,
         \A p, q \in P : p.id = q.id => p = q,
         \A p \in P : \E a \in d.apps : a.id = p.app /\ a.tenant = p.tenant,
         \A p \in P : /\ p.id <= Now(d) /\ p.updated <= Now(d)
                      /\ p.deployed <= Now(d)
                      /\ p.version = 0 <=> p.deployed = 0,
         \A p, q \in P : p.deployed # 0 /\ p.deployed = q.deployed => p = q
  PROVE  Good(WithPolicies(d, P))
<1> DEFINE w == WithPolicies(d, P)
<1>1. /\ d \in Tables /\ w \in Tables /\ w.clock = d.clock + 1
      /\ d.clock \in Nat /\ Now(d) = d.clock + 1
      /\ w.policies = P /\ w.apps = d.apps
  BY PoliciesWritten, TableFields DEF Good
<1> HIDE DEF w
<1>2. \A a, b \in d.apps : a.id = b.id => a = b
  BY DEF Good, KeysHold
<1>3. KeysHold(w)
  BY <1>1, <1>2 DEF KeysHold
<1>4. d.apps \subseteq AppRows
  BY <1>1, TableFields
<1>5. \A a \in d.apps : a.id <= d.clock + 1
  BY <1>1, <1>4, RowFields DEF Good, StampsHold
<1>6. StampsHold(w)
  BY <1>1, <1>5 DEF StampsHold
<1> QED
  BY <1>1, <1>3, <1>6 DEF Good, w

(* A row that is looked up by its id is the only one. *)
LEMMA OneApp ==
  ASSUME NEW d, Good(d), NEW t, NEW id, NEW a \in GetApp(d, t, id)
  PROVE  /\ GetApp(d, t, id) = {a}
         /\ a \in d.apps /\ a \in AppRows /\ a.id = id /\ a.tenant = t
<1>1. a \in d.apps /\ a.id = id /\ a.tenant = t
  BY DEF GetApp
<1>2. a \in AppRows
  BY <1>1, TableFields DEF Good
<1> QED
  BY <1>1, <1>2 DEF GetApp, Good, KeysHold

LEMMA OnePolicy ==
  ASSUME NEW d, Good(d), NEW t, NEW id, NEW p \in GetPolicy(d, t, id)
  PROVE  /\ GetPolicy(d, t, id) = {p}
         /\ p \in d.policies /\ p \in PolicyRows /\ p.id = id /\ p.tenant = t
<1>1. p \in d.policies /\ p.id = id /\ p.tenant = t
  BY DEF GetPolicy, OwnPolicies
<1>2. p \in PolicyRows
  BY <1>1, TableFields DEF Good
<1> QED
  BY <1>1, <1>2 DEF GetPolicy, OwnPolicies, Good, KeysHold

-----------------------------------------------------------------------------
(* What the handlers write, or nothing. *)

TenantRow(d, r) == [id |-> Now(d), slug |-> r.slug]

AppRow(d, r, t) == [id |-> Now(d), tenant |-> t, slug |-> r.slug,
                    hostnames |-> r.hostnames, status |-> "active",
                    updated |-> Now(d)]

PatchedApp(a, d, r) ==
  [a EXCEPT !.hostnames = IF r.hostnames = <<>> THEN @ ELSE r.hostnames,
            !.status = IF r.status = "kept" THEN @ ELSE r.status,
            !.updated = Now(d)]

PolicyRow(d, r, t) == [id |-> Now(d), tenant |-> t, app |-> r.app,
                       name |-> r.name, enabled |-> TRUE, updated |-> Now(d),
                       version |-> 0, deployed |-> 0]

PatchedPolicy(p, d, r) ==
  [p EXCEPT !.name = IF r.name = 0 THEN @ ELSE r.name,
            !.enabled = IF r.enabled = "kept" THEN @ ELSE r.enabled = "yes",
            !.updated = Now(d)]

PublishedPolicy(p, d) ==
  [p EXCEPT !.version = @ + 1, !.deployed = Now(d), !.updated = Now(d)]

LEMMA RequestFields ==
  ASSUME NEW r \in RequestForms
  PROVE  /\ r.route \in Routes /\ r.slug \in Nat /\ r.name \in Nat
         /\ r.app \in Nat /\ r.policy \in Nat
         /\ r.hostnames \in Seq(Hostnames)
         /\ r.status \in {"kept", "active", "disabled"}
         /\ r.expected \in Nat
         /\ TenantOf(r) \in Nat
BY DEF RequestForms, TenantOf, TrimSpace, Raw

LEMMA CreateTenantEffect ==
  ASSUME NEW d, Good(d), NEW r \in RequestForms
  PROVE  \/ CreateTenant(d, r).db = d
         \/ /\ ~ \E t \in d.tenants : t.slug = r.slug
            /\ CreateTenant(d, r).db =
                 WithTenants(d, d.tenants \cup {TenantRow(d, r)})
<1>1. Stamped(d).tenants = d.tenants
  BY TableFields DEF Good
<1> QED
  BY <1>1 DEF Refuse, Show, CreateTenant, WithTenants, TenantRow

LEMMA CreateAppEffect ==
  ASSUME NEW d, Good(d), NEW r \in RequestForms, NEW t \in Nat
  PROVE  \/ CreateApp(d, r, t).db = d
         \/ /\ SlugFree(d, t, r.slug)
            /\ CreateApp(d, r, t).db =
                 WithApps(d, d.apps \cup {AppRow(d, r, t)})
<1>1. Stamped(d).apps = d.apps
  BY TableFields DEF Good
<1> QED
  BY <1>1 DEF Refuse, Show, CreateApp, WithApps, AppRow

LEMMA PatchAppEffect ==
  ASSUME NEW d, Good(d), NEW r \in RequestForms, NEW t \in Nat
  PROVE  \/ PatchApp(d, r, t).db = d
         \/ \E a \in GetApp(d, t, r.app) :
              /\ ValidatePatchApp(r) /\ ~ Unreadable({t, r.app}) /\ ~ r.origin
              /\ PatchApp(d, r, t).db =
                   WithApps(d, (d.apps \ {a}) \cup {PatchedApp(a, d, r)})
<1>1. Stamped(d).apps = d.apps
  BY TableFields DEF Good
<1>2. CASE GetApp(d, t, r.app) = {}
  BY <1>2 DEF Refuse, Show, PatchApp, IfFound, NotFound
<1>3. ASSUME NEW a \in GetApp(d, t, r.app)
      PROVE  \/ PatchApp(d, r, t).db = d
             \/ /\ ValidatePatchApp(r) /\ ~ Unreadable({t, r.app})
                /\ ~ r.origin
                /\ PatchApp(d, r, t).db =
                     WithApps(d, (d.apps \ {a}) \cup {PatchedApp(a, d, r)})
  <2>1. GetApp(d, t, r.app) = {a}
    BY OneApp
  <2>2. {PatchedApp(x, d, r) : x \in GetApp(d, t, r.app)} = {PatchedApp(a, d, r)}
    BY <2>1
  <2> QED
    BY <1>1, <2>1, <2>2
    DEF Refuse, Show, PatchApp, IfFound, NotFound, WithApps, PatchedApp
<1> QED
  BY <1>2, <1>3

LEMMA CreatePolicyEffect ==
  ASSUME NEW d, Good(d), NEW r \in RequestForms, NEW t \in Nat
  PROVE  \/ CreatePolicy(d, r, t).db = d
         \/ \E a \in GetApp(d, t, r.app) :
              /\ NameFree(d, r.app, r.name, 0)
              /\ CreatePolicy(d, r, t).db =
                   WithPolicies(d, d.policies \cup {PolicyRow(d, r, t)})
<1>1. Stamped(d).policies = d.policies
  BY TableFields DEF Good
<1>2. CASE GetApp(d, t, r.app) = {}
  BY <1>2 DEF Refuse, Show, CreatePolicy, IfFound, NotFound
<1>3. ASSUME NEW a \in GetApp(d, t, r.app)
      PROVE  \/ CreatePolicy(d, r, t).db = d
             \/ /\ NameFree(d, r.app, r.name, 0)
                /\ CreatePolicy(d, r, t).db =
                     WithPolicies(d, d.policies \cup {PolicyRow(d, r, t)})
  <2>1. GetApp(d, t, r.app) = {a} /\ a.tenant = t
    BY OneApp
  <2>2. {[id |-> Now(d), tenant |-> x.tenant, app |-> r.app,
          name |-> r.name, enabled |-> TRUE, updated |-> Now(d),
          version |-> 0, deployed |-> 0] : x \in GetApp(d, t, r.app)}
          = {PolicyRow(d, r, t)}
    BY <2>1 DEF PolicyRow
  <2> QED
    BY <1>1, <2>2
    DEF Refuse, Show, CreatePolicy, IfFound, NotFound, WithPolicies
<1> QED
  BY <1>2, <1>3

LEMMA PatchPolicyEffect ==
  ASSUME NEW d, Good(d), NEW r \in RequestForms, NEW t \in Nat
  PROVE  \/ PatchPolicy(d, r, t).db = d
         \/ \E p \in GetPolicy(d, t, r.policy) :
              /\ p.updated = r.expected
              /\ PatchPolicy(d, r, t).db =
                   WithPolicies(d, (d.policies \ {p})
                                     \cup {PatchedPolicy(p, d, r)})
<1>1. Stamped(d).policies = d.policies
  BY TableFields DEF Good
<1>2. CASE GetPolicy(d, t, r.policy) = {}
  BY <1>2 DEF Refuse, Show, PatchPolicy, IfFound, NotFound
<1>3. ASSUME NEW p \in GetPolicy(d, t, r.policy)
      PROVE  \/ PatchPolicy(d, r, t).db = d
             \/ /\ p.updated = r.expected
                /\ PatchPolicy(d, r, t).db =
                     WithPolicies(d, (d.policies \ {p})
                                       \cup {PatchedPolicy(p, d, r)})
  <2>1. GetPolicy(d, t, r.policy) = {p}
    BY OnePolicy
  <2>2. {PatchedPolicy(x, d, r) : x \in GetPolicy(d, t, r.policy)}
          = {PatchedPolicy(p, d, r)}
    BY <2>1
  <2> QED
    BY <1>1, <2>1, <2>2
    DEF Refuse, Show, PatchPolicy, IfFound, NotFound, WithPolicies, PatchedPolicy, Unmodified
<1> QED
  BY <1>2, <1>3

LEMMA PublishPolicyEffect ==
  ASSUME NEW d, Good(d), NEW r \in RequestForms, NEW t \in Nat
  PROVE  \/ PublishPolicy(d, r, t).db = d
         \/ \E p \in GetPolicy(d, t, r.policy) :
              PublishPolicy(d, r, t).db =
                WithPolicies(d, (d.policies \ {p})
                                  \cup {PublishedPolicy(p, d)})
<1>1. Stamped(d).policies = d.policies
  BY TableFields DEF Good
<1>2. CASE GetPolicy(d, t, r.policy) = {}
  BY <1>2 DEF Refuse, Show, PublishPolicy, IfFound, NotFound
<1>3. ASSUME NEW p \in GetPolicy(d, t, r.policy)
      PROVE  \/ PublishPolicy(d, r, t).db = d
             \/ PublishPolicy(d, r, t).db =
                  WithPolicies(d, (d.policies \ {p})
                                    \cup {PublishedPolicy(p, d)})
  <2>1. GetPolicy(d, t, r.policy) = {p}
    BY OnePolicy
  <2>2. {PublishedPolicy(x, d) : x \in GetPolicy(d, t, r.policy)}
          = {PublishedPolicy(p, d)}
    BY <2>1
  <2> QED
    BY <1>1, <2>1, <2>2
    DEF Refuse, Show, PublishPolicy, IfFound, NotFound, WithPolicies, PublishedPolicy
<1> QED
  BY <1>2, <1>3

(* Server.Routes, for each group of routes. *)
LEMMA TenantRouteServed ==
  ASSUME NEW d, NEW r, r.route \in TenantRoutes
  PROVE  Handle(d, r) = IF Refusal(r) # 0 THEN Refuse(d, Refusal(r))
                        ELSE ServeTenant(d, r, TenantOf(r))
<1>1. r.route \notin GlobalRoutes /\ r.route # "getGatewayPolicy"
  BY DEF TenantRoutes, GlobalRoutes
<1> QED
  BY <1>1 DEF Handle

LEMMA GlobalRouteServed ==
  ASSUME NEW d, NEW r, r.route \in GlobalRoutes
  PROVE  Handle(d, r) = IF ~ Authorized(r.token, "admin") THEN Refuse(d, 401)
                        ELSE ServeGlobal(d, r)
<1>1. r.route \notin TenantRoutes /\ r.route # "getGatewayPolicy"
  BY DEF TenantRoutes, GlobalRoutes
<1> QED
  BY <1>1 DEF Handle

LEMMA GatewayRouteServed ==
  ASSUME NEW d, NEW r, r.route = "getGatewayPolicy"
  PROVE  Handle(d, r) = IF ~ Authorized(r.token, "gateway")
                          THEN Refuse(d, 401) ELSE GetGatewayPolicy(d, r)
<1>1. r.route \notin TenantRoutes /\ r.route \notin GlobalRoutes
  BY DEF TenantRoutes, GlobalRoutes
<1> QED
  BY <1>1 DEF Handle

(* The routes that write; all others only read. *)
Writers == {"createTenant", "createApp", "patchApp", "createPolicy",
            "patchPolicy", "publishPolicy"}

LEMMA ReadersWriteNothing ==
  ASSUME NEW d, NEW r \in RequestForms, r.route \notin Writers
  PROVE  Handle(d, r).db = d
<1> DEFINE t == TenantOf(r)
<1>1. r.route \in Routes
  BY RequestFields
<1>2. \A ids, rows : /\ ShowRow(d, ids, rows).db = d
                     /\ ShowRows(d, ids, rows).db = d
  BY DEF ShowRow, ShowRows, IfFound, NotFound, Refuse, Show
<1>3. CASE r.route \in TenantRoutes
  <2>1. ServeTenant(d, r, t).db = d
    BY <1>2, <1>3 DEF ServeTenant, TenantRoutes, Writers
  <2> QED
    BY <1>3, <2>1, TenantRouteServed DEF Refuse
<1>4. CASE r.route \in GlobalRoutes
  <2>1. /\ ListTenants(d).db = d /\ ListManagedRuleSets(d).db = d
        /\ ListManagedRuleVersions(d, r).db = d
        /\ ActivateManagedRuleVersion(d, r).db = d
    BY DEF ListTenants, ListManagedRuleSets, ListManagedRuleVersions,
           ActivateManagedRuleVersion, IfFound, NotFound, Refuse, Show
  <2>2. ServeGlobal(d, r).db = d
    BY <1>4, <2>1 DEF ServeGlobal, GlobalRoutes, Writers
  <2> QED
    BY <1>4, <2>2, GlobalRouteServed DEF Refuse
<1>5. CASE r.route = "getGatewayPolicy"
  BY <1>2, <1>5, GatewayRouteServed DEF GetGatewayPolicy, Refuse
<1> QED
  BY <1>1, <1>3, <1>4, <1>5 DEF Routes

(* What a route that writes calls, unless it refuses. *)
Calls(r, e) ==
  LET t == TenantOf(r) IN
  \/ r.route = "createTenant" /\ Handle(e, r) = CreateTenant(e, r)
  \/ r.route = "createApp" /\ Handle(e, r) = CreateApp(e, r, t)
  \/ r.route = "patchApp" /\ Handle(e, r) = PatchApp(e, r, t)
  \/ r.route = "createPolicy" /\ Handle(e, r) = CreatePolicy(e, r, t)
  \/ r.route = "patchPolicy" /\ Handle(e, r) = PatchPolicy(e, r, t)
  \/ r.route = "publishPolicy" /\ Handle(e, r) = PublishPolicy(e, r, t)

Refuses(r, e) == Handle(e, r).db = e

LEMMA WritersCall ==
  ASSUME NEW r \in RequestForms, r.route \in Writers
  PROVE  (\A e : Refuses(r, e)) \/ (\A e : Calls(r, e))
<1>1. CASE r.route = "createTenant"
  <2>1. r.route \in GlobalRoutes
    BY <1>1 DEF GlobalRoutes
  <2>2. \A e : ServeGlobal(e, r) = CreateTenant(e, r)
    BY <1>1 DEF ServeGlobal
  <2>3. CASE Authorized(r.token, "admin")
    BY <1>1, <2>1, <2>2, <2>3, GlobalRouteServed DEF Calls
  <2>4. CASE ~ Authorized(r.token, "admin")
    BY <2>1, <2>4, GlobalRouteServed DEF Refuses, Refuse
  <2> QED
    BY <2>3, <2>4
<1>2. CASE r.route # "createTenant"
  <2>1. r.route \in TenantRoutes
    BY <1>2 DEF TenantRoutes, Writers
  <2>2. CASE Refusal(r) # 0
    BY <2>1, <2>2, TenantRouteServed DEF Refuses, Refuse
  <2>3. CASE Refusal(r) = 0
    <3> SUFFICES ASSUME NEW e PROVE Calls(r, e)
      OBVIOUS
    <3>1. Handle(e, r) = ServeTenant(e, r, TenantOf(r))
      BY <2>1, <2>3, TenantRouteServed
    <3> QED
      BY <1>2, <3>1 DEF ServeTenant, Writers, Calls
  <2> QED
    BY <2>2, <2>3
<1> QED
  BY <1>1, <1>2

-----------------------------------------------------------------------------
(* What the rows written look like. *)

LEMMA AppRowForm ==
  ASSUME NEW d \in Tables, NEW r \in RequestForms, NEW t \in Nat
  PROVE  /\ AppRow(d, r, t) \in AppRows /\ AppRow(d, r, t).id = Now(d)
         /\ AppRow(d, r, t).tenant = t /\ AppRow(d, r, t).slug = r.slug
<1>1. Now(d) \in Nat
  BY TableFields
<1>2. r.slug \in Nat /\ r.hostnames \in Seq(Hostnames)
  BY RequestFields
<1> QED
  BY <1>1, <1>2 DEF AppRow, AppRows

LEMMA PatchedAppForm ==
  ASSUME NEW a \in AppRows, NEW d \in Tables, NEW r \in RequestForms
  PROVE  /\ PatchedApp(a, d, r) \in AppRows /\ PatchedApp(a, d, r).id = a.id
         /\ PatchedApp(a, d, r).tenant = a.tenant
         /\ PatchedApp(a, d, r).slug = a.slug
BY TableFields, RequestFields DEF PatchedApp, AppRows

(* Patched twice is patched once, at another time. *)
LEMMA PatchedTwice ==
  ASSUME NEW a \in AppRows, NEW d \in Tables, NEW e \in Tables,
         NEW r \in RequestForms
  PROVE  [PatchedApp(PatchedApp(a, d, r), e, r) EXCEPT !.updated = 0]
           = [PatchedApp(a, d, r) EXCEPT !.updated = 0]
BY TableFields, RequestFields DEF PatchedApp, AppRows

LEMMA PolicyRowForm ==
  ASSUME NEW d \in Tables, NEW r \in RequestForms, NEW t \in Nat
  PROVE  LET n == PolicyRow(d, r, t) IN
         /\ n \in PolicyRows /\ n.id = Now(d) /\ n.tenant = t
         /\ n.app = r.app /\ n.name = r.name /\ n.updated = Now(d)
         /\ n.version = 0 /\ n.deployed = 0
BY TableFields, RequestFields DEF PolicyRow, PolicyRows

LEMMA PatchedPolicyForm ==
  ASSUME NEW p \in PolicyRows, NEW d \in Tables, NEW r \in RequestForms
  PROVE  LET n == PatchedPolicy(p, d, r) IN
         /\ n \in PolicyRows /\ n.id = p.id /\ n.tenant = p.tenant
         /\ n.app = p.app /\ n.updated = Now(d)
         /\ n.version = p.version /\ n.deployed = p.deployed
BY TableFields, RequestFields DEF PatchedPolicy, PolicyRows

LEMMA PublishedPolicyForm ==
  ASSUME NEW p \in PolicyRows, NEW d \in Tables
  PROVE  LET n == PublishedPolicy(p, d) IN
         /\ n \in PolicyRows /\ n.id = p.id /\ n.tenant = p.tenant
         /\ n.app = p.app /\ n.updated = Now(d)
         /\ n.version = p.version + 1 /\ n.deployed = Now(d)
<1>1. Now(d) \in Nat
  BY TableFields
<1>2. p.version + 1 \in Nat
  BY RowFields
<1> QED
  BY <1>1, <1>2 DEF PublishedPolicy, PolicyRows

(* Facts of consistent tables, ready to be used. *)
LEMMA GoodRows ==
  ASSUME NEW d, Good(d)
  PROVE  /\ d \in Tables /\ d.clock \in Nat /\ Now(d) = d.clock + 1
         /\ \A a \in d.apps : a \in AppRows /\ a.id \in Nat /\ a.id <= d.clock
         /\ \A p \in d.policies :
              /\ p \in PolicyRows /\ p.id \in Nat /\ p.id <= d.clock
              /\ p.updated \in Nat /\ p.updated <= d.clock
              /\ p.deployed \in Nat /\ p.deployed <= d.clock
              /\ p.version \in Nat /\ (p.version = 0 <=> p.deployed = 0)
              /\ \E a \in d.apps : a.id = p.app /\ a.tenant = p.tenant
         /\ \A a, b \in d.apps : a.id = b.id => a = b
         /\ \A p, q \in d.policies : p.id = q.id => p = q
         /\ \A p, q \in d.policies :
              p.deployed # 0 /\ p.deployed = q.deployed => p = q
<1>1. /\ d \in Tables /\ d.clock \in Nat /\ Now(d) = d.clock + 1
      /\ d.apps \subseteq AppRows /\ d.policies \subseteq PolicyRows
  BY TableFields DEF Good
<1>2. \A a \in d.apps : a \in AppRows /\ a.id \in Nat /\ a.id <= d.clock
  BY <1>1, RowFields DEF Good, StampsHold
<1>3. \A p \in d.policies :
        /\ p \in PolicyRows /\ p.id \in Nat /\ p.id <= d.clock
        /\ p.updated \in Nat /\ p.updated <= d.clock
        /\ p.deployed \in Nat /\ p.deployed <= d.clock
        /\ p.version \in Nat /\ (p.version = 0 <=> p.deployed = 0)
  BY <1>1, RowFields DEF Good, StampsHold
<1>4. /\ \A p \in d.policies :
           \E a \in d.apps : a.id = p.app /\ a.tenant = p.tenant
      /\ \A a, b \in d.apps : a.id = b.id => a = b
      /\ \A p, q \in d.policies : p.id = q.id => p = q
  BY DEF Good, KeysHold
<1>5. \A p, q \in d.policies :
        p.deployed # 0 /\ p.deployed = q.deployed => p = q
  BY DEF Good, StampsHold
<1> QED
  BY <1>1, <1>2, <1>3, <1>4, <1>5

-----------------------------------------------------------------------------
(* Keys and stamps stay consistent. *)

LEMMA CreateTenantKeeps ==
  ASSUME NEW d, Good(d), NEW r \in RequestForms
  PROVE  Good(CreateTenant(d, r).db)
<1> DEFINE T == d.tenants \cup {TenantRow(d, r)}
<1>1. Now(d) \in Nat /\ d.tenants \subseteq [id : Nat, slug : Nat]
  BY TableFields DEF Good
<1>2. r.slug \in Nat
  BY RequestFields
<1>3. T \in SUBSET [id : Nat, slug : Nat]
  BY <1>1, <1>2 DEF TenantRow
<1>4. CreateTenant(d, r).db \in {d, WithTenants(d, T)}
  BY CreateTenantEffect
<1> HIDE DEF T
<1>5. Good(WithTenants(d, T))
  BY <1>3, GoodTenants
<1> QED
  BY <1>4, <1>5

LEMMA CreateAppKeeps ==
  ASSUME NEW d, Good(d), NEW r \in RequestForms, NEW t \in Nat
  PROVE  Good(CreateApp(d, r, t).db)
<1> DEFINE n == AppRow(d, r, t)
           A == d.apps \cup {n}
<1>1. n \in AppRows /\ n.id = Now(d)
  BY AppRowForm DEF Good
<1> HIDE DEF n
<1>2. A \in SUBSET AppRows
  BY <1>1, GoodRows
<1>3. \A a \in d.apps : a.id # n.id
  BY <1>1, GoodRows
<1>4. \A a, b \in A : a.id = b.id => a = b
  BY <1>3, GoodRows
<1>5. \A a \in A : a.id <= Now(d)
  BY <1>1, GoodRows
<1>6. \A a \in d.apps : \E b \in A : b.id = a.id /\ b.tenant = a.tenant
  OBVIOUS
<1> HIDE DEF A
<1>7. Good(WithApps(d, A))
  BY <1>2, <1>4, <1>5, <1>6, GoodApps
<1> QED
  BY <1>7, CreateAppEffect DEF A, n

(* The app that takes the place of another has its id and its tenant. *)
LEMMA AppReplaced ==
  ASSUME NEW d, Good(d), NEW a \in d.apps, NEW n \in AppRows,
         n.id = a.id, n.tenant = a.tenant
  PROVE  Good(WithApps(d, (d.apps \ {a}) \cup {n}))
<1> DEFINE A == (d.apps \ {a}) \cup {n}
<1>1. A \in SUBSET AppRows
  BY GoodRows
<1>2. \A b \in d.apps \ {a} : b.id # n.id
  BY GoodRows
<1>3. \A b, c \in A : b.id = c.id => b = c
  BY <1>2, GoodRows
<1>4. \A b \in A : b.id <= Now(d)
  BY GoodRows
<1>5. \A b \in d.apps : \E c \in A : c.id = b.id /\ c.tenant = b.tenant
  <2> SUFFICES ASSUME NEW b \in d.apps
               PROVE  \E c \in A : c.id = b.id /\ c.tenant = b.tenant
    OBVIOUS
  <2>1. CASE b = a
    BY <2>1
  <2>2. CASE b # a
    BY <2>2
  <2> QED
    BY <2>1, <2>2
<1> HIDE DEF A
<1>6. Good(WithApps(d, A))
  BY <1>1, <1>3, <1>4, <1>5, GoodApps
<1> QED
  BY <1>6 DEF A

LEMMA PatchAppKeeps ==
  ASSUME NEW d, Good(d), NEW r \in RequestForms, NEW t \in Nat
  PROVE  Good(PatchApp(d, r, t).db)
<1> SUFFICES ASSUME PatchApp(d, r, t).db # d
             PROVE  Good(PatchApp(d, r, t).db)
  OBVIOUS
<1>1. PICK a \in GetApp(d, t, r.app) :
        PatchApp(d, r, t).db =
          WithApps(d, (d.apps \ {a}) \cup {PatchedApp(a, d, r)})
  BY PatchAppEffect
<1>2. a \in d.apps /\ a \in AppRows /\ d \in Tables
  BY OneApp DEF Good
<1> QED
  BY <1>1, <1>2, PatchedAppForm, AppReplaced

LEMMA CreatePolicyKeeps ==
  ASSUME NEW d, Good(d), NEW r \in RequestForms, NEW t \in Nat
  PROVE  Good(CreatePolicy(d, r, t).db)
<1> DEFINE n == PolicyRow(d, r, t)
           P == d.policies \cup {n}
<1> SUFFICES ASSUME NEW a \in GetApp(d, t, r.app)
             PROVE  Good(WithPolicies(d, P))
  BY CreatePolicyEffect
<1>1. /\ n \in PolicyRows /\ n.id = Now(d) /\ n.tenant = t
      /\ n.app = r.app /\ n.updated = Now(d)
      /\ n.version = 0 /\ n.deployed = 0
  BY PolicyRowForm DEF Good
<1>2. a \in d.apps /\ a.id = r.app /\ a.tenant = t
  BY OneApp
<1> HIDE DEF n
<1>3. P \in SUBSET PolicyRows
  BY <1>1, GoodRows
<1>4. \A p \in d.policies : p.id # n.id
  BY <1>1, GoodRows
<1>5. \A p, q \in P : p.id = q.id => p = q
  BY <1>4, GoodRows
<1>6. \A p \in P : \E b \in d.apps : b.id = p.app /\ b.tenant = p.tenant
  BY <1>1, <1>2, GoodRows
<1>7. \A p \in P : /\ p.id <= Now(d) /\ p.updated <= Now(d)
                   /\ p.deployed <= Now(d)
                   /\ p.version = 0 <=> p.deployed = 0
  BY <1>1, GoodRows
<1>8. \A p, q \in P : p.deployed # 0 /\ p.deployed = q.deployed => p = q
  BY <1>1, GoodRows
<1> HIDE DEF P
<1> QED
  BY <1>3, <1>5, <1>6, <1>7, <1>8, GoodPolicies

(* The policy that takes the place of another is the same one, deployed at *)
(* the same time or now.                                                   *)
LEMMA PolicyReplaced ==
  ASSUME NEW d, Good(d), NEW p \in d.policies, NEW n \in PolicyRows,
         n.id = p.id, n.tenant = p.tenant, n.app = p.app,
         n.updated = Now(d), n.version = 0 <=> n.deployed = 0,
         n.deployed \in {p.deployed, Now(d)}
  PROVE  Good(WithPolicies(d, (d.policies \ {p}) \cup {n}))
<1> DEFINE P == (d.policies \ {p}) \cup {n}
<1>1. P \in SUBSET PolicyRows
  BY GoodRows
<1>2. \A q \in d.policies \ {p} :
        q.id # n.id /\ (n.deployed # 0 => q.deployed # n.deployed)
  BY GoodRows
<1>3. \A q, s \in P : q.id = s.id => q = s
  BY <1>2, GoodRows
<1>4. \A q \in P : \E b \in d.apps : b.id = q.app /\ b.tenant = q.tenant
  BY GoodRows
<1>5. \A q \in P : /\ q.id <= Now(d) /\ q.updated <= Now(d)
                   /\ q.deployed <= Now(d)
                   /\ q.version = 0 <=> q.deployed = 0
  BY GoodRows
<1>6. \A q, s \in P : q.deployed # 0 /\ q.deployed = s.deployed => q = s
  BY <1>2, GoodRows
<1> HIDE DEF P
<1>7. Good(WithPolicies(d, P))
  BY <1>1, <1>3, <1>4, <1>5, <1>6, GoodPolicies
<1> QED
  BY <1>7 DEF P

LEMMA PatchPolicyKeeps ==
  ASSUME NEW d, Good(d), NEW r \in RequestForms, NEW t \in Nat
  PROVE  Good(PatchPolicy(d, r, t).db)
<1> SUFFICES ASSUME PatchPolicy(d, r, t).db # d
             PROVE  Good(PatchPolicy(d, r, t).db)
  OBVIOUS
<1>0. PICK p \in GetPolicy(d, t, r.policy) :
        PatchPolicy(d, r, t).db =
          WithPolicies(d, (d.policies \ {p})
                            \cup {PatchedPolicy(p, d, r)})
  BY PatchPolicyEffect
<1>1. p \in d.policies /\ p \in PolicyRows /\ d \in Tables
  BY OnePolicy DEF Good
<1>2. p.version = 0 <=> p.deployed = 0
  BY <1>1, GoodRows
<1> QED
  BY <1>0, <1>1, <1>2, PatchedPolicyForm, PolicyReplaced

LEMMA PublishPolicyKeeps ==
  ASSUME NEW d, Good(d), NEW r \in RequestForms, NEW t \in Nat
  PROVE  Good(PublishPolicy(d, r, t).db)
<1> SUFFICES ASSUME PublishPolicy(d, r, t).db # d
             PROVE  Good(PublishPolicy(d, r, t).db)
  OBVIOUS
<1>0. PICK p \in GetPolicy(d, t, r.policy) :
        PublishPolicy(d, r, t).db =
          WithPolicies(d, (d.policies \ {p})
                            \cup {PublishedPolicy(p, d)})
  BY PublishPolicyEffect
<1> DEFINE n == PublishedPolicy(p, d)
<1>1. p \in d.policies /\ p \in PolicyRows /\ d \in Tables
  BY OnePolicy DEF Good
<1>2. /\ n \in PolicyRows /\ n.id = p.id /\ n.tenant = p.tenant
      /\ n.app = p.app /\ n.updated = Now(d)
      /\ n.version = p.version + 1 /\ n.deployed = Now(d)
  BY <1>1, PublishedPolicyForm
<1> HIDE DEF n
<1>3. n.version # 0 /\ n.deployed # 0
  BY <1>1, <1>2, GoodRows
<1>4. Good(WithPolicies(d, (d.policies \ {p}) \cup {n}))
  BY <1>1, <1>2, <1>3, PolicyReplaced
<1> QED
  BY <1>0, <1>4 DEF n

LEMMA HandleKeeps ==
  ASSUME NEW d, Good(d), NEW r \in RequestForms
  PROVE  Good(Handle(d, r).db)
<1>1. CASE r.route \notin Writers
  BY <1>1, ReadersWriteNothing
<1>2. CASE r.route \in Writers
  <2>1. TenantOf(r) \in Nat
    BY RequestFields
  <2>2. CASE \A e : Refuses(r, e)
    BY <2>2 DEF Refuses
  <2>3. CASE \A e : Calls(r, e)
    BY <2>1, <2>3, CreateTenantKeeps, CreateAppKeeps, PatchAppKeeps,
       CreatePolicyKeeps, PatchPolicyKeeps, PublishPolicyKeeps DEF Calls
  <2> QED
    BY <1>2, <2>2, <2>3, WritersCall
<1> QED
  BY <1>1, <1>2

(* Whatever requests are served, in any order: every id names one row,     *)
(* every policy is of its app's tenant, stamps are of the past and no two  *)
(* policies were deployed at the same time (db.go; the keys of             *)
(* 000001_init.up.sql).                                                    *)
THEOREM ControlAPICorrect == Spec => []ControlAPIInv
<1>1. Init => ControlAPIInv
  BY ControlAPIForms DEF Init, ControlAPIInv
<1>2. ControlAPIInv /\ [Next]_db => ControlAPIInv'
  <2> SUFFICES ASSUME Good(db), NEW r \in Requests, Serve(r)
               PROVE  Good(db')
    BY DEF ControlAPIInv, Good, Next
  <2>1. r \in RequestForms
    BY ControlAPIForms
  <2>2. Good(Handle(db, r).db)
    BY <2>1, HandleKeeps
  <2> QED
    BY <2>2 DEF Serve
<1> QED
  BY <1>1, <1>2, PTL DEF Spec

-----------------------------------------------------------------------------
(* A request sent again. *)

NoSecond(d, r) ==
  LET once == Handle(d, r).db
  IN  Timeless(Handle(once, r).db) = Timeless(once)

LEMMA SameAgain ==
  ASSUME NEW d, Good(d), NEW r \in RequestForms,
         Handle(Handle(d, r).db, r).db = Handle(d, r).db
  PROVE  NoSecond(d, r)
BY DEF NoSecond

LEMMA CreateTenantAgain ==
  ASSUME NEW d, Good(d), NEW r \in RequestForms,
         NEW w, w = CreateTenant(d, r).db, w # d
  PROVE  CreateTenant(w, r).db = w
<1> DEFINE T == d.tenants \cup {TenantRow(d, r)}
<1>1. w = WithTenants(d, T)
  BY CreateTenantEffect
<1>2. /\ Now(d) \in Nat /\ d.tenants \subseteq [id : Nat, slug : Nat]
      /\ r.slug \in Nat /\ d \in Tables
  BY TableFields, RequestFields DEF Good
<1>3. T \in SUBSET [id : Nat, slug : Nat] /\ TenantRow(d, r).slug = r.slug
  BY <1>2 DEF TenantRow
<1>4. TenantRow(d, r) \in T
  OBVIOUS
<1> HIDE DEF T
<1>5. w.tenants = T
  BY <1>1, <1>2, <1>3, TenantsWritten
<1>6. Good(w)
  BY CreateTenantKeeps
<1> QED
  BY <1>3, <1>4, <1>5, <1>6, CreateTenantEffect

LEMMA CreateAppAgain ==
  ASSUME NEW d, Good(d), NEW r \in RequestForms, NEW t \in Nat,
         NEW w, w = CreateApp(d, r, t).db, w # d
  PROVE  CreateApp(w, r, t).db = w
<1> DEFINE n == AppRow(d, r, t)
           A == d.apps \cup {n}
<1>1. w = WithApps(d, A)
  BY CreateAppEffect
<1>2. n \in AppRows /\ n.tenant = t /\ n.slug = r.slug /\ d \in Tables
  BY AppRowForm DEF Good
<1> HIDE DEF n
<1>3. A \in SUBSET AppRows /\ n \in A
  BY <1>2, GoodRows
<1> HIDE DEF A
<1>4. w.apps = A
  BY <1>1, <1>2, <1>3, AppsWritten
<1>5. ~ SlugFree(w, t, r.slug)
  BY <1>2, <1>3, <1>4 DEF SlugFree
<1>6. Good(w)
  BY CreateAppKeeps
<1> QED
  BY <1>5, <1>6, CreateAppEffect

(* Tables whose columns are the same but for times are the same then. *)
LEMMA TimelessTables ==
  ASSUME NEW d \in Tables, NEW e \in Tables,
         d.tenants = e.tenants, d.policies = e.policies, d.managed = e.managed,
         {[a EXCEPT !.updated = 0] : a \in d.apps}
           = {[a EXCEPT !.updated = 0] : a \in e.apps}
  PROVE  Timeless(d) = Timeless(e)
BY DEF Timeless, Tables

LEMMA PatchAppAgain ==
  ASSUME NEW d, Good(d), NEW r \in RequestForms, NEW t \in Nat,
         NEW w, w = PatchApp(d, r, t).db, w # d
  PROVE  Timeless(PatchApp(w, r, t).db) = Timeless(w)
<1>1. PICK a \in GetApp(d, t, r.app) :
        w = WithApps(d, (d.apps \ {a}) \cup {PatchedApp(a, d, r)})
  BY PatchAppEffect
<1> DEFINE n == PatchedApp(a, d, r)
           A == (d.apps \ {a}) \cup {n}
<1>2. a \in AppRows /\ a.id = r.app /\ a.tenant = t /\ d \in Tables
  BY OneApp DEF Good
<1>3. /\ n \in AppRows /\ n.id = r.app /\ n.tenant = t
  BY <1>2, PatchedAppForm
<1>4. w = WithApps(d, A)
  BY <1>1
<1> HIDE DEF n
<1>5. A \in SUBSET AppRows /\ n \in A
  BY <1>3, GoodRows
<1> HIDE DEF A
<1>6. w.apps = A
  BY <1>2, <1>4, <1>5, AppsWritten
<1>7. Good(w) /\ w \in Tables
  BY PatchAppKeeps DEF Good
<1>8. n \in GetApp(w, t, r.app)
  BY <1>3, <1>5, <1>6 DEF GetApp
<1>9. GetApp(w, t, r.app) = {n}
  BY <1>7, <1>8, OneApp
<1> DEFINE m == PatchedApp(n, w, r)
           B == (A \ {n}) \cup {m}
<1>10. m \in AppRows /\ [m EXCEPT !.updated = 0] = [n EXCEPT !.updated = 0]
  BY <1>2, <1>3, <1>7, PatchedAppForm, PatchedTwice DEF n
<1>11. CASE PatchApp(w, r, t).db = w
  BY <1>11
<1>12. CASE PatchApp(w, r, t).db # w
  <2>1. PatchApp(w, r, t).db = WithApps(w, B)
    BY <1>6, <1>7, <1>9, <1>12, PatchAppEffect
  <2> HIDE DEF m
  <2>2. B \in SUBSET AppRows
    BY <1>5, <1>10
  <2>3. {[x EXCEPT !.updated = 0] : x \in B}
          = {[x EXCEPT !.updated = 0] : x \in A}
    BY <1>5, <1>10
  <2> HIDE DEF B
  <2>4. /\ WithApps(w, B) \in Tables /\ WithApps(w, B).apps = B
        /\ WithApps(w, B).tenants = w.tenants
        /\ WithApps(w, B).policies = w.policies
        /\ WithApps(w, B).managed = w.managed
    BY <1>7, <2>2, AppsWritten
  <2> QED
    BY <1>6, <1>7, <2>1, <2>3, <2>4, TimelessTables
<1> QED
  BY <1>11, <1>12

LEMMA CreatePolicyAgain ==
  ASSUME NEW d, Good(d), NEW r \in RequestForms, NEW t \in Nat,
         NEW w, w = CreatePolicy(d, r, t).db, w # d
  PROVE  CreatePolicy(w, r, t).db = w
<1> DEFINE n == PolicyRow(d, r, t)
           P == d.policies \cup {n}
<1>1. w = WithPolicies(d, P)
  BY CreatePolicyEffect
<1>2. /\ n \in PolicyRows /\ n.app = r.app /\ n.name = r.name
      /\ n.id = Now(d) /\ d \in Tables
  BY PolicyRowForm DEF Good
<1> HIDE DEF n
<1>3. P \in SUBSET PolicyRows /\ n \in P
  BY <1>2, GoodRows
<1> HIDE DEF P
<1>4. w.policies = P
  BY <1>1, <1>2, <1>3, PoliciesWritten
<1>5. n.id # 0
  BY <1>2, TableFields
<1>6. ~ NameFree(w, r.app, r.name, 0)
  BY <1>2, <1>3, <1>4, <1>5 DEF NameFree
<1>7. Good(w)
  BY CreatePolicyKeeps
<1> QED
  BY <1>6, <1>7, CreatePolicyEffect

LEMMA PatchPolicyAgain ==
  ASSUME NEW d, Good(d), NEW r \in RequestForms, NEW t \in Nat,
         NEW w, w = PatchPolicy(d, r, t).db, w # d
  PROVE  PatchPolicy(w, r, t).db = w
<1>1. PICK p \in GetPolicy(d, t, r.policy) :
        /\ p.updated = r.expected
        /\ w = WithPolicies(d, (d.policies \ {p})
                                 \cup {PatchedPolicy(p, d, r)})
  BY PatchPolicyEffect
<1> DEFINE n == PatchedPolicy(p, d, r)
           P == (d.policies \ {p}) \cup {n}
<1>2. /\ p \in PolicyRows /\ p \in d.policies /\ p.id = r.policy
      /\ p.tenant = t /\ d \in Tables
  BY OnePolicy DEF Good
<1>3. /\ n \in PolicyRows /\ n.id = r.policy /\ n.tenant = t
      /\ n.updated = Now(d)
  BY <1>2, PatchedPolicyForm
<1>4. w = WithPolicies(d, P)
  BY <1>1
<1> HIDE DEF n
<1>5. P \in SUBSET PolicyRows /\ n \in P
  BY <1>3, GoodRows
<1> HIDE DEF P
<1>6. w.policies = P
  BY <1>2, <1>4, <1>5, PoliciesWritten
<1>7. Good(w)
  BY PatchPolicyKeeps
<1>8. n \in GetPolicy(w, t, r.policy)
  BY <1>3, <1>5, <1>6 DEF GetPolicy, OwnPolicies
<1>9. GetPolicy(w, t, r.policy) = {n}
  BY <1>7, <1>8, OnePolicy
<1>10. n.updated # r.expected
  BY <1>1, <1>2, <1>3, GoodRows
<1> SUFFICES ASSUME PatchPolicy(w, r, t).db # w PROVE FALSE
  OBVIOUS
<1>11. PICK q \in GetPolicy(w, t, r.policy) : q.updated = r.expected
  BY <1>7, PatchPolicyEffect
<1> QED
  BY <1>9, <1>10, <1>11

(* A request that is sent a second time at once changes nothing but times, *)
(* from any consistent tables: createTenant and createApp find the slug    *)
(* taken, createPolicy the name, patchPolicy the row modified, and         *)
(* patchApp writes what is there (db.go:101, 138, 194, 275, 315).          *)
THEOREM RetriesAreHarmless == Spec => []RetryHasNoSecondEffect
<1>1. ASSUME NEW d, Good(d), NEW r \in RequestForms,
             r.route # "publishPolicy"
      PROVE  NoSecond(d, r)
  <2> DEFINE once == Handle(d, r).db
             t == TenantOf(r)
  <2>1. CASE r.route \notin Writers
    BY <1>1, <2>1, ReadersWriteNothing, SameAgain
  <2>2. CASE r.route \in Writers
    <3>1. CASE once = d
      BY <1>1, <3>1, SameAgain
    <3>2. CASE \A e : Refuses(r, e)
      BY <1>1, <3>2, SameAgain DEF Refuses
    <3>3. CASE once # d /\ \A e : Calls(r, e)
      <4>1. t \in Nat
        BY <1>1, RequestFields
      <4>2. Calls(r, d) /\ Calls(r, once)
        BY <3>3
      <4>3. CASE r.route = "createTenant"
        BY <1>1, <3>3, <4>2, <4>3, CreateTenantAgain, SameAgain DEF Calls
      <4>4. CASE r.route = "createApp"
        BY <1>1, <3>3, <4>1, <4>2, <4>4, CreateAppAgain, SameAgain DEF Calls
      <4>5. CASE r.route = "patchApp"
        BY <1>1, <3>3, <4>1, <4>2, <4>5, PatchAppAgain DEF Calls, NoSecond
      <4>6. CASE r.route = "createPolicy"
        BY <1>1, <3>3, <4>1, <4>2, <4>6, CreatePolicyAgain, SameAgain
        DEF Calls
      <4>7. CASE r.route = "patchPolicy"
        BY <1>1, <3>3, <4>1, <4>2, <4>7, PatchPolicyAgain, SameAgain
        DEF Calls
      <4> QED
        BY <1>1, <2>2, <4>3, <4>4, <4>5, <4>6, <4>7 DEF Writers
    <3> QED
      BY <1>1, <2>2, <3>1, <3>2, <3>3, WritersCall
  <2> QED
    BY <2>1, <2>2
<1>2. ControlAPIInv => RetryHasNoSecondEffect
  BY <1>1, ControlAPIForms
  DEF ControlAPIInv, Good, RetryHasNoSecondEffect, NoSecond
<1> QED
  BY <1>2, ControlAPICorrect, PTL

-----------------------------------------------------------------------------
(* The policy the gateway gets. *)

(* Of the deployed policies one was deployed last. *)
LEMMA SomeLast ==
  ASSUME NEW d, Good(d), NEW S \in SUBSET d.policies, S # {}
  PROVE  \E p \in S : \A q \in S : q.deployed <= p.deployed
<1> DEFINE Before(p) == d.clock - p.deployed
           T == {Before(p) : p \in S}
<1>1. \A p \in S : /\ p.deployed \in Nat /\ p.deployed <= d.clock
                   /\ d.clock \in Nat
  BY GoodRows
<1>2. T \subseteq Nat /\ T # {}
  BY <1>1
<1> HIDE DEF T
<1> DEFINE Less == {ss \in Nat \X Nat : ss[1] < ss[2]}
<1>3. IsWellFoundedOn(Less, Nat)
  BY NatLessThanWellFounded DEF OpToRel
<1>4. \A m, n \in Nat : m < n => <<m, n>> \in Less
  OBVIOUS
<1> HIDE DEF Less
<1>5. PICK x \in T : \A y \in T : ~ (<<y, x>> \in Less)
  BY <1>2, <1>3, WFMin
<1>6. ASSUME NEW y \in T PROVE x <= y
  <2>1. x \in Nat /\ y \in Nat
    BY <1>2
  <2>2. ~ (y < x)
    BY <1>5, <1>4, <2>1
  <2> QED
    BY <2>1, <2>2
<1>7. PICK p \in S : x = Before(p)
  BY DEF T
<1>8. \A q \in S : Before(q) \in T
  BY DEF T
<1>9. \A q \in S : q.deployed <= p.deployed
  BY <1>1, <1>6, <1>7, <1>8
<1> QED
  BY <1>9

LEMMA LastIsOne ==
  ASSUME NEW d, Good(d), NEW S \in SUBSET d.policies
  PROVE  LET offered == {p \in S : p.enabled /\ p.version > 0} IN
         /\ LastDeployed(S) \subseteq offered
         /\ Cardinality(LastDeployed(S)) = (IF offered = {} THEN 0 ELSE 1)
         /\ \A p \in LastDeployed(S), q \in offered :
              q.deployed <= p.deployed
<1> DEFINE O == {p \in S : p.deployed # 0 /\ p.enabled}
           L == LastDeployed(S)
<1>1. \A p \in S : p.version > 0 <=> p.deployed # 0
  BY GoodRows
<1>2. {p \in S : p.enabled /\ p.version > 0} = O
  BY <1>1
<1>3. L = {p \in O : \A q \in O : q.deployed <= p.deployed}
  BY DEF LastDeployed
<1>4. /\ O \in SUBSET d.policies
      /\ \A p \in O : p.deployed # 0 /\ p.deployed \in Nat
  BY GoodRows
<1>5. \A p, q \in O : p.deployed = q.deployed => p = q
  BY <1>4, GoodRows
<1> HIDE DEF O, L
<1>6. CASE O = {}
  <2>1. L = {}
    BY <1>3, <1>6
  <2>2. Cardinality(L) = 0
    BY <2>1, FS_EmptySet
  <2> QED
    BY <1>2, <1>6, <2>1, <2>2 DEF L
<1>7. CASE O # {}
  <2>1. PICK p \in O : \A q \in O : q.deployed <= p.deployed
    BY <1>4, <1>7, SomeLast
  <2>2. \A q \in L : q = p
    BY <1>3, <1>4, <1>5, <2>1
  <2>3. L = {p}
    BY <1>3, <2>1, <2>2
  <2>4. Cardinality(L) = 1
    BY <2>3, FS_Singleton
  <2> QED
    BY <1>2, <1>7, <2>1, <2>3, <2>4 DEF L
<1> QED
  BY <1>6, <1>7

(* In every reachable state the gateway gets, of a host name, the one      *)
(* policy that was published last among the enabled ones of the active     *)
(* apps that name the host, if there is any (server.go:350, db.go:455).    *)
THEOREM LastPublishedIsServed == Spec => []GatewayGetsLastPublished
<1>1. ControlAPIInv => GatewayGetsLastPublished
  <2> SUFFICES ASSUME Good(db), NEW r \in Requests,
                      r.route = "getGatewayPolicy", r.token = "gateway",
                      r.hostname.host # 0, ~ r.hostname.port
               PROVE
        LET naming == {a \in db.apps :
                         /\ a.status = "active"
                         /\ \E i \in DOMAIN a.hostnames :
                              /\ a.hostnames[i].host = r.hostname.host
                              /\ ~ a.hostnames[i].port
                              /\ ~ a.hostnames[i].padded}
            offered == {p \in db.policies :
                          /\ p.enabled /\ p.version > 0
                          /\ p.app \in {a.id : a \in naming}}
            got == Handle(db, r).shown
        IN  /\ got \subseteq offered
            /\ Cardinality(got) = (IF offered = {} THEN 0 ELSE 1)
            /\ \A p \in got, q \in offered : q.deployed <= p.deployed
    BY DEF ControlAPIInv, Good, GatewayGetsLastPublished
  <2> DEFINE naming == {a \in db.apps :
                          /\ a.status = "active"
                          /\ \E i \in DOMAIN a.hostnames :
                               /\ a.hostnames[i].host = r.hostname.host
                               /\ ~ a.hostnames[i].port
                               /\ ~ a.hostnames[i].padded}
             S == {p \in db.policies : \E a \in naming : p.app = a.id}
  <2>1. GatewayPolicies(db, r.hostname.host) = LastDeployed(S)
    BY DEF GatewayPolicies, Names
  <2>2. {p \in db.policies : /\ p.enabled /\ p.version > 0
                             /\ p.app \in {a.id : a \in naming}}
          = {p \in S : p.enabled /\ p.version > 0}
    OBVIOUS
  <2> HIDE DEF naming
  <2>3. S \in SUBSET db.policies
    OBVIOUS
  <2> HIDE DEF S
  <2>4. Handle(db, r) = ShowRow(db, {}, LastDeployed(S))
    BY <2>1, GatewayRouteServed DEF Authorized, GetGatewayPolicy
  <2>5. Handle(db, r).shown = LastDeployed(S)
    BY <2>4
    DEF ShowRow, IfFound, Unreadable, NotFound, Refuse, Show
  <2> QED
    BY <2>2, <2>3, <2>5, LastIsOne DEF naming
<1> QED
  BY <1>1, ControlAPICorrect, PTL

-----------------------------------------------------------------------------
(* Other tenants. *)

(* The answers from all tables and from one tenant's alone are the same to *)
(* the tenant.                                                             *)
Agrees(here, there, d, t) ==
  /\ here.status = there.status
  /\ here.shown = there.shown
  /\ Alone(here.db, t) = there.db
  /\ Others(here.db, t) = Others(d, t)

OwnApps(d, t) == {a \in d.apps : a.tenant = t}

LEMMA AloneFields ==
  ASSUME NEW d \in Tables, NEW t
  PROVE  LET e == Alone(d, t) IN
         /\ e \in Tables /\ e.clock = d.clock /\ Now(e) = Now(d)
         /\ e.tenants = d.tenants /\ e.managed = d.managed
         /\ e.apps = OwnApps(d, t) /\ e.policies = OwnPolicies(d, t)
BY DEF Alone, Tables, Now, OwnApps, OwnPolicies

LEMMA AgreeUnchanged ==
  ASSUME NEW d, NEW t, NEW s, NEW rows
  PROVE  /\ Agrees(Refuse(d, s), Refuse(Alone(d, t), s), d, t)
         /\ Agrees(Show(d, s, rows), Show(Alone(d, t), s, rows), d, t)
BY DEF Agrees, Refuse, Show

LEMMA AgreeApps ==
  ASSUME NEW d \in Tables, NEW t, NEW s, NEW rows,
         NEW A \in SUBSET AppRows, NEW B \in SUBSET AppRows,
         B = {a \in A : a.tenant = t},
         A \ B = d.apps \ OwnApps(d, t)
  PROVE  Agrees(Show(WithApps(d, A), s, rows),
                Show(WithApps(Alone(d, t), B), s, rows), d, t)
<1> DEFINE e == Alone(d, t)
           w == WithApps(d, A)
           v == WithApps(e, B)
           aw == Alone(w, t)
<1>1. /\ e \in Tables /\ Now(e) = Now(d) /\ e.tenants = d.tenants
      /\ e.managed = d.managed /\ e.policies = OwnPolicies(d, t)
      /\ e.apps = OwnApps(d, t)
  BY AloneFields
<1> HIDE DEF e
<1>2. /\ w \in Tables /\ w.clock = Now(d) /\ w.apps = A
      /\ w.tenants = d.tenants /\ w.policies = d.policies
      /\ w.managed = d.managed
  BY AppsWritten
<1>3. /\ v \in Tables /\ v.clock = Now(d) /\ v.apps = B
      /\ v.tenants = d.tenants /\ v.policies = OwnPolicies(d, t)
      /\ v.managed = d.managed
  BY <1>1, AppsWritten
<1> HIDE DEF w, v
<1>4. /\ aw \in Tables /\ aw.clock = w.clock /\ aw.tenants = w.tenants
      /\ aw.managed = w.managed /\ aw.apps = OwnApps(w, t)
      /\ aw.policies = OwnPolicies(w, t)
  BY <1>2, AloneFields
<1> HIDE DEF aw
<1>5. aw.apps = B /\ aw.policies = OwnPolicies(d, t)
  BY <1>2, <1>4 DEF OwnApps, OwnPolicies
<1>6. aw = v
  BY <1>2, <1>3, <1>4, <1>5, SameTables
<1>7. Others(w, t) = Others(d, t)
  BY <1>1, <1>2, <1>5 DEF Others, aw, e
<1> QED
  BY <1>6, <1>7 DEF Agrees, Show, aw, w, v, e

LEMMA AgreePolicies ==
  ASSUME NEW d \in Tables, NEW t, NEW s, NEW rows,
         NEW P \in SUBSET PolicyRows, NEW Q \in SUBSET PolicyRows,
         Q = {p \in P : p.tenant = t},
         P \ Q = d.policies \ OwnPolicies(d, t)
  PROVE  Agrees(Show(WithPolicies(d, P), s, rows),
                Show(WithPolicies(Alone(d, t), Q), s, rows), d, t)
<1> DEFINE e == Alone(d, t)
           w == WithPolicies(d, P)
           v == WithPolicies(e, Q)
           aw == Alone(w, t)
<1>1. /\ e \in Tables /\ Now(e) = Now(d) /\ e.tenants = d.tenants
      /\ e.managed = d.managed /\ e.policies = OwnPolicies(d, t)
      /\ e.apps = OwnApps(d, t)
  BY AloneFields
<1> HIDE DEF e
<1>2. /\ w \in Tables /\ w.clock = Now(d) /\ w.policies = P
      /\ w.tenants = d.tenants /\ w.apps = d.apps
      /\ w.managed = d.managed
  BY PoliciesWritten
<1>3. /\ v \in Tables /\ v.clock = Now(d) /\ v.policies = Q
      /\ v.tenants = d.tenants /\ v.apps = OwnApps(d, t)
      /\ v.managed = d.managed
  BY <1>1, PoliciesWritten
<1> HIDE DEF w, v
<1>4. /\ aw \in Tables /\ aw.clock = w.clock /\ aw.tenants = w.tenants
      /\ aw.managed = w.managed /\ aw.apps = OwnApps(w, t)
      /\ aw.policies = OwnPolicies(w, t)
  BY <1>2, AloneFields
<1> HIDE DEF aw
<1>5. aw.policies = Q /\ aw.apps = OwnApps(d, t)
  BY <1>2, <1>4 DEF OwnApps, OwnPolicies
<1>6. aw = v
  BY <1>2, <1>3, <1>4, <1>5, SameTables
<1>7. Others(w, t) = Others(d, t)
  BY <1>1, <1>2, <1>5 DEF Others, aw, e
<1> QED
  BY <1>6, <1>7 DEF Agrees, Show, aw, w, v, e

(* What a handler looks up is the same in both. *)
LEMMA SameLookups ==
  ASSUME NEW d, Good(d), NEW t
  PROVE  LET e == Alone(d, t) IN
         /\ OwnApps(e, t) = OwnApps(d, t)
         /\ OwnPolicies(e, t) = OwnPolicies(d, t)
         /\ \A id : GetApp(e, t, id) = GetApp(d, t, id)
         /\ \A id : GetPolicy(e, t, id) = GetPolicy(d, t, id)
         /\ \A slug : SlugFree(e, t, slug) <=> SlugFree(d, t, slug)
<1> DEFINE e == Alone(d, t)
<1>1. e.apps = OwnApps(d, t) /\ e.policies = OwnPolicies(d, t)
  BY AloneFields DEF Good
<1> HIDE DEF e
<1>2. OwnApps(e, t) = OwnApps(d, t) /\ OwnPolicies(e, t) = OwnPolicies(d, t)
  BY <1>1 DEF OwnApps, OwnPolicies
<1>3. \A id : GetApp(e, t, id) = GetApp(d, t, id)
  BY <1>1 DEF OwnApps, GetApp
<1>4. \A id : GetPolicy(e, t, id) = GetPolicy(d, t, id)
  BY <1>2 DEF GetPolicy
<1>5. \A slug : SlugFree(e, t, slug) <=> SlugFree(d, t, slug)
  BY <1>1 DEF OwnApps, SlugFree
<1> QED
  BY <1>2, <1>3, <1>4, <1>5 DEF e

(* An app's policies are all of its tenant: a name that is free among the  *)
(* tenant's is free.                                                       *)
LEMMA SameNames ==
  ASSUME NEW d, Good(d), NEW t, NEW a \in d.apps, a.tenant = t,
         NEW name, NEW self
  PROVE  NameFree(Alone(d, t), a.id, name, self)
           <=> NameFree(d, a.id, name, self)
<1>1. Alone(d, t).policies = OwnPolicies(d, t)
  BY AloneFields DEF Good
<1>2. \A p \in d.policies : p.app = a.id => p.tenant = t
  BY GoodRows
<1> QED
  BY <1>1, <1>2 DEF NameFree, OwnPolicies

LEMMA ShowRowsAgree ==
  ASSUME NEW d, NEW t, NEW ids, NEW rows
  PROVE  /\ Agrees(ShowRow(d, ids, rows), ShowRow(Alone(d, t), ids, rows), d, t)
         /\ Agrees(ShowRows(d, ids, rows), ShowRows(Alone(d, t), ids, rows),
                   d, t)
<1>1. CASE Unreadable(ids)
  BY <1>1, AgreeUnchanged DEF ShowRow, ShowRows, IfFound
<1>2. CASE ~ Unreadable(ids)
  <2>1. Agrees(ShowRows(d, ids, rows), ShowRows(Alone(d, t), ids, rows), d, t)
    BY <1>2, AgreeUnchanged DEF ShowRows
  <2>2. CASE rows = {}
    BY <1>2, <2>1, <2>2, AgreeUnchanged DEF ShowRow, IfFound, NotFound
  <2>3. CASE rows # {}
    BY <1>2, <2>1, <2>3, AgreeUnchanged DEF ShowRow, IfFound
  <2> QED
    BY <2>2, <2>3
<1> QED
  BY <1>1, <1>2

LEMMA CreateAppAgrees ==
  ASSUME NEW d, Good(d), NEW r \in RequestForms, NEW t \in Nat
  PROVE  Agrees(CreateApp(d, r, t), CreateApp(Alone(d, t), r, t), d, t)
<1> DEFINE e == Alone(d, t)
           n == AppRow(d, r, t)
           Accepted == /\ ~ Unreadable({t})
                       /\ \E u \in d.tenants : u.id = t
                       /\ SlugFree(d, t, r.slug)
<1>1. /\ d \in Tables /\ e \in Tables /\ Now(e) = Now(d)
      /\ e.tenants = d.tenants /\ e.apps = OwnApps(d, t)
      /\ SlugFree(e, t, r.slug) <=> SlugFree(d, t, r.slug)
  BY AloneFields, SameLookups DEF Good
<1>2. n \in AppRows /\ n.tenant = t /\ AppRow(e, r, t) = n
  BY <1>1, AppRowForm DEF AppRow
<1>3. \A x \in {d, e} :
        CreateApp(x, r, t) =
          IF ~ ValidateCreateApp(r, t) THEN Refuse(x, 400)
          ELSE IF Accepted THEN Show(WithApps(x, x.apps \cup {n}), 201, {n})
          ELSE Refuse(x, 500)
  <2> TAKE x \in {d, e}
  <2>1. /\ Stamped(x).apps = x.apps /\ x.tenants = d.tenants
        /\ SlugFree(x, t, r.slug) <=> SlugFree(d, t, r.slug)
        /\ n = [id |-> Now(x), tenant |-> t, slug |-> r.slug,
                hostnames |-> r.hostnames, status |-> "active",
                updated |-> Now(x)]
    BY <1>1, TableFields DEF AppRow
  <2> HIDE DEF e, n
  <2> QED
    BY <2>1 DEF CreateApp, WithApps
<1> HIDE DEF e, n, Accepted
<1>4. CASE ~ ValidateCreateApp(r, t) \/ ~ Accepted
  BY <1>3, <1>4, AgreeUnchanged DEF e
<1>5. CASE ValidateCreateApp(r, t) /\ Accepted
  <2> DEFINE A == d.apps \cup {n}
             B == e.apps \cup {n}
  <2>1. /\ A \in SUBSET AppRows /\ B \in SUBSET AppRows
        /\ B = {a \in A : a.tenant = t}
        /\ A \ B = d.apps \ OwnApps(d, t)
    BY <1>1, <1>2, TableFields DEF OwnApps
  <2> HIDE DEF A, B
  <2>2. Agrees(Show(WithApps(d, A), 201, {n}),
               Show(WithApps(e, B), 201, {n}), d, t)
    BY <1>1, <2>1, AgreeApps DEF e
  <2> QED
    BY <1>3, <1>5, <2>2 DEF A, B, e
<1> QED
  BY <1>4, <1>5 DEF e

LEMMA PatchAppAgrees ==
  ASSUME NEW d, Good(d), NEW r \in RequestForms, NEW t \in Nat
  PROVE  Agrees(PatchApp(d, r, t), PatchApp(Alone(d, t), r, t), d, t)
<1> DEFINE e == Alone(d, t)
           F == GetApp(d, t, r.app)
           N == {PatchedApp(a, d, r) : a \in F}
<1>1. /\ d \in Tables /\ e \in Tables /\ e.apps = OwnApps(d, t)
      /\ GetApp(e, t, r.app) = F /\ Now(e) = Now(d)
  BY AloneFields, SameLookups DEF Good
<1>2. \A a \in F : a \in d.apps /\ a \in AppRows /\ a.tenant = t
  BY OneApp
<1>3. \A a \in N : a \in AppRows /\ a.tenant = t
  BY <1>1, <1>2, PatchedAppForm
<1>4. \A x \in {d, e} :
        PatchApp(x, r, t) =
          IF ~ ValidatePatchApp(r) THEN Refuse(x, 400)
          ELSE IF Unreadable({t, r.app}) THEN Refuse(x, 500)
          ELSE IF F = {} THEN Refuse(x, 404)
          ELSE IF r.origin THEN Refuse(x, 500)
          ELSE Show(WithApps(x, (x.apps \ F) \cup N), 200, N)
  <2> TAKE x \in {d, e}
  <2>1. Stamped(x).apps = x.apps /\ GetApp(x, t, r.app) = F
    BY <1>1, TableFields
  <2>2. Now(x) = Now(d)
    BY <1>1
  <2>3. N = {[a EXCEPT !.hostnames = IF r.hostnames = <<>> THEN @
                                                            ELSE r.hostnames,
                       !.status = IF r.status = "kept" THEN @ ELSE r.status,
                       !.updated = Now(x)] :
               a \in GetApp(x, t, r.app)}
    BY <2>1, <2>2 DEF PatchedApp
  <2> HIDE DEF e, F, N
  <2>4. CASE ~ ValidatePatchApp(r)
    BY <2>4 DEF PatchApp
  <2>5. CASE ValidatePatchApp(r)
    <3>1. PatchApp(x, r, t) =
            IfFound(x, {t, r.app}, F,
              IF r.origin THEN Refuse(x, 500)
              ELSE Show([Stamped(x) EXCEPT !.apps = (@ \ F) \cup N], 200, N))
      BY <2>1, <2>3, <2>5, Zenon DEF PatchApp
    <3>2. [Stamped(x) EXCEPT !.apps = (@ \ F) \cup N]
            = WithApps(x, (x.apps \ F) \cup N)
      BY <2>1 DEF WithApps
    <3> QED
      BY <2>5, <3>1, <3>2 DEF IfFound, NotFound
  <2> QED
    BY <2>4, <2>5
<1> HIDE DEF e, F, N
<1>5. CASE \/ ~ ValidatePatchApp(r) \/ Unreadable({t, r.app})
           \/ F = {} \/ r.origin
  BY <1>4, <1>5, AgreeUnchanged DEF e
<1>6. CASE ~ (\/ ~ ValidatePatchApp(r) \/ Unreadable({t, r.app})
              \/ F = {} \/ r.origin)
  <2> DEFINE A == (d.apps \ F) \cup N
             B == (e.apps \ F) \cup N
  <2>1. d.apps \subseteq AppRows
    BY <1>1, TableFields
  <2>2. /\ A \in SUBSET AppRows /\ B \in SUBSET AppRows
        /\ B = {a \in A : a.tenant = t}
        /\ A \ B = d.apps \ OwnApps(d, t)
    BY <1>1, <1>2, <1>3, <2>1 DEF OwnApps
  <2> HIDE DEF A, B
  <2>3. Agrees(Show(WithApps(d, A), 200, N),
               Show(WithApps(e, B), 200, N), d, t)
    BY <1>1, <2>2, AgreeApps DEF e
  <2> QED
    BY <1>4, <1>6, <2>3 DEF A, B, e
<1> QED
  BY <1>5, <1>6 DEF e

(* Rows of the tenant in place of rows of the tenant. *)
LEMMA OwnPoliciesReplaced ==
  ASSUME NEW d, Good(d), NEW t, NEW s,
         NEW F \in SUBSET OwnPolicies(d, t), NEW N \in SUBSET PolicyRows,
         \A p \in N : p.tenant = t
  PROVE  LET e == Alone(d, t) IN
         Agrees(Show(WithPolicies(d, (d.policies \ F) \cup N), s, N),
                Show(WithPolicies(e, (e.policies \ F) \cup N), s, N), d, t)
<1> DEFINE e == Alone(d, t)
           P == (d.policies \ F) \cup N
           Q == (e.policies \ F) \cup N
<1>1. d \in Tables /\ e.policies = OwnPolicies(d, t)
  BY AloneFields DEF Good
<1>2. d.policies \subseteq PolicyRows
  BY <1>1, TableFields
<1> HIDE DEF e
<1>3. /\ P \in SUBSET PolicyRows /\ Q \in SUBSET PolicyRows
      /\ Q = {p \in P : p.tenant = t}
      /\ P \ Q = d.policies \ OwnPolicies(d, t)
  BY <1>1, <1>2 DEF OwnPolicies
<1> HIDE DEF P, Q
<1>4. Agrees(Show(WithPolicies(d, P), s, N),
             Show(WithPolicies(e, Q), s, N), d, t)
  BY <1>1, <1>3, AgreePolicies DEF e
<1> QED
  BY <1>4 DEF P, Q, e

LEMMA CreatePolicyAgrees ==
  ASSUME NEW d, Good(d), NEW r \in RequestForms, NEW t \in Nat
  PROVE  Agrees(CreatePolicy(d, r, t), CreatePolicy(Alone(d, t), r, t), d, t)
<1> DEFINE e == Alone(d, t)
           F == GetApp(d, t, r.app)
           n == PolicyRow(d, r, t)
           Bad == BadBody(r, {"name", "mode", "snapshot"})
           Free == NameFree(d, r.app, r.name, 0)
<1>1. /\ d \in Tables /\ e \in Tables /\ Now(e) = Now(d)
      /\ GetApp(e, t, r.app) = F
  BY AloneFields, SameLookups DEF Good
<1>2. n \in PolicyRows /\ n.tenant = t
  BY <1>1, PolicyRowForm
<1>3. F # {} => /\ NameFree(e, r.app, r.name, 0) <=> Free
                /\ {[id |-> Now(d), tenant |-> a.tenant, app |-> r.app,
                      name |-> r.name, enabled |-> TRUE, updated |-> Now(d),
                      version |-> 0, deployed |-> 0] : a \in F} = {n}
  <2> SUFFICES ASSUME NEW a \in F
               PROVE  /\ NameFree(e, r.app, r.name, 0) <=> Free
                      /\ {[id |-> Now(d), tenant |-> b.tenant, app |-> r.app,
                            name |-> r.name, enabled |-> TRUE,
                            updated |-> Now(d), version |-> 0,
                            deployed |-> 0] : b \in F} = {n}
    OBVIOUS
  <2>1. a \in d.apps /\ a.id = r.app /\ a.tenant = t /\ F = {a}
    BY OneApp
  <2>2. NameFree(e, r.app, r.name, 0) <=> Free
    BY <2>1, SameNames
  <2> QED
    BY <2>1, <2>2 DEF PolicyRow
<1>4. \A x \in {d, e} :
        CreatePolicy(x, r, t) =
          IF Bad THEN Refuse(x, 400)
          ELSE IF Unreadable({t, r.app}) THEN Refuse(x, 500)
          ELSE IF F = {} THEN Refuse(x, 404)
          ELSE IF Free
            THEN Show(WithPolicies(x, (x.policies \ {}) \cup {n}), 201, {n})
          ELSE Refuse(x, 500)
  <2>1. \A x \in {d, e} : /\ Stamped(x).policies = x.policies
                          /\ x.policies \ {} = x.policies
    BY <1>1, TableFields
  <2>2. CASE F = {}
    BY <1>1, <2>2 DEF CreatePolicy, IfFound, NotFound
  <2>3. CASE F # {}
    <3> TAKE x \in {d, e}
    <3> DEFINE rows == {[id |-> Now(x), tenant |-> a.tenant, app |-> r.app,
                         name |-> r.name, enabled |-> TRUE,
                         updated |-> Now(x), version |-> 0,
                         deployed |-> 0] : a \in F}
    <3>1. /\ GetApp(x, t, r.app) = F /\ Now(x) = Now(d)
          /\ NameFree(x, r.app, r.name, 0) <=> Free
      BY <1>1, <1>3, <2>3
    <3>2. rows = {n}
      BY <1>3, <2>3, <3>1
    <3> HIDE DEF n, Free, F, e
    <3>3. CreatePolicy(x, r, t) =
            IF Bad THEN Refuse(x, 400)
            ELSE IfFound(x, {t, r.app}, F,
                   IF NameFree(x, r.app, r.name, 0)
                     THEN Show([Stamped(x) EXCEPT !.policies = @ \cup rows],
                               201, rows)
                     ELSE Refuse(x, 500))
      BY <3>1, Zenon DEF CreatePolicy
    <3> HIDE DEF rows, Bad
    <3>4. [Stamped(x) EXCEPT !.policies = @ \cup rows]
            = WithPolicies(x, (x.policies \ {}) \cup {n})
      BY <2>1, <3>2 DEF WithPolicies
    <3> QED
      BY <2>3, <3>1, <3>2, <3>3, <3>4 DEF IfFound
  <2> QED
    BY <2>2, <2>3
<1> HIDE DEF e, F, n, Bad, Free
<1>5. CASE Bad \/ Unreadable({t, r.app}) \/ F = {} \/ ~ Free
  BY <1>4, <1>5, AgreeUnchanged DEF e
<1>6. CASE ~ (Bad \/ Unreadable({t, r.app}) \/ F = {} \/ ~ Free)
  <2>1. /\ {} \in SUBSET OwnPolicies(d, t) /\ {n} \in SUBSET PolicyRows
        /\ \A p \in {n} : p.tenant = t
    BY <1>2
  <2>2. Agrees(Show(WithPolicies(d, (d.policies \ {}) \cup {n}), 201, {n}),
               Show(WithPolicies(e, (e.policies \ {}) \cup {n}), 201, {n}),
               d, t)
    BY <2>1, OwnPoliciesReplaced DEF e
  <2> QED
    BY <1>4, <1>6, <2>2 DEF e
<1> QED
  BY <1>5, <1>6 DEF e

LEMMA PatchPolicyAgrees ==
  ASSUME NEW d, Good(d), NEW r \in RequestForms, NEW t \in Nat
  PROVE  Agrees(PatchPolicy(d, r, t), PatchPolicy(Alone(d, t), r, t), d, t)
<1> DEFINE e == Alone(d, t)
           F == GetPolicy(d, t, r.policy)
           N == {PatchedPolicy(p, d, r) : p \in F}
           Bad == BadBody(r, {"name", "mode", "snapshot"}) \/ r.expected = 0
           Stale == \E p \in F : ~ Unmodified(p, r)
           Free == \A p \in N : NameFree(d, p.app, p.name, p.id)
<1>1. /\ d \in Tables /\ e \in Tables /\ Now(e) = Now(d)
      /\ GetPolicy(e, t, r.policy) = F
  BY AloneFields, SameLookups DEF Good
<1>2. \A p \in F : /\ p \in d.policies /\ p \in PolicyRows /\ p.tenant = t
                   /\ p \in OwnPolicies(d, t)
  BY OnePolicy DEF OwnPolicies
<1>3. ASSUME NEW n \in N
      PROVE  /\ n \in PolicyRows /\ n.tenant = t
             /\ NameFree(e, n.app, n.name, n.id)
                  <=> NameFree(d, n.app, n.name, n.id)
  <2>1. PICK p \in F : n = PatchedPolicy(p, d, r)
    OBVIOUS
  <2>2. n \in PolicyRows /\ n.tenant = t /\ n.app = p.app
    BY <1>1, <1>2, <2>1, PatchedPolicyForm
  <2>3. PICK a \in d.apps : a.id = p.app /\ a.tenant = t
    BY <1>2, GoodRows
  <2>4. NameFree(e, a.id, n.name, n.id) <=> NameFree(d, a.id, n.name, n.id)
    BY <2>3, SameNames
  <2> QED
    BY <2>2, <2>3, <2>4
<1>4. \A x \in {d, e} :
        PatchPolicy(x, r, t) =
          IF Bad THEN Refuse(x, 400)
          ELSE IF Unreadable({t, r.policy}) THEN Refuse(x, 500)
          ELSE IF F = {} THEN Refuse(x, 404)
          ELSE IF Stale THEN Refuse(x, 409)
          ELSE IF Free
            THEN Show(WithPolicies(x, (x.policies \ F) \cup N), 200, N)
          ELSE Refuse(x, 500)
  <2> TAKE x \in {d, e}
  <2>1. /\ Stamped(x).policies = x.policies /\ GetPolicy(x, t, r.policy) = F
        /\ Now(x) = Now(d)
    BY <1>1, TableFields
  <2>2. N = {[p EXCEPT !.name = IF r.name = 0 THEN @ ELSE r.name,
                       !.enabled = IF r.enabled = "kept" THEN @
                                   ELSE r.enabled = "yes",
                       !.updated = Now(x)] : p \in GetPolicy(x, t, r.policy)}
    BY <2>1 DEF PatchedPolicy
  <2>3. Free <=> \A p \in N : NameFree(x, p.app, p.name, p.id)
    BY <1>3
  <2>4. Stale <=> \E p \in GetPolicy(x, t, r.policy) : ~ Unmodified(p, r)
    BY <2>1
  <2> HIDE DEF e, F, N, Free, Stale
  <2>5. CASE Bad
    BY <2>5 DEF PatchPolicy
  <2>6. CASE ~ Bad
    <3>1. PatchPolicy(x, r, t) =
            IfFound(x, {t, r.policy}, F,
              IF Stale THEN Refuse(x, 409)
              ELSE IF Free
                THEN Show([Stamped(x) EXCEPT !.policies = (@ \ F) \cup N],
                          200, N)
                ELSE Refuse(x, 500))
      <4> DEFINE G == GetPolicy(x, t, r.policy)
      <4>1. PatchPolicy(x, r, t) =
              IfFound(x, {t, r.policy}, G,
                IF \E p \in G : ~ Unmodified(p, r) THEN Refuse(x, 409)
                ELSE IF \A p \in N : NameFree(x, p.app, p.name, p.id)
                  THEN Show([Stamped(x) EXCEPT !.policies = (@ \ G) \cup N],
                            200, N)
                  ELSE Refuse(x, 500))
        BY <2>2, <2>6, Zenon DEF PatchPolicy
      <4>2. G = F
        BY <2>1
      <4> HIDE DEF G
      <4>3. CASE Stale
        BY <2>3, <2>4, <4>1, <4>2, <4>3 DEF G
      <4>4. CASE ~ Stale /\ Free
        BY <2>3, <2>4, <4>1, <4>2, <4>4 DEF G
      <4>5. CASE ~ Stale /\ ~ Free
        BY <2>3, <2>4, <4>1, <4>2, <4>5 DEF G
      <4> QED
        BY <4>3, <4>4, <4>5
    <3>2. [Stamped(x) EXCEPT !.policies = (@ \ F) \cup N]
            = WithPolicies(x, (x.policies \ F) \cup N)
      BY <2>1 DEF WithPolicies
    <3> QED
      BY <2>6, <3>1, <3>2 DEF IfFound, NotFound
  <2> QED
    BY <2>5, <2>6
<1>5. F \in SUBSET OwnPolicies(d, t) /\ N \in SUBSET PolicyRows
  BY <1>2, <1>3
<1>6. \A p \in N : p.tenant = t
  BY <1>3
<1> HIDE DEF e, F, N, Bad, Stale, Free
<1>7. CASE Bad \/ Unreadable({t, r.policy}) \/ F = {} \/ Stale \/ ~ Free
  BY <1>4, <1>7, AgreeUnchanged DEF e
<1>8. CASE ~ (Bad \/ Unreadable({t, r.policy}) \/ F = {} \/ Stale \/ ~ Free)
  <2>1. Agrees(Show(WithPolicies(d, (d.policies \ F) \cup N), 200, N),
               Show(WithPolicies(e, (e.policies \ F) \cup N), 200, N), d, t)
    BY <1>5, <1>6, OwnPoliciesReplaced DEF e
  <2> QED
    BY <1>4, <1>8, <2>1 DEF e
<1> QED
  BY <1>7, <1>8 DEF e

LEMMA PublishPolicyAgrees ==
  ASSUME NEW d, Good(d), NEW r \in RequestForms, NEW t \in Nat
  PROVE  Agrees(PublishPolicy(d, r, t), PublishPolicy(Alone(d, t), r, t), d, t)
<1> DEFINE e == Alone(d, t)
           F == GetPolicy(d, t, r.policy)
           N == {PublishedPolicy(p, d) : p \in F}
<1>1. /\ d \in Tables /\ e \in Tables /\ Now(e) = Now(d)
      /\ GetPolicy(e, t, r.policy) = F
  BY AloneFields, SameLookups DEF Good
<1>2. \A p \in F : p \in PolicyRows /\ p.tenant = t /\ p \in OwnPolicies(d, t)
  BY OnePolicy DEF OwnPolicies
<1>3. \A n \in N : n \in PolicyRows /\ n.tenant = t
  BY <1>1, <1>2, PublishedPolicyForm
<1>4. \A x \in {d, e} :
        PublishPolicy(x, r, t) =
          IF Unreadable({t, r.policy}) THEN Refuse(x, 500)
          ELSE IF F = {} THEN Refuse(x, 404)
          ELSE Show(WithPolicies(x, (x.policies \ F) \cup N), 201, N)
  <2> TAKE x \in {d, e}
  <2>1. /\ Stamped(x).policies = x.policies /\ GetPolicy(x, t, r.policy) = F
        /\ Now(x) = Now(d)
    BY <1>1, TableFields
  <2>2. N = {[p EXCEPT !.version = @ + 1, !.deployed = Now(x),
                       !.updated = Now(x)] : p \in GetPolicy(x, t, r.policy)}
    BY <2>1 DEF PublishedPolicy
  <2> HIDE DEF e, F, N
  <2>3. PublishPolicy(x, r, t) =
          IfFound(x, {t, r.policy}, F,
            Show([Stamped(x) EXCEPT !.policies = (@ \ F) \cup N], 201, N))
    BY <2>1, <2>2, Zenon DEF PublishPolicy
  <2>4. [Stamped(x) EXCEPT !.policies = (@ \ F) \cup N]
          = WithPolicies(x, (x.policies \ F) \cup N)
    BY <2>1 DEF WithPolicies
  <2> QED
    BY <2>3, <2>4 DEF IfFound, NotFound
<1>5. F \in SUBSET OwnPolicies(d, t) /\ N \in SUBSET PolicyRows
  BY <1>2, <1>3
<1>6. \A p \in N : p.tenant = t
  BY <1>3
<1> HIDE DEF e, F, N
<1>7. CASE Unreadable({t, r.policy}) \/ F = {}
  BY <1>4, <1>7, AgreeUnchanged DEF e
<1>8. CASE ~ (Unreadable({t, r.policy}) \/ F = {})
  <2>1. Agrees(Show(WithPolicies(d, (d.policies \ F) \cup N), 201, N),
               Show(WithPolicies(e, (e.policies \ F) \cup N), 201, N), d, t)
    BY <1>5, <1>6, OwnPoliciesReplaced DEF e
  <2> QED
    BY <1>4, <1>8, <2>1 DEF e
<1> QED
  BY <1>7, <1>8 DEF e

LEMMA ServeTenantAgrees ==
  ASSUME NEW d, Good(d), NEW r \in RequestForms, NEW t \in Nat,
         r.route \in TenantRoutes
  PROVE  Agrees(ServeTenant(d, r, t), ServeTenant(Alone(d, t), r, t), d, t)
<1> DEFINE e == Alone(d, t)
<1>1. /\ {a \in e.apps : a.tenant = t} = {a \in d.apps : a.tenant = t}
      /\ GetApp(e, t, r.app) = GetApp(d, t, r.app)
      /\ GetPolicy(e, t, r.policy) = GetPolicy(d, t, r.policy)
      /\ OwnPolicies(e, t) = OwnPolicies(d, t)
  BY SameLookups DEF OwnApps
<1>2. {p \in OwnPolicies(e, t) : p.app = r.app}
        = {p \in OwnPolicies(d, t) : p.app = r.app}
  BY <1>1
<1> HIDE DEF e
<1>3. CASE r.route = "listApps"
  BY <1>1, <1>3, ShowRowsAgree DEF ServeTenant, e
<1>4. CASE r.route = "getApp"
  BY <1>1, <1>4, ShowRowsAgree DEF ServeTenant, e
<1>5. CASE r.route = "listPolicies"
  BY <1>2, <1>5, ShowRowsAgree DEF ServeTenant, e
<1>6. CASE r.route = "getActivePolicy"
  BY <1>2, <1>6, ShowRowsAgree DEF ServeTenant, e
<1>7. CASE r.route = "getPolicy"
  BY <1>1, <1>7, ShowRowsAgree DEF ServeTenant, e
<1>8. CASE r.route = "createApp"
  BY <1>8, CreateAppAgrees DEF ServeTenant
<1>9. CASE r.route = "patchApp"
  BY <1>9, PatchAppAgrees DEF ServeTenant
<1>10. CASE r.route = "createPolicy"
  BY <1>10, CreatePolicyAgrees DEF ServeTenant
<1>11. CASE r.route = "patchPolicy"
  BY <1>11, PatchPolicyAgrees DEF ServeTenant
<1>12. CASE r.route = "publishPolicy"
  BY <1>12, PublishPolicyAgrees DEF ServeTenant
<1> QED
  BY <1>3, <1>4, <1>5, <1>6, <1>7, <1>8, <1>9, <1>10, <1>11, <1>12
  DEF TenantRoutes

(* In every reachable state, what a tenant's request is answered and what  *)
(* it does to the tenant's rows is what it would be if there were no other *)
(* tenant, and it leaves every other tenant's rows alone: for any number   *)
(* of tenants, whatever ids, slugs and names the request gives (db.go: the *)
(* tenant predicates; 000001_init.up.sql:60, 126).                         *)
THEOREM TenantsAreIsolated == Spec => []OtherTenantsDoNotMatter
<1>1. ControlAPIInv => OtherTenantsDoNotMatter
  <2> SUFFICES ASSUME Good(db), NEW r \in Requests, r.route \in TenantRoutes
               PROVE  Agrees(Handle(db, r), Handle(Alone(db, TenantOf(r)), r),
                             db, TenantOf(r))
    BY DEF ControlAPIInv, Good, OtherTenantsDoNotMatter, Agrees
  <2>1. r \in RequestForms /\ TenantOf(r) \in Nat
    BY ControlAPIForms, RequestFields
  <2>2. CASE Refusal(r) # 0
    BY <2>2, TenantRouteServed, AgreeUnchanged
  <2>3. CASE Refusal(r) = 0
    BY <2>1, <2>3, TenantRouteServed, ServeTenantAgrees
  <2> QED
    BY <2>2, <2>3
<1> QED
  BY <1>1, ControlAPICorrect, PTL

=============================================================================
