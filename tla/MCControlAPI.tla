---------------------------- MODULE MCControlAPI ----------------------------
(***************************************************************************)
(* TLC instance of ControlAPI: two tenants with an app and a policy each,  *)
(* of the same slug, host and name; three further writes.                  *)
(***************************************************************************)
EXTENDS ControlAPI

Name(h) == [host |-> h, upper |-> FALSE, port |-> FALSE, padded |-> FALSE]

App(id, tenant) == [id |-> id, tenant |-> tenant, slug |-> 1,
                    hostnames |-> <<Name(1)>>, status |-> "active",
                    updated |-> id]

Policy(id, tenant, app) ==
  [id |-> id, tenant |-> tenant, app |-> app, name |-> 1, enabled |-> TRUE,
   updated |-> id, version |-> 0, deployed |-> 0]

MCSeed ==
  [clock |-> 6,
   tenants |-> {[id |-> 1, slug |-> 1], [id |-> 2, slug |-> 2]},
   apps |-> {App(3, 1), App(4, 2)},
   policies |-> {Policy(5, 1, 3), Policy(6, 2, 4)},
   managed |-> {<<1, 1>>, <<1, 2>>}]

Plain(n) == [text |-> n, padded |-> FALSE]

Request == [route |-> "listTenants", token |-> "admin", header |-> Plain(1),
            query |-> Plain(0), body |-> Plain(0), faults |-> {}, slug |-> 1,
            name |-> 1, app |-> 3, policy |-> 5, set |-> 1, version |-> 1,
            hostnames |-> <<Name(1)>>, status |-> "kept", origin |-> FALSE,
            expected |-> 5, enabled |-> "kept", hostname |-> Name(1)]

Tenants == {Plain(1), Plain(2)}

(* Every route with both tokens, and with a tenant left out or unknown. *)
Callers ==
  {[Request EXCEPT !.route = route, !.token = "gateway"] : route \in Routes}
  \cup {[Request EXCEPT !.route = route, !.header = h, !.query = q] :
     route \in Routes,
     h \in {Plain(0), [text |-> 0, padded |-> TRUE], Plain(2), Plain(99)},
     q \in {Plain(0), Plain(1)}}
  \cup {[Request EXCEPT !.route = route, !.header = Plain(7)] : route \in Routes}

Faulty ==
  {[Request EXCEPT !.route = route, !.faults = {fault}] :
     route \in {"createTenant", "createApp", "patchApp", "createPolicy",
                "patchPolicy"},
     fault \in {"json", "name", "slug", "url", "metadata", "mode", "snapshot",
                "status"}}

HostLists ==
  {<<>>, <<Name(1)>>, <<Name(2)>>, <<Name(1), Name(2)>>, <<Name(0)>>,
   <<[Name(1) EXCEPT !.upper = TRUE]>>,
   <<Name(1), [Name(1) EXCEPT !.port = TRUE]>>,
   <<[Name(1) EXCEPT !.padded = TRUE], Name(2)>>}

AppRequests ==
  {[Request EXCEPT !.route = "createApp", !.header = t, !.body = b,
                   !.slug = s, !.hostnames = <<Name(2)>>] :
     t \in Tenants, b \in {Plain(0), Plain(1)}, s \in {1, 2}}
  \cup {[Request EXCEPT !.route = "createApp", !.slug = 2, !.hostnames = n] :
          n \in {<<>>, <<Name(0)>>, <<Name(1), [Name(1) EXCEPT !.port = TRUE]>>,
                 <<[Name(1) EXCEPT !.upper = TRUE]>>}}
  \cup {[Request EXCEPT !.route = "patchApp", !.header = t, !.app = a,
                        !.hostnames = n] :
          t \in Tenants, a \in {4, 99}, n \in HostLists}
  \cup {[Request EXCEPT !.route = "patchApp", !.header = t, !.app = 4,
                        !.hostnames = n, !.status = "disabled"] :
          t \in Tenants, n \in {<<>>, <<Name(2)>>}}
  \cup {[Request EXCEPT !.route = "patchApp", !.origin = TRUE]}
  \cup {[Request EXCEPT !.route = route, !.header = t, !.app = a] :
          route \in {"listApps", "getApp", "listPolicies", "getActivePolicy"},
          t \in Tenants, a \in {3, 4, 7, 99}}

PolicyRequests ==
  {[Request EXCEPT !.route = "createPolicy", !.header = t, !.app = a,
                   !.name = n] :
     t \in Tenants, a \in {3, 4}, n \in {1, 2}}
  \cup {[Request EXCEPT !.route = "patchPolicy", !.header = t, !.policy = p,
                        !.name = n, !.enabled = e, !.expected = x] :
          t \in Tenants, p \in {5, 7}, n \in {0, 1}, e \in {"kept", "no"},
          x \in {0, 5, 7, 8}}
  \cup {[Request EXCEPT !.route = route, !.header = t, !.policy = p] :
          route \in {"getPolicy", "publishPolicy"}, t \in Tenants,
          p \in {5, 6, 7, 99}}

GlobalRequests ==
  {[Request EXCEPT !.route = "createTenant", !.slug = 3]}
  \cup {[Request EXCEPT !.route = route, !.set = s, !.version = v] :
          route \in {"listManagedRuleVersions", "activateManagedRuleVersion"},
          s \in {1, 2, 99}, v \in {1, 99}}
  \cup {[Request EXCEPT !.route = "getGatewayPolicy", !.token = "gateway",
                        !.hostname = h] :
          h \in {Name(0), Name(1), Name(2), [Name(1) EXCEPT !.upper = TRUE],
                 [Name(1) EXCEPT !.port = TRUE]}}

MCRequests == Callers \cup Faulty \cup AppRequests \cup PolicyRequests
                \cup GlobalRequests

=============================================================================
