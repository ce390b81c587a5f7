----------------------------- MODULE ApiRequest -----------------------------
(***************************************************************************)
(* What every admin handler of the control API does before anything else   *)
(* (httpapi/server.go, auth/auth.go): check the bearer token and find out  *)
(* which tenant the request is about.                                      *)
(*                                                                         *)
(* Texts are numbers in the order of the strings they stand for; 0 is the  *)
(* empty string.  A text in a request may have spaces around it.           *)
(***************************************************************************)
EXTENDS Naturals

Raw(texts) == [text : texts, padded : BOOLEAN]

(* strings.TrimSpace *)
TrimSpace(raw) == raw.text

Empty(raw) == raw = [text |-> 0, padded |-> FALSE]

(* The tokens the control API is started with: main refuses to start       *)
(* without them, so neither is empty.                                      *)
Tokens == {"admin", "gateway", "none"}

(* StaticBearer.Authorized *)
Authorized(token, key) == token = key

(* requireTenant: header and query name different tenants ... *)
TenantConflict(r) ==
  /\ TrimSpace(r.header) # 0 /\ TrimSpace(r.query) # 0
  /\ TrimSpace(r.header) # TrimSpace(r.query)

(* ... or else the header counts before the query, ... *)
TenantOf(r) ==
  IF TrimSpace(r.header) # 0 THEN TrimSpace(r.header) ELSE TrimSpace(r.query)

(* Mutant: only an empty tenant is refused, not a blank one. *)
TenantGivenUntrimmed(r) == ~ Empty(r.header) \/ ~ Empty(r.query)

(* ... and one of them has to be given. *)
TenantGiven(r) == TenantOf(r) # 0

(* The status with which requireAuth and requireTenant answer for the      *)
(* handler; 0 lets the request through.                                    *)
Refusal(r) ==
  CASE ~ Authorized(r.token, "admin") -> 401
    [] Authorized(r.token, "admin") /\ (TenantConflict(r) \/ ~ TenantGiven(r)) ->
         400
    [] OTHER -> 0

=============================================================================
