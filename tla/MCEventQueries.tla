--------------------------- MODULE MCEventQueries ---------------------------
(***************************************************************************)
(* TLC instance of EventQueries: nine events, of two tenants and of none,  *)
(* in three milliseconds, pages of two to four, one event too long to be   *)
(* scanned; answers are cut after, in and before the end of a line.        *)
(***************************************************************************)
EXTENDS EventQueries

Event == [request_id |-> 1, at |-> 2, tenant_id |-> 1, app_id |-> 1,
          policy_id |-> 1, client_ip |-> 1, matched_rule_id |-> 1,
          path |-> 1, would_block |-> TRUE, size |-> 2]

MCEvents ==
  {Event,
   [Event EXCEPT !.request_id = 2, !.at = 3, !.path = 2, !.client_ip = 2,
                 !.size = 3],
   [Event EXCEPT !.request_id = 3, !.at = 4, !.path = 2, !.client_ip = 0],
   [Event EXCEPT !.request_id = 4, !.at = 5, !.matched_rule_id = 0, !.path = 0],
   [Event EXCEPT !.request_id = 5, !.at = 6, !.would_block = FALSE, !.size = 3],
   [Event EXCEPT !.request_id = 6, !.at = 6, !.matched_rule_id = 2,
                 !.policy_id = 2, !.app_id = 2, !.size = 4],
   [Event EXCEPT !.request_id = 7, !.at = 5, !.tenant_id = 2],
   [Event EXCEPT !.request_id = 9, !.at = 4, !.tenant_id = 0, !.policy_id = 0,
                 !.app_id = 0, !.would_block = FALSE],
   [Event EXCEPT !.request_id = 8, !.at = 5, !.matched_rule_id = 9]}

Plain(n) == [text |-> n, padded |-> FALSE]
Padded(n) == [text |-> n, padded |-> TRUE]

Request == [kind |-> "list", token |-> "admin", header |-> Plain(1),
            query |-> Plain(0), id |-> Plain(1), from |-> 0, to |-> 0,
            limit |-> -1, columns |-> [c \in Columns |-> Plain(0)]]

(* Whom a request is from and about. *)
Callers ==
  {[Request EXCEPT !.kind = k, !.token = t, !.header = h, !.query = q] :
     k \in {"list", "detail", "summary"}, t \in {"admin", "gateway"},
     h \in {Plain(0), Padded(0), Padded(1), Plain(2)},
     q \in {Plain(0), Padded(0), Plain(1)}}

(* What it asks for. *)
Searches ==
  {[Request EXCEPT !.from = f, !.to = t, !.limit = n] :
     f \in {-1, 0, 3, 4}, t \in {0, 3, 4, 5}, n \in {-1, 0, 1, 4, 5}}
  \cup {[Request EXCEPT !.columns[c] = v] :
          c \in Columns, v \in {Padded(0), Padded(1), Plain(2)}}

Summaries ==
  {[Request EXCEPT !.kind = "summary", !.id = i, !.from = f, !.to = t] :
     i \in {Padded(0), Padded(1), Plain(2)}, f \in {0, 3, 4}, t \in {-1, 0, 3, 5}}

Details == {[Request EXCEPT !.kind = "detail", !.id = i] :
              i \in {Padded(0), Padded(2), Plain(6), Plain(7)}}

MCRequests == Callers \cup Searches \cup Summaries \cup Details

=============================================================================
