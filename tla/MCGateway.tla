----------------------------- MODULE MCGateway ------------------------------
(***************************************************************************)
(* TLC instances of Gateway: every policy with up to two custom rules and  *)
(* one rate limit, or two rate limits and one custom rule.                 *)
(***************************************************************************)
EXTENDS Gateway

UpTo(n, S) == UNION {[1 .. k -> S] : k \in 0 .. n}

Limits == {[action |-> "count", status |-> 429],
           [action |-> "block", status |-> 429],
           [action |-> "block", status |-> 0]}

Rules == {[action |-> "count", terminal |-> FALSE, status |-> 0],
          [action |-> "block", terminal |-> FALSE, status |-> 403],
          [action |-> "block", terminal |-> FALSE, status |-> 99],
          [action |-> "block", terminal |-> FALSE, status |-> 103],
          [action |-> "allow", terminal |-> FALSE, status |-> 0],
          [action |-> "allow", terminal |-> TRUE, status |-> 0]}

AppsWith(limits, rules) ==
  [mode : {"count", "block"}, default : {"allow", "block"},
   allowlist : BOOLEAN, rateLimits : limits, custom : rules]

MCApps == AppsWith(UpTo(1, Limits), UpTo(2, Rules))
            \cup AppsWith(UpTo(2, Limits), UpTo(1, Rules))

=============================================================================
