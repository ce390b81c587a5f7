--------------------------- MODULE MCPolicyRules ----------------------------
(***************************************************************************)
(* TLC instance of PolicyRules: families of drafts that each vary one      *)
(* aspect, conditions up to depth three, and files of up to two apps.      *)
(***************************************************************************)
EXTENDS PolicyRules

Node == [all |-> <<>>, any |-> <<>>, path |-> "", header |-> <<>>,
         inSet |-> "", notInSet |-> ""]

AtPath == [Node EXCEPT !.path = "/a"]
InCorp == [Node EXCEPT !.inSet = "corp"]
NotInCorp == [Node EXCEPT !.notInSet = "corp"]
WithHeader == [Node EXCEPT !.header = <<"x-a", "v">>]

Leaves == {Node, AtPath, InCorp, NotInCorp, WithHeader,
           [Node EXCEPT !.header = <<" ", "v">>],
           [Node EXCEPT !.header = <<"x-a", "">>],
           [AtPath EXCEPT !.inSet = "corp"]}

Trees == {[Node EXCEPT !.all = <<AtPath, l>>] : l \in Leaves}
           \cup {[Node EXCEPT !.any = <<WithHeader, l>>] : l \in Leaves}
           \cup {[Node EXCEPT !.all = <<AtPath>>, !.any = <<WithHeader>>]}

MCConditions ==
  Leaves \cup Trees \cup {[Node EXCEPT !.any = <<InCorp, t>>] : t \in Trees}

MCDepth == [c \in MCConditions |-> IF c \in Leaves THEN 0
                                   ELSE IF c \in Trees THEN 1 ELSE 2]

Rule == [id |-> "r1", name |-> "n", action |-> "block", status |-> 0,
         priority |-> 1, enabled |-> TRUE, terminal |-> FALSE, typed |-> TRUE,
         when |-> AtPath]

Limit == [id |-> "l1", name |-> "n", action |-> "block", status |-> 0,
          priority |-> 1, enabled |-> TRUE, typed |-> TRUE, when |-> Node,
          limit |-> 1, keyType |-> "ip", keyHeader |-> ""]

Corp == [n \in {"corp"} |-> {"net"}]

Base == [mode |-> "", rules |-> {"block"}, blocklist |-> {"net"},
         sets |-> Corp, custom |-> <<Rule>>, limits |-> <<Limit>>]

(* One rule with one aspect varied. *)
OddRules == {[Rule EXCEPT !.when = c] : c \in MCConditions}
              \cup {[Rule EXCEPT !.id = x] : x \in {"", " "}}
              \cup {[Rule EXCEPT !.name = x] : x \in {"", " "}}
              \cup {[Rule EXCEPT !.status = x] : x \in {-1, 999, 1000}}
              \cup {[Rule EXCEPT !.action = "rate_limit"],
                    [Rule EXCEPT !.typed = FALSE]}

OddLimits == {[Limit EXCEPT !.when = c] : c \in Leaves \cup Trees}
               \cup {[Limit EXCEPT !.keyType = "header", !.keyHeader = x] :
                       x \in {"", " ", "x-a"}}
               \cup {[Limit EXCEPT !.limit = 0], [Limit EXCEPT !.keyType = "user"],
                     [Limit EXCEPT !.status = 1000], [Limit EXCEPT !.typed = FALSE],
                     [Limit EXCEPT !.action = "allow"], [Limit EXCEPT !.id = ""]}

(* Two rules that may tie, in either order of priority. *)
Second == [Rule EXCEPT !.id = "r2", !.terminal = TRUE]

Pairs ==
  {<<[Rule EXCEPT !.action = a, !.when = c, !.terminal = TRUE],
     [Second EXCEPT !.action = b, !.priority = p]>> :
     a \in {"count", "allow"}, b \in {"allow", "block", "count"},
     c \in {AtPath, InCorp}, p \in 0 .. 2}
  \cup {<<[Rule EXCEPT !.action = "allow"], [Second EXCEPT !.enabled = e]>> :
          e \in BOOLEAN}
  \cup {<<Rule, Rule>>}

LimitPairs ==
  {<<[Limit EXCEPT !.when = c],
     [Limit EXCEPT !.id = "l2", !.priority = p, !.enabled = e]>> :
     c \in {Node, InCorp}, p \in 0 .. 2, e \in BOOLEAN}
  \cup {<<Limit, Limit>>}

MCDrafts ==
  {[Base EXCEPT !.mode = m] : m \in {"", "count", "block", "log"}}
    \cup {[Base EXCEPT !.custom = <<r>>] : r \in OddRules}
    \cup {[Base EXCEPT !.limits = <<l>>] : l \in OddLimits}
    \cup {[Base EXCEPT !.custom = p] : p \in Pairs}
    \cup {[Base EXCEPT !.limits = p] : p \in LimitPairs}
    \cup {[Base EXCEPT !.sets = [n \in {x, "corp"} |-> {y}]] :
            x \in {" ", "home"}, y \in {"net", " net", "bad"}}
    \cup {[Base EXCEPT !.blocklist = {" net"}], [Base EXCEPT !.rules = {"deny"}]}

MCFirstDrafts == {[Base EXCEPT !.mode = "count"]}

Host(n, u, p) == [name |-> n, upper |-> u, port |-> p]

FileApp(hosts, m, d, draft) ==
  [id |-> "app", origin |-> "url", mode |-> m, default |-> d,
   blocklist |-> draft.blocklist, allowlist |-> {" net"}, sets |-> draft.sets, custom |-> draft.custom, limits |-> draft.limits,
   hosts |-> hosts]

HostSets == {{}, {Host("a", FALSE, FALSE)}, {Host("a", TRUE, FALSE)},
             {Host("b", FALSE, TRUE)},
             {Host("a", FALSE, FALSE), Host("a", FALSE, TRUE)},
             {Host("a", TRUE, TRUE), Host("b", FALSE, FALSE)}}

Sparse == [Base EXCEPT !.custom = <<[Rule EXCEPT !.action = ""]>>,
                       !.limits = <<[Limit EXCEPT !.id = "", !.keyType = "",
                                                  !.action = ""]>>,
                       !.blocklist = {" net"}]

(* One app with one aspect varied. *)
OddApps ==
  LET app == FileApp({Host("a", FALSE, FALSE)}, "", "", Base)
  IN  {[app EXCEPT !.id = ""]}
        \cup {[app EXCEPT !.origin = x] : x \in {"", "bad"}}
        \cup {[app EXCEPT !.allowlist = {x}] : x \in {"net", "bad"}}

MCConfigs ==
  {[remote |-> TRUE, apps |-> <<>>], [remote |-> FALSE, apps |-> <<>>]}
    \cup {[remote |-> TRUE,
           apps |-> <<FileApp({Host("a", FALSE, FALSE)}, m, "", Base)>>] :
            m \in {"", "log"}}
    \cup {[remote |-> FALSE,
           apps |-> <<FileApp(x, m, "", Base), FileApp(y, "block", "allow", d)>>] :
            x \in HostSets, y \in HostSets, m \in {"", "count", "log"},
            d \in {Base, Sparse}}
    \cup {[remote |-> FALSE, apps |-> <<FileApp(x, "", "block", d)>>] :
            x \in {{Host("a", TRUE, TRUE)}}, d \in MCDrafts}
    \cup {[remote |-> r, apps |-> <<app>>] : r \in BOOLEAN, app \in OddApps}

MCRequests ==
  [path : {"/a", "/b"}, headers : {{}, {<<"X-A", "v">>}},
   address : {"net", "elsewhere"}]

=============================================================================
