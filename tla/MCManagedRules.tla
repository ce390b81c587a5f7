--------------------------- MODULE MCManagedRules ---------------------------
(***************************************************************************)
(* TLC instance of ManagedRules: two directories that may share a name or  *)
(* lack one, and two workers.                                              *)
(***************************************************************************)
EXTENDS ManagedRules

Meta(n, v) == [name |-> n, version |-> v]

MCMetadata == {Meta("crs", "1"), Meta("crs", "2"), Meta("bots", "1"), Meta("", "1")}

MCDisks == {<<[meta |-> Meta("crs", "1"), files |-> "x"],
              [meta |-> m, files |-> "y"]>> : m \in MCMetadata \ {Meta("", "1")}}

=============================================================================
