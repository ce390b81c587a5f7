-------------------------- MODULE MCPolicyProvider --------------------------
(***************************************************************************)
(* TLC instance of PolicyProvider: two spellings of one host and one name  *)
(* that normalises to "".                                                  *)
(***************************************************************************)
EXTENDS PolicyProvider

CONSTANT h1

OneHostNames == {"example.local", "Example.Local:443", ""}
OneHostNormalize ==
  [n \in OneHostNames |-> IF n = "" THEN NoHost ELSE h1]

=============================================================================
