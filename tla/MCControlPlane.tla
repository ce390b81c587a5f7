--------------------------- MODULE MCControlPlane ---------------------------
(***************************************************************************)
(* TLC instance of ControlPlane: two policies of one app.                  *)
(***************************************************************************)
EXTENDS ControlPlane, TLC

OneApp == [p \in Policies |-> CHOOSE a \in Apps : TRUE]

CallSymmetry == Permutations(Calls) \cup Permutations(Policies)

=============================================================================
