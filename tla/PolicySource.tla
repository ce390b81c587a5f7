---------------------------- MODULE PolicySource ----------------------------
(***************************************************************************)
(* What the control API is to a gateway, without calls, transactions and   *)
(* failures: for each policy a version that goes up by one with every      *)
(* publication, and whether the policy is enabled.  ControlPlane           *)
(* implements it; the environment of PolicyProvider is an instance of it,  *)
(* with one policy for each host.                                          *)
(***************************************************************************)
EXTENDS Naturals

CONSTANT Policies

VARIABLES version,  \* the deployed version, 0 if there is none
          enabled   \* whether a gateway is told about it

sourceVars == <<version, enabled>>

SourceInit ==
  /\ version = [p \in Policies |-> 0]
  /\ enabled = [p \in Policies |-> FALSE]

Publish(p) ==
  /\ version' = [version EXCEPT ![p] = @ + 1]
  /\ UNCHANGED enabled

Toggle(p) ==
  /\ enabled' = [enabled EXCEPT ![p] = ~ @]
  /\ UNCHANGED version

SourceNext == \E p \in Policies : Publish(p) \/ Toggle(p)

SourceSpec == SourceInit /\ [][SourceNext]_sourceVars

=============================================================================
