---------------------------- MODULE MCHumanGate ----------------------------
(***************************************************************************)
(* Instances of HumanGate for TLC: a gate node's gate, and a gate of the   *)
(* portal with a threshold of two approvals and one tolerated rejection.   *)
(***************************************************************************)
EXTENDS HumanGateInv

CONSTANTS g1, p1

OnlyNode == {g1}
OnlyPortal == {p1}
Two == {g1, p1}
NoGates == {}

One == [g \in Gates |-> IF g = g1 THEN 1 ELSE 2]
Tolerated == [g \in Gates |-> IF g = g1 THEN 0 ELSE 1]
=============================================================================
