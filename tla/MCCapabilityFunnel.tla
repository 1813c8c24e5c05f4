------------------------- MODULE MCCapabilityFunnel -------------------------
(***************************************************************************)
(* Instances of CapabilityFunnel for TLC.                                  *)
(***************************************************************************)
EXTENDS CapabilityFunnelProps, TLC

CONSTANTS c1, c2, r1

\* An enforced policy for every request.
Enforced(priority, action) ==
  [priority |-> priority, effect |-> "enforce", action |-> action,
   scope |-> "narrower", typed |-> FALSE, target |-> {r1}, agents |-> {r1}]

\* Two policies of which the one of the higher priority decides.
DenyOverAllow == {Enforced(1, "allow"), Enforced(2, "deny")}
Symmetry == Permutations(Callers)
TwoRanks == {1, 3}
=============================================================================
