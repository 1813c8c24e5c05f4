---------------------------- MODULE MCDagEngine ----------------------------
(* Graphs for model checking the DAG engine. *)
EXTENDS DagEngineInv

CONSTANTS a, b, c, d

\* a precedes b and c, which precede d; a also precedes d directly.
DiamondEdges == {<<a, b>>, <<a, c>>, <<b, d>>, <<c, d>>, <<a, d>>}

\* b and c follow a, independently of each other.
ForkEdges == {<<a, b>>, <<a, c>>}

ChainEdges == {<<a, b>>}

NoGuards      == {}
GuardIntoC    == {<<a, c>>}
GuardIntoB    == {<<a, b>>}

RetryA        == [n \in Nodes |-> IF n = a THEN 1 ELSE 0]
RetryABD      == [n \in Nodes |-> CASE n = a -> 2 [] n \in {b, d} -> 1 [] OTHER -> 0]
=============================================================================
