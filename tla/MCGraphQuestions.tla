--------------------------- MODULE MCGraphQuestions ---------------------------
(* Every graph over four nodes of at most MaxEdges edges in which one node may  *)
(* refer to itself and another may be of any kind.                              *)
EXTENDS GraphQuestions

CONSTANT MaxEdges

MCPairs == {<<a, b>> \in (1 .. 4) \X (1 .. 4) : a # b} \cup {<<2, 2>>}
MCEdges == UNION {kSubset(k, MCPairs) : k \in 0 .. MaxEdges}
MCKinds == {[n \in 1 .. 4 |-> IF n = 3 THEN kind ELSE "declaration"] : kind \in Kinds}

MCRepositories ==
  {r \in [edges : MCEdges, kind : MCKinds] : \A e \in r.edges : r.kind[e[2]] # "route"}
=============================================================================
