------------------------------ MODULE MCGateway ------------------------------
(* Small instances of Gateway for TLC. *)
EXTENDS Gateway, TLC

CONSTANTS w1, w2, h1, r1, r2, q1, q2

MCAnalysis == [q \in Requests |-> IF q = q1 THEN "clean" ELSE "blocked"]

\* "approve2" is another serialisation of the same semantic result.
MCMeaning  == [p \in Payloads |-> IF p = "approve2" THEN "approve" ELSE p]

MCPreparedBytes == [o \in Outcomes |-> 1]

Symmetry == Permutations(Workers) \cup Permutations(ReviewIds)
=============================================================================
