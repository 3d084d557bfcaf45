--------------------------- MODULE MCReviewService ---------------------------
(* Small instances of ReviewService for TLC. *)
EXTENDS ReviewService, TLC

CONSTANTS c1, c2, c3, r1, r2, q1, q2, q3

\* q1's head is clean, q2's carries a deterministic blocker, q3's cannot be read whole.
MCAnalysis == [q \in Requests |-> CASE q = q1 -> "clean" [] q = q2 -> "blocked"
                                    [] q = q3 -> "flawed"]

MCMeaning  == [p \in Payloads |-> p]

\* A clean preparation fits with its verdict and then fills most of the store, a
\* blocked one leaves no room for a verdict, a flawed one is too large to prepare.
MCPreparedBytes == [degraded |-> 1, clean |-> 2, blocked |-> 3, flawed |-> 4]

Symmetry == Permutations(Callers) \cup Permutations(ReviewIds)
=============================================================================
