----------------------------- MODULE MCDatabase -----------------------------
(* Database on a few keys, fields and values and on short lists. *)
EXTENDS Database

CONSTANTS
    MaxBatch,     \* bound: values in one push
    MaxDeadlines  \* bound: keys with a deadline

\* Without repetitions: a second push makes those.
MCBatches == UNION {{b \in [1..n -> Values] : IsInjective(b)} : n \in 1..MaxBatch}
MCCounts == {-1, 0, 1, 2}
MCTTLs == {1}
FewDeadlines == Cardinality(DOMAIN expirey_map) =< MaxDeadlines
Symmetry == Permutations(Keys) \cup Permutations(Values)
=============================================================================
