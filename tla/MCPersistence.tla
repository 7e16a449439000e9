--------------------------- MODULE MCPersistence ----------------------------
(* Persistence on strings made of the parts "a" and "ab". *)
EXTENDS Persistence

CONSTANT MaxBatch  \* bound: values in one push

MCEmpty == ""
MCShorter == [part \in {"a", "ab"} |-> IF part = "ab" THEN {"a"} ELSE {}]

a == <<<<"a">>>>
ab == <<<<"ab">>>>
a_ab == <<<<"a">>, <<"ab">>>>  \* "a ab"

MCKeys == {a, ab}
MCFields == {ab}
MCPlainValues == {a, ab}
MCSpacedValues == {a, a_ab}
MCBatches == UNION {[1..n -> Values] : n \in 1..MaxBatch}
MCCounts == {1}
MCTTLs == {1}
=============================================================================
