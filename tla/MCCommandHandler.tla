-------------------------- MODULE MCCommandHandler --------------------------
(* CommandHandler on one or two keys and an empty and a non-empty string. *)
EXTENDS CommandHandler

MCBatches == [1..1 -> Values]
MCCounts == {-1, 1}
MCTTLs == {1}
MCIndexes == {-1, 0, 1}
Symmetry == Permutations(Keys)
MCUnknownNames == {NoName, "HELLO"}
=============================================================================
