----------------------------- MODULE MCScrapes -----------------------------
(* Scrapes with two HTTP threads beside a loop that runs a few commands: a *)
(* read that may count twice, a write and one that has no name.            *)
EXTENDS Scrapes

MCCommands == {"LINDEX", "SET", NoName}
Symmetry == Permutations(Scrapers)
=============================================================================
