----------------------------- MODULE MCCpuUsage -----------------------------
(* CpuUsage with two threads: two scrapes at the same time, and two that   *)
(* settle what these did to the samples.                                   *)
EXTENDS CpuUsage, TLC

Symmetry == Permutations(Scrapers)
=============================================================================
