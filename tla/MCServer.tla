------------------------------ MODULE MCServer ------------------------------
(* Server with a few connections: more of them than there are descriptors  *)
(* for, and batches that do not hold all that is ready.  They are opened   *)
(* in a fixed order, which loses nothing: until then they are              *)
(* interchangeable.                                                        *)
EXTENDS Server

CONSTANTS c1, c2, c3

Opened(c) == link[c] # "new"

MCNext == Next /\ (Opened(c2)' => Opened(c1)') /\ (Opened(c3)' => Opened(c2)')

MCSpec == Init /\ [][MCNext]_serverVars /\ Fairness
=============================================================================
