------------------------------ MODULE CpuUsage ------------------------------
(***************************************************************************)
(* Metrics::getCpuUsagePercent: the use of the CPU since the last scrape,  *)
(* from a sample that all threads of the HTTP server keep in two plain     *)
(* doubles.  Their race is undefined behaviour; the model takes each load  *)
(* and store of one as a step, as they come out on the machines it is      *)
(* built for.  The two clocks are sampled together.                        *)
(***************************************************************************)
EXTENDS Integers

CONSTANTS
    Scrapers,   \* threads of the HTTP server
    Cores,      \* CPU time that may pass in one tick of the clock
    MaxScrapes, \* bound: scrapes started
    MaxWall     \* bound: the clock stops here

ASSUME CpuUsageAssumption == {Cores, MaxScrapes, MaxWall} \subseteq Nat

VARIABLES
    lastCpuSeconds, lastWallSeconds,
    cpu, wall,   \* CPU time of the process and steady_clock, never 0
    pc,          \* where each thread is
    local,       \* its variables
    scrapes,     \* scrapes begun
    overlapped,  \* history: threads that another ran into
    settled      \* history: the last sample, if its thread was alone

lastVars == <<lastCpuSeconds, lastWallSeconds>>
clockVars == <<cpu, wall>>
historyVars == <<overlapped, settled>>
vars == <<lastVars, clockVars, pc, local, scrapes, historyVars>>

Sampled(cpuNow, wallNow) ==
    [cpuNow |-> cpuNow, wallNow |-> wallNow, cpuDelta |-> 0, wallDelta |-> 0]
Unsettled == [cpu |-> -1, wall |-> -1]

Init ==
    /\ lastCpuSeconds = 0 /\ lastWallSeconds = 0
    /\ cpu = 0 /\ wall = 1
    /\ pc = [s \in Scrapers |-> "outside"]
    /\ local = [s \in Scrapers |-> Sampled(0, 0)]
    /\ scrapes = 0
    /\ overlapped = {} /\ settled = Unsettled

Goto(s, from, to) == pc[s] = from /\ pc' = [pc EXCEPT ![s] = to]
Inside == {s \in Scrapers : pc[s] # "outside"}

Sample(s) ==
    /\ scrapes < MaxScrapes
    /\ scrapes' = scrapes + 1
    /\ Goto(s, "outside", "wall")
    /\ local' = [local EXCEPT ![s] = Sampled(cpu, wall)]
    /\ overlapped' = IF Inside = {} THEN overlapped \ {s} ELSE overlapped \cup Inside \cup {s}
    /\ UNCHANGED <<lastVars, clockVars, settled>>

\* The first scrape of all has nothing to compare with and returns 0.
LoadWall(s) ==
    /\ IF lastWallSeconds = 0
       THEN Goto(s, "wall", "store_cpu") /\ UNCHANGED local
       ELSE /\ Goto(s, "wall", "cpu")
            /\ local' = [local EXCEPT ![s].wallDelta = local[s].wallNow - lastWallSeconds]
    /\ UNCHANGED <<lastVars, clockVars, scrapes, historyVars>>

LoadCpu(s) ==
    /\ Goto(s, "cpu", "store_cpu")
    /\ local' = [local EXCEPT ![s].cpuDelta = local[s].cpuNow - lastCpuSeconds]
    /\ UNCHANGED <<lastVars, clockVars, scrapes, historyVars>>

\* A slip: only the clock of the last sample kept.
StoreCpu_Not(s) ==
    /\ Goto(s, "store_cpu", "store_wall")
    /\ UNCHANGED <<lastVars, clockVars, local, scrapes, historyVars>>

StoreCpu(s) ==
    /\ Goto(s, "store_cpu", "store_wall")
    /\ lastCpuSeconds' = local[s].cpuNow
    /\ UNCHANGED <<lastWallSeconds, clockVars, local, scrapes, historyVars>>

StoreWall(s) ==
    /\ Goto(s, "store_wall", "return")
    /\ lastWallSeconds' = local[s].wallNow
    /\ settled' = IF s \in overlapped THEN Unsettled
                  ELSE [cpu |-> local[s].cpuNow, wall |-> local[s].wallNow]
    /\ UNCHANGED <<lastCpuSeconds, clockVars, local, scrapes, overlapped>>

Return(s) ==
    /\ Goto(s, "return", "outside")
    /\ UNCHANGED <<lastVars, clockVars, local, scrapes, historyVars>>

getCpuUsagePercent(s) ==
    \/ Sample(s) \/ LoadWall(s) \/ LoadCpu(s) \/ StoreCpu(s) \/ StoreWall(s) \/ Return(s)

Tick ==
    /\ wall < MaxWall
    /\ wall' = wall + 1
    /\ cpu' \in cpu..(cpu + Cores)
    /\ UNCHANGED <<lastVars, pc, local, scrapes, historyVars>>

Next == Tick \/ \E s \in Scrapers : getCpuUsagePercent(s)

Spec == Init /\ [][Next]_vars
-----------------------------------------------------------------------------
(* Properties. *)

\* Metrics.cpp: "Process CPU usage in percentage".  The quotient is not
\* negative.
UsageIsNotNegative(s) ==
    pc[s] = "return" /\ local[s].wallDelta > 0 => local[s].cpuDelta >= 0

\* A scrape that no other runs into shows a usage of 0 or more, whatever those
\* before it did to each other's samples; if the scrape before was alone too,
\* it shows the use since then.
LoneScrapesShowUsage ==
    \A s \in Scrapers \ overlapped :
        /\ UsageIsNotNegative(s)
        /\ pc[s] = "store_cpu" /\ settled # Unsettled =>
              /\ local[s].cpuDelta = local[s].cpuNow - settled.cpu
              /\ local[s].wallDelta = local[s].wallNow - settled.wall
=============================================================================
