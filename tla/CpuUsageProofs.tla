--------------------------- MODULE CpuUsageProofs ---------------------------
(***************************************************************************)
(* A scrape that no other overlaps shows the CPU usage since the last one, *)
(* for any number of threads.                                              *)
(***************************************************************************)
EXTENDS CpuUsage, TLAPS

Samples == [cpuNow : Nat, wallNow : Nat, cpuDelta : Int, wallDelta : Int]

Places == {"outside", "wall", "cpu", "store_cpu", "store_wall", "return"}

Types ==
    /\ {lastCpuSeconds, lastWallSeconds, cpu} \subseteq Nat
    /\ wall \in Nat \ {0}
    /\ pc \in [Scrapers -> Places]
    /\ local \in [Scrapers -> Samples]
    /\ settled \in [cpu : Int, wall : Int]

\* No sample is newer than the clocks.
SamplesArePast ==
    /\ lastCpuSeconds =< cpu
    /\ \A s \in Scrapers :
        pc[s] # "outside" => local[s].cpuNow =< cpu /\ local[s].wallNow >= 1

\* A thread that nobody ran into is alone.
LoneIsAlone ==
    \A s \in Inside \ overlapped, t \in Inside : t = s

\* The last sample, once both of its parts are stored.
SettledIsLast ==
    settled # Unsettled =>
        /\ settled.wall >= 1
        /\ (\A s \in Scrapers : pc[s] # "store_wall") =>
              lastCpuSeconds = settled.cpu /\ lastWallSeconds = settled.wall

\* What a thread knows while it is alone.
Lone(s) ==
    LET m == local[s]
    IN  /\ pc[s] = "wall" => m.cpuDelta = 0
        /\ pc[s] \in {"wall", "cpu", "store_cpu"} => lastCpuSeconds =< m.cpuNow
        /\ pc[s] \in {"cpu", "store_cpu"} /\ settled # Unsettled =>
              m.wallDelta = m.wallNow - settled.wall
        /\ pc[s] = "store_cpu" /\ settled # Unsettled =>
              m.cpuDelta = m.cpuNow - settled.cpu
        /\ pc[s] = "store_wall" => lastCpuSeconds = m.cpuNow
        /\ pc[s] \in {"store_cpu", "store_wall", "return"} => m.cpuDelta >= 0

IInv ==
    /\ Types /\ SamplesArePast /\ LoneIsAlone /\ SettledIsLast
    /\ \A s \in Scrapers \ overlapped : Lone(s)
-----------------------------------------------------------------------------
\* Nobody samples yet.
LEMMA InitInv == Init => IInv
<1> SUFFICES ASSUME Init PROVE IInv
    OBVIOUS
<1> USE DEF Init
<1>1. Types
    BY DEF Types, Samples, Places, Sampled, Unsettled
<1>2. SamplesArePast /\ LoneIsAlone
    BY DEF SamplesArePast, LoneIsAlone, Inside
<1>3. SettledIsLast
    BY DEF SettledIsLast
<1>4. ASSUME NEW s \in Scrapers PROVE Lone(s)
    BY DEF Lone, Sampled
<1>5. QED
    BY <1>1, <1>2, <1>3, <1>4 DEF IInv

\* The clocks advance.
LEMMA TickInv == IInv /\ Tick => IInv'
<1> SUFFICES ASSUME IInv, Tick PROVE IInv'
    OBVIOUS
<1> USE DEF IInv, Tick, lastVars, historyVars
<1>1. Types' /\ cpu' >= cpu
    BY CpuUsageAssumption DEF Types
<1>2. SamplesArePast'
    <2>1. ASSUME NEW s \in Scrapers PROVE local[s].cpuNow \in Nat /\ local[s].wallNow \in Nat
        BY DEF Types, Samples
    <2>2. QED
        BY <1>1, <2>1 DEF SamplesArePast, Types
<1>3. LoneIsAlone' /\ SettledIsLast' /\ \A s \in Scrapers \ overlapped : Lone(s)'
    BY DEF LoneIsAlone, Inside, SettledIsLast, Lone
<1>4. QED
    BY <1>1, <1>2, <1>3

\* A step of one thread leaves the others' places and variables alone.
LEMMA Others ==
    ASSUME Types, NEW s \in Scrapers, getCpuUsagePercent(s), NEW t \in Scrapers \ {s}
    PROVE  pc'[t] = pc[t] /\ local'[t] = local[t]
BY DEF Types, getCpuUsagePercent, Sample, LoadWall, LoadCpu, StoreCpu, StoreWall, Return, Goto

\* A new thread is alone if nobody is inside, else all that are have been run
\* into.
LEMMA SampleInv == ASSUME IInv, NEW s \in Scrapers, Sample(s) PROVE IInv'
<1> USE DEF IInv, Sample, Goto, lastVars, clockVars
<1> DEFINE m == Sampled(cpu, wall)
<1>1. /\ cpu \in Nat /\ lastCpuSeconds \in Nat /\ wall \in Nat \ {0}
      /\ local'[s] = m /\ pc'[s] = "wall"
    BY DEF Types
<1>2. m \in Samples /\ m.cpuNow = cpu /\ m.wallNow = wall /\ m.cpuDelta = 0
    BY <1>1 DEF Samples, Sampled
<1> HIDE DEF m
<1>3. \A t \in Scrapers \ {s} : pc'[t] = pc[t] /\ local'[t] = local[t]
    BY DEF Types
<1>4. Types'
    BY <1>1, <1>2 DEF Types, Places, m
<1>5. SamplesArePast'
    <2>1. ASSUME NEW t \in Scrapers, pc'[t] # "outside"
          PROVE  local'[t].cpuNow =< cpu /\ local'[t].wallNow >= 1
        BY <1>1, <1>2, <1>3, <2>1 DEF SamplesArePast
    <2>2. QED
        BY <2>1 DEF SamplesArePast
<1>6. LoneIsAlone'
    BY <1>1, <1>3 DEF LoneIsAlone, Inside, Types
<1>7. SettledIsLast'
    BY <1>1, <1>3 DEF SettledIsLast, Types
<1>8. ASSUME NEW t \in Scrapers \ overlapped' PROVE Lone(t)'
    <2>1. CASE t = s
        BY <1>1, <1>2, <2>1 DEF Lone, SamplesArePast
    <2>2. CASE t # s
        BY <1>3, <2>2 DEF Lone
    <2>3. QED
        BY <2>1, <2>2
<1>9. QED
    BY <1>4, <1>5, <1>6, <1>7, <1>8

\* The steps of a thread that is inside.
LEMMA StepKeeps ==
    ASSUME IInv, NEW s \in Scrapers,
           LoadWall(s) \/ LoadCpu(s) \/ StoreCpu(s) \/ StoreWall(s) \/ Return(s)
    PROVE  /\ Types' /\ SamplesArePast' /\ LoneIsAlone'
           /\ \A t \in Scrapers \ {s} : pc'[t] = pc[t] /\ local'[t] = local[t]
           /\ s \in Inside /\ overlapped' = overlapped
           /\ local[s].cpuNow \in Nat /\ local[s].wallNow \in Nat
           /\ local'[s].cpuNow = local[s].cpuNow /\ local'[s].wallNow = local[s].wallNow
<1> USE DEF IInv, Goto, lastVars, clockVars, historyVars
<1>1. /\ pc \in [Scrapers -> Places] /\ local \in [Scrapers -> Samples]
      /\ local[s] \in Samples /\ {lastCpuSeconds, lastWallSeconds, cpu} \subseteq Nat
      /\ wall \in Nat \ {0} /\ settled \in [cpu : Int, wall : Int]
    BY DEF Types
<1>2. /\ local[s].cpuNow \in Nat /\ local[s].wallNow \in Nat
      /\ local[s].cpuDelta \in Int /\ local[s].wallDelta \in Int
    BY <1>1 DEF Samples
<1>3. \A t \in Scrapers \ {s} : pc'[t] = pc[t] /\ local'[t] = local[t]
    BY Others DEF getCpuUsagePercent
<1>4. s \in Inside
    BY DEF LoadWall, LoadCpu, StoreCpu, StoreWall, Return, Inside
<1>5. pc' \in [Scrapers -> Places] /\ Inside' \subseteq Inside
    BY <1>1, <1>3, <1>4
       DEF LoadWall, LoadCpu, StoreCpu, StoreWall, Return, Places, Inside
<1>6. /\ local' \in [Scrapers -> Samples]
      /\ local'[s].cpuNow = local[s].cpuNow /\ local'[s].wallNow = local[s].wallNow
    <2>1. CASE LoadWall(s)
        BY <1>1, <1>2, <2>1 DEF LoadWall, Samples
    <2>2. CASE LoadCpu(s)
        BY <1>1, <1>2, <2>2 DEF LoadCpu, Samples
    <2>3. CASE StoreCpu(s) \/ StoreWall(s) \/ Return(s)
        BY <1>1, <2>3 DEF StoreCpu, StoreWall, Return
    <2>4. QED
        BY <2>1, <2>2, <2>3
<1>7. overlapped' = overlapped /\ UNCHANGED <<cpu, wall>>
    BY DEF LoadWall, LoadCpu, StoreCpu, StoreWall, Return
<1>8. /\ {lastCpuSeconds', lastWallSeconds'} \subseteq Nat
      /\ settled' \in [cpu : Int, wall : Int] /\ lastCpuSeconds' =< cpu
    BY <1>1, <1>2, <1>4
       DEF LoadWall, LoadCpu, StoreCpu, StoreWall, Return, Unsettled, SamplesArePast, Inside
<1>9. Types'
    BY <1>1, <1>5, <1>6, <1>7, <1>8 DEF Types
<1>10. SamplesArePast'
    BY <1>3, <1>4, <1>6, <1>7, <1>8 DEF SamplesArePast, Inside
<1>11. LoneIsAlone'
    BY <1>5, <1>7 DEF LoneIsAlone
<1>12. QED
    BY <1>2, <1>3, <1>4, <1>6, <1>7, <1>9, <1>10, <1>11

\* What the other lone threads know stays, for there are none.
LEMMA StepKeepsOthers ==
    ASSUME IInv, NEW s \in Scrapers,
           LoadWall(s) \/ LoadCpu(s) \/ StoreCpu(s) \/ StoreWall(s) \/ Return(s),
           Lone(s)' \/ s \in overlapped
    PROVE  \A t \in Scrapers \ overlapped' : Lone(t)'
<1> SUFFICES ASSUME NEW t \in Scrapers \ overlapped', t # s PROVE Lone(t)'
    BY StepKeeps DEF IInv
<1>1. pc'[t] = pc[t] /\ pc[t] = "outside"
    BY StepKeeps DEF IInv, LoneIsAlone, Inside
<1>2. QED
    BY <1>1 DEF Lone

\* A step inside the sample, of a thread that is alone or of one that is not.
LEMMA StepInv ==
    ASSUME IInv, NEW s \in Scrapers,
           LoadWall(s) \/ LoadCpu(s) \/ StoreCpu(s) \/ StoreWall(s) \/ Return(s)
    PROVE  IInv'
<1> DEFINE m == local[s]
<1>1. /\ Types' /\ SamplesArePast' /\ LoneIsAlone'
      /\ \A t \in Scrapers \ {s} : pc'[t] = pc[t] /\ local'[t] = local[t]
      /\ s \in Inside /\ overlapped' = overlapped
      /\ m.cpuNow \in Nat /\ m.wallNow \in Nat
      /\ local'[s].cpuNow = m.cpuNow /\ local'[s].wallNow = m.wallNow
    BY StepKeeps
<1>2. /\ pc \in [Scrapers -> Places] /\ local \in [Scrapers -> Samples] /\ m \in Samples
      /\ {lastCpuSeconds, lastWallSeconds, cpu} \subseteq Nat
      /\ settled \in [cpu : Int, wall : Int]
      /\ SettledIsLast /\ SamplesArePast
      /\ s \notin overlapped => Lone(s)
    BY DEF IInv, Types
<1>3. s \notin overlapped => \A t \in Scrapers \ {s} : pc[t] = "outside"
    BY <1>1 DEF IInv, LoneIsAlone, Inside
<1> USE DEF Goto, lastVars, clockVars, historyVars
<1>4. CASE LoadWall(s)
    <2>1. SettledIsLast'
        BY <1>1, <1>2, <1>4 DEF LoadWall, SettledIsLast
    <2>2. Lone(s)' \/ s \in overlapped
        BY <1>1, <1>2, <1>3, <1>4 DEF LoadWall, Lone, SettledIsLast, Samples
    <2>3. QED
        BY <1>1, <1>4, <2>1, <2>2, StepKeepsOthers DEF IInv
<1>5. CASE LoadCpu(s)
    <2>1. SettledIsLast'
        BY <1>1, <1>2, <1>5 DEF LoadCpu, SettledIsLast
    <2>2. Lone(s)' \/ s \in overlapped
        BY <1>1, <1>2, <1>3, <1>5 DEF LoadCpu, Lone, SettledIsLast, Samples
    <2>3. QED
        BY <1>1, <1>5, <2>1, <2>2, StepKeepsOthers DEF IInv
<1>6. CASE StoreCpu(s)
    <2>1. SettledIsLast'
        BY <1>1, <1>2, <1>6 DEF StoreCpu, SettledIsLast
    <2>2. Lone(s)' \/ s \in overlapped
        BY <1>1, <1>2, <1>6 DEF StoreCpu, Lone
    <2>3. QED
        BY <1>1, <1>6, <2>1, <2>2, StepKeepsOthers DEF IInv
<1>7. CASE StoreWall(s)
    <2>1. SettledIsLast'
        <3>1. CASE s \in overlapped
            BY <1>7, <3>1 DEF StoreWall, SettledIsLast
        <3>2. CASE s \notin overlapped
            BY <1>1, <1>2, <1>7, <3>2
               DEF StoreWall, SettledIsLast, Lone, SamplesArePast, Inside
        <3>3. QED
            BY <3>1, <3>2
    <2>2. Lone(s)' \/ s \in overlapped
        BY <1>1, <1>2, <1>7 DEF StoreWall, Lone
    <2>3. QED
        BY <1>1, <1>7, <2>1, <2>2, StepKeepsOthers DEF IInv
<1>8. CASE Return(s)
    <2>1. SettledIsLast'
        BY <1>1, <1>2, <1>8 DEF Return, SettledIsLast
    <2>2. Lone(s)' \/ s \in overlapped
        BY <1>1, <1>2, <1>8 DEF Return, Lone
    <2>3. QED
        BY <1>1, <1>8, <2>1, <2>2, StepKeepsOthers DEF IInv
<1>9. QED
    BY <1>4, <1>5, <1>6, <1>7, <1>8

\* A scrape that no other runs into shows the usage since the last one.
THEOREM LoneScrapes == Spec => []LoneScrapesShowUsage
<1>1. Init => IInv
    BY InitInv
<1>2. IInv /\ [Next]_vars => IInv'
    <2> SUFFICES ASSUME IInv, [Next]_vars PROVE IInv'
        OBVIOUS
    <2>1. CASE Tick
        BY <2>1, TickInv
    <2>2. ASSUME NEW s \in Scrapers, getCpuUsagePercent(s) PROVE IInv'
        BY <2>2, SampleInv, StepInv DEF getCpuUsagePercent
    <2>3. CASE UNCHANGED vars
        BY <2>3 DEF vars, lastVars, clockVars, historyVars, IInv, Types, SamplesArePast,
                    LoneIsAlone, Inside, SettledIsLast, Lone
    <2>4. QED
        BY <2>1, <2>2, <2>3 DEF Next
<1>3. IInv => LoneScrapesShowUsage
    BY DEF IInv, Lone, LoneScrapesShowUsage, UsageIsNotNegative
<1>4. QED
    BY <1>1, <1>2, <1>3, PTL DEF Spec
=============================================================================
