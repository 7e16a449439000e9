--------------------------- MODULE ScrapesProofs ----------------------------
(***************************************************************************)
(* What a scrape shows adds up, for any number of threads, commands and    *)
(* buckets.                                                                *)
(***************************************************************************)
EXTENDS Scrapes, FiniteSetTheorems, TLAPS

Histograms == [count : Nat, buckets : [Buckets -> Nat]]

Places ==
    {"idle", "failure", "success", "total", "total_success", "total_failure",
     "read", "write", "lock", "histograms"}

Metric ==
    [failure : Nat, success : Nat, total : Nat, read : Nat, write : Nat,
     histograms : [Commands -> Histograms]]

CounterTypes ==
    /\ totalSuccessCommands \in Nat
    /\ totalFailureCommands \in Nat
    /\ read_commands_total \in Nat
    /\ write_commands_total \in Nat
    /\ others \in Nat

LatencyTypes ==
    /\ latency_by_command \in [Commands -> Histograms]
    /\ slot \in Nat
    /\ bucket \in 1..(BUCKET_COUNT + 1)
    /\ loop # "idle" => cmd \in Commands

ScrapeTypes ==
    /\ pc \in [Scrapers -> Places]
    /\ shown \in [Scrapers -> Metric]

\* The kind of a command is counted before its outcome.
KindsFirst ==
    totalSuccessCommands + totalFailureCommands + (IF loop = "total" THEN 1 ELSE 0)
        =< read_commands_total + write_commands_total + others

\* What a thread has loaded was reached by the counters before.
Loaded(s) ==
    LET m == shown[s]
    IN  /\ pc[s] \notin {"idle", "failure"} => m.failure =< totalFailureCommands
        /\ pc[s] \notin {"idle", "failure", "success"} => m.success =< totalSuccessCommands
        /\ pc[s] = "total_success" => m.failure =< m.total /\ m.total =< totalFailureCommands
        /\ pc[s] = "total_failure" => m.success =< m.total /\ m.total =< totalSuccessCommands
        /\ TotalLoaded(s) => m.failure + m.success =< m.total
        /\ pc[s] = "read" =>
              m.total =< read_commands_total + write_commands_total + others
        /\ pc[s] = "write" => m.total =< m.read + write_commands_total + others
        /\ Ended(s) => m.total =< m.read + m.write + others

CountersInv == CounterTypes /\ ScrapeTypes /\ KindsFirst /\ \A s \in Scrapers : Loaded(s)

\* The mutex is the loop's while it observes, and a thread's while it prints.
Exclusion ==
    /\ latency_mutex = "loop" <=> loop \in {"observe", "buckets"}
    /\ \A s \in Scrapers : pc[s] = "histograms" => latency_mutex = s

\* What the observation in progress has still to add to a bucket.
Due(c, b) ==
    IF loop = "buckets" /\ c = cmd /\ bucket =< b /\ slot =< b THEN 1 ELSE 0

\* Once the observation in progress is made, each bucket of a histogram
\* includes the one before it and none holds more than all.
Cumulative ==
    \A c \in Commands, b \in Buckets :
        LET h == latency_by_command[c]
        IN  /\ h.buckets[b] + Due(c, b) =< h.count
            /\ b > 1 => h.buckets[b - 1] + Due(c, b - 1) =< h.buckets[b] + Due(c, b)

LatencyInv ==
    /\ LatencyTypes
    /\ Exclusion
    /\ loop # "buckets" => bucket = 1
    /\ Cumulative

\* Every histogram that was printed is whole.
PrintedWhole ==
    \A s \in Scrapers, c \in Commands, b \in Buckets :
        LET h == shown[s].histograms[c]
        IN  /\ h.buckets[b] =< h.count
            /\ b > 1 => h.buckets[b - 1] =< h.buckets[b]

IInv == CountersInv /\ LatencyInv /\ PrintedWhole
-----------------------------------------------------------------------------
\* Before the first command and the first scrape nothing is counted or loaded.
LEMMA CountersInit == Init => CountersInv
<1> SUFFICES ASSUME Init PROVE CountersInv
    OBVIOUS
<1> USE DEF Init
<1>1. Nothing \in Metric
    BY DEF Nothing, Metric, NoLatencies, Histograms
<1>2. CounterTypes /\ ScrapeTypes /\ KindsFirst
    BY <1>1 DEF CounterTypes, ScrapeTypes, Places, KindsFirst
<1>3. ASSUME NEW s \in Scrapers PROVE Loaded(s)
    BY DEF Loaded, Nothing, TotalLoaded, Ended
<1>4. QED
    BY <1>2, <1>3 DEF CountersInv

\* The loop only adds to the counters, the kind before the outcome.
LEMMA LoopCounts ==
    ASSUME CountersInv, Loop
    PROVE  /\ CounterTypes' /\ KindsFirst'
           /\ totalSuccessCommands' >= totalSuccessCommands
           /\ totalFailureCommands' >= totalFailureCommands
           /\ read_commands_total' >= read_commands_total
           /\ write_commands_total' >= write_commands_total
           /\ others' >= others
<1> USE DEF CountersInv, CounterTypes, KindsFirst, counterVars
<1>1. CASE Execute
    BY <1>1 DEF Execute, AfterIncrements
<1>2. CASE recordReadWrite
    BY <1>2 DEF recordReadWrite
<1>3. CASE IncrementTotal
    BY <1>3 DEF IncrementTotal, AfterIncrements
<1>4. CASE SkipLatency \/ LockLatencies \/ ObserveCount \/ ObserveBucket \/ UnlockLatencies
    BY <1>4 DEF SkipLatency, LockLatencies, ObserveCount, ObserveBucket, UnlockLatencies
<1>5. QED
    BY <1>1, <1>2, <1>3, <1>4 DEF Loop

\* The loop leaves what a scrape has loaded alone.
LEMMA LoopKeepsScrapes == Loop => UNCHANGED <<pc, shown>>
BY DEF Loop, Execute, recordReadWrite, IncrementTotal, SkipLatency, LockLatencies,
       ObserveCount, ObserveBucket, UnlockLatencies, scrapeVars

\* What was loaded stays reached while the counters grow.
LEMMA LoopKeepsLoaded ==
    ASSUME CountersInv, Loop, NEW s \in Scrapers
    PROVE  Loaded(s)'
<1>1. UNCHANGED <<pc, shown>>
    BY LoopKeepsScrapes
<1>2. shown[s] \in Metric /\ Loaded(s)
    BY DEF CountersInv, ScrapeTypes
<1>3. /\ shown[s].failure \in Nat /\ shown[s].success \in Nat /\ shown[s].total \in Nat
      /\ shown[s].read \in Nat /\ shown[s].write \in Nat
    BY <1>2 DEF Metric
<1>4. /\ totalSuccessCommands' >= totalSuccessCommands
      /\ totalFailureCommands' >= totalFailureCommands
      /\ read_commands_total' >= read_commands_total
      /\ write_commands_total' >= write_commands_total
      /\ others' >= others
      /\ CounterTypes /\ CounterTypes'
    BY LoopCounts DEF CountersInv
<1>5. QED
    BY <1>1, <1>2, <1>3, <1>4 DEF CounterTypes, Loaded, TotalLoaded, Ended


\* A load into one field is a step of one thread that leaves the others and
\* the counters alone.
LEMMA LoadStep ==
    ASSUME CountersInv, NEW s \in Scrapers, NEW to \in Places, NEW value \in Nat,
           NEW field \in {"failure", "success", "total", "read", "write"},
           pc' = [pc EXCEPT ![s] = to], Load(s, field, value),
           UNCHANGED <<counterVars, loop>>, Loaded(s)'
    PROVE  CountersInv'
<1>1. ScrapeTypes /\ CounterTypes'
    BY DEF CountersInv, CounterTypes, counterVars
<1>2. [shown[s] EXCEPT ![field] = value] \in Metric
    BY <1>1 DEF ScrapeTypes, Metric
<1>3. ScrapeTypes'
    BY <1>1, <1>2 DEF ScrapeTypes, Load
<1>4. ASSUME NEW t \in Scrapers \ {s} PROVE Loaded(t)'
    <2>1. pc'[t] = pc[t] /\ shown'[t] = shown[t] /\ Loaded(t)
        BY <1>1 DEF ScrapeTypes, Load, CountersInv
    <2>2. QED
        BY <2>1 DEF counterVars, Loaded, TotalLoaded, Ended
<1>5. KindsFirst'
    BY DEF CountersInv, KindsFirst, counterVars
<1>6. QED
    BY <1>1, <1>3, <1>4, <1>5 DEF CountersInv

\* A load shows a counter no higher than those that are loaded after it.
LEMMA LoadsKeepInv ==
    ASSUME CountersInv, NEW s \in Scrapers, LoadCounter(s)
    PROVE  CountersInv'
<1> DEFINE m == shown[s]
<1>1. UNCHANGED <<counterVars, loop>>
    BY DEF LoadCounter, loopVars
<1>2. /\ CounterTypes /\ KindsFirst /\ Loaded(s)
      /\ pc \in [Scrapers -> Places] /\ shown \in [Scrapers -> Metric] /\ m \in Metric
    BY DEF CountersInv, ScrapeTypes
<1>3. /\ m.failure \in Nat /\ m.success \in Nat /\ m.total \in Nat
      /\ m.read \in Nat /\ m.write \in Nat
    BY <1>2 DEF Metric
<1> USE DEF Goto, Places
<1>4. CASE LoadFailure(s)
    <2>1. Loaded(s)'
        BY <1>1, <1>2, <1>3, <1>4
           DEF LoadFailure, Load, Loaded, TotalLoaded, Ended, Metric, CounterTypes, counterVars
    <2>2. QED
        BY <1>1, <1>2, <1>4, <2>1, LoadStep DEF LoadFailure, CounterTypes
<1>5. CASE LoadSuccess(s)
    <2>1. Loaded(s)'
        BY <1>1, <1>2, <1>3, <1>5
           DEF LoadSuccess, Load, Loaded, TotalLoaded, Ended, Metric, CounterTypes, counterVars
    <2>2. QED
        BY <1>1, <1>2, <1>5, <2>1, LoadStep DEF LoadSuccess, CounterTypes
<1>6. CASE LoadTotal(s)
    <2>1. \E to \in Places, value \in Nat :
             pc' = [pc EXCEPT ![s] = to] /\ Load(s, "total", value)
        BY <1>2, <1>3, <1>6 DEF LoadTotal, CounterTypes
    <2>2. Loaded(s)'
        BY <1>1, <1>2, <1>3, <1>6
           DEF LoadTotal, Load, Loaded, TotalLoaded, Ended, Metric, CounterTypes, counterVars,
               KindsFirst
    <2>3. QED
        BY <1>1, <2>1, <2>2, LoadStep
<1>7. CASE LoadRead(s)
    <2>1. Loaded(s)'
        BY <1>1, <1>2, <1>3, <1>7
           DEF LoadRead, Load, Loaded, TotalLoaded, Ended, Metric, CounterTypes, counterVars
    <2>2. QED
        BY <1>1, <1>2, <1>7, <2>1, LoadStep DEF LoadRead, CounterTypes
<1>8. CASE LoadWrite(s)
    <2>1. Loaded(s)'
        BY <1>1, <1>2, <1>3, <1>8
           DEF LoadWrite, Load, Loaded, TotalLoaded, Ended, Metric, CounterTypes, counterVars
    <2>2. QED
        BY <1>1, <1>2, <1>8, <2>1, LoadStep DEF LoadWrite, CounterTypes
<1>9. QED
    BY <1>4, <1>5, <1>6, <1>7, <1>8 DEF LoadCounter
-----------------------------------------------------------------------------
(* The histograms. *)

\* Empty histograms are cumulative.
LEMMA LatencyInit == Init => LatencyInv /\ PrintedWhole
<1> SUFFICES ASSUME Init PROVE LatencyInv /\ PrintedWhole
    OBVIOUS
<1> USE DEF Init
<1>1. LatencyTypes
    BY ScrapesAssumption DEF LatencyTypes, NoLatencies, Histograms
<1>4. Exclusion
    BY DEF Exclusion
<1> DEFINE Empty(h) == h.count = 0 /\ \A b \in Buckets : h.buckets[b] = 0
<1>2. Empty(NoLatencies)
    BY DEF NoLatencies
<1>3. \A b \in Buckets : b > 1 => b - 1 \in Buckets
    BY ScrapesAssumption DEF Buckets
<1>5. Cumulative
    <2>1. \A c \in Commands : Empty(latency_by_command[c])
        BY <1>2
    <2>2. QED
        BY <1>3, <2>1 DEF Cumulative, Due
<1>6. PrintedWhole
    <2>1. \A s \in Scrapers, c \in Commands : Empty(shown[s].histograms[c])
        BY <1>2 DEF Nothing
    <2>2. QED
        BY <1>3, <2>1 DEF PrintedWhole
<1>7. QED
    BY <1>1, <1>4, <1>5, <1>6 DEF LatencyInv

\* Steps of the loop that observe nothing.
LEMMA LoopElsewhere ==
    ASSUME LatencyInv, ScrapeTypes,
           Execute \/ recordReadWrite \/ IncrementTotal \/ SkipLatency \/ LockLatencies
    PROVE  LatencyInv'
<1> USE DEF Execute, recordReadWrite, IncrementTotal, SkipLatency, LockLatencies,
            AfterIncrements, LatencyInv, scrapeVars, latencyVars
<1>1. UNCHANGED <<latency_by_command, bucket, pc>>
    OBVIOUS
<1>2. loop # "buckets" /\ loop' # "buckets" /\ bucket = 1
    OBVIOUS
<1>3. LatencyTypes'
    BY ScrapesAssumption DEF LatencyTypes
<1>4. Exclusion'
    BY ScrapesAssumption DEF Exclusion
<1>5. Cumulative'
    BY <1>1, <1>2 DEF Cumulative, Due
<1>6. QED
    BY <1>1, <1>2, <1>3, <1>4, <1>5

\* An observation leaves only the buckets it has yet to reach behind the count,
\* and the mutex is its own until it is done.
LEMMA LoopObserves ==
    ASSUME LatencyInv, ObserveCount \/ ObserveBucket \/ UnlockLatencies
    PROVE  LatencyInv'
<1> USE DEF LatencyInv, scrapeVars
<1>1. /\ cmd \in Commands /\ bucket \in 1..(BUCKET_COUNT + 1) /\ slot \in Nat
      /\ latency_by_command \in [Commands -> Histograms]
      /\ latency_by_command[cmd] \in Histograms
      /\ BUCKET_COUNT \in Nat
    BY ScrapesAssumption DEF ObserveCount, ObserveBucket, UnlockLatencies, LatencyTypes
<1>2. ASSUME NEW c \in Commands, NEW b \in Buckets
      PROVE  /\ latency_by_command[c].count \in Nat
             /\ latency_by_command[c].buckets[b] \in Nat
             /\ b > 1 => b - 1 \in Buckets /\ latency_by_command[c].buckets[b - 1] \in Nat
    BY <1>1 DEF Histograms, Buckets
<1>3. CASE ObserveCount
    <2>1. [latency_by_command[cmd] EXCEPT !.count = @ + 1] \in Histograms
        BY <1>1 DEF Histograms
    <2>2. LatencyTypes'
        BY <1>1, <1>3, <2>1 DEF ObserveCount, LatencyTypes
    <2>3. Exclusion'
        BY <1>3 DEF ObserveCount, Exclusion
    <2>4. Cumulative'
        BY <1>1, <1>2, <1>3 DEF ObserveCount, Cumulative, Due, Histograms, Buckets
    <2>5. QED
        BY <1>3, <2>2, <2>3, <2>4 DEF ObserveCount
<1>4. CASE ObserveBucket
    <2> DEFINE h == latency_by_command[cmd]
               more == IF slot =< bucket THEN 1 ELSE 0
               filled == [h.buckets EXCEPT ![bucket] = @ + more]
    <2>1. /\ bucket \in Buckets /\ h.count \in Nat /\ h.buckets \in [Buckets -> Nat]
          /\ filled \in [Buckets -> Nat]
        BY <1>1, <1>4 DEF ObserveBucket, Histograms, Buckets
    <2>2. [h EXCEPT !.buckets = filled] \in Histograms
        BY <1>1, <2>1 DEF Histograms
    <2>3. latency_by_command' = [latency_by_command EXCEPT ![cmd] = [h EXCEPT !.buckets = filled]]
        BY <1>4 DEF ObserveBucket
    <2>4. LatencyTypes'
        BY <1>1, <1>4, <2>1, <2>2, <2>3 DEF ObserveBucket, LatencyTypes, Buckets
    <2>5. Exclusion'
        BY <1>4 DEF ObserveBucket, Exclusion
    <2>6. Cumulative'
        <3>1. ASSUME NEW c \in Commands
              PROVE  /\ latency_by_command'[c].count = latency_by_command[c].count
                     /\ \A b \in Buckets :
                            latency_by_command'[c].buckets[b] + Due(c, b)'
                                = latency_by_command[c].buckets[b] + Due(c, b)
            <4>1. CASE c = cmd
                <5>1. latency_by_command'[c] = [h EXCEPT !.buckets = filled]
                    BY <1>1, <2>3, <4>1
                <5>2. latency_by_command'[c].count = h.count
                      /\ latency_by_command'[c].buckets = filled
                    BY <1>1, <5>1 DEF Histograms
                <5>3. QED
                    BY <1>1, <1>4, <2>1, <4>1, <5>2 DEF ObserveBucket, Due, Buckets
            <4>2. CASE c # cmd
                BY <1>1, <1>4, <2>3, <4>2 DEF ObserveBucket, Due
            <4>3. QED
                BY <4>1, <4>2
        <3>2. QED
            BY <1>2, <3>1 DEF Cumulative
    <2>7. QED
        BY <1>4, <2>4, <2>5, <2>6 DEF ObserveBucket
<1>5. CASE UnlockLatencies
    <2>1. LatencyTypes'
        BY <1>1, <1>5 DEF UnlockLatencies, LatencyTypes
    <2>2. Exclusion'
        BY <1>5, ScrapesAssumption DEF UnlockLatencies, Exclusion
    <2>3. Cumulative'
        BY <1>1, <1>2, <1>5 DEF UnlockLatencies, Cumulative, Due, Buckets
    <2>4. QED
        BY <1>5, <2>1, <2>2, <2>3 DEF UnlockLatencies
<1>6. QED
    BY <1>3, <1>4, <1>5
-----------------------------------------------------------------------------
(* The other steps of a scrape. *)

\* Taking the mutex and printing load no counter.
LEMMA ScrapeLocks ==
    ASSUME IInv, NEW s \in Scrapers, Begin(s) \/ LockHistograms(s) \/ PrintHistograms(s)
    PROVE  CountersInv'
<1>1. /\ CounterTypes /\ KindsFirst /\ pc \in [Scrapers -> Places]
      /\ shown \in [Scrapers -> Metric] /\ shown[s] \in Metric
      /\ latency_by_command \in [Commands -> Histograms]
      /\ \A t \in Scrapers : Loaded(t)
    BY DEF IInv, CountersInv, ScrapeTypes, LatencyInv, LatencyTypes
<1>2. UNCHANGED <<counterVars, loop>>
    BY DEF Begin, LockHistograms, PrintHistograms, loopVars
<1>3. CounterTypes' /\ KindsFirst'
    BY <1>1, <1>2 DEF counterVars, CounterTypes, KindsFirst
<1>4. Nothing \in Metric
    BY DEF Nothing, Metric, NoLatencies, Histograms
<1>5. [shown[s] EXCEPT !.histograms = latency_by_command] \in Metric
    BY <1>1 DEF Metric
<1>6. ScrapeTypes'
    BY <1>1, <1>4, <1>5
       DEF Begin, LockHistograms, PrintHistograms, Goto, Load, ScrapeTypes, Places
<1>7. Loaded(s)'
    <2>1. CASE Begin(s)
        BY <1>1, <2>1 DEF Begin, Goto, Loaded, TotalLoaded, Ended
    <2>2. CASE LockHistograms(s)
        BY <1>1, <1>2, <2>2
           DEF LockHistograms, Goto, Loaded, TotalLoaded, Ended, counterVars
    <2>3. CASE PrintHistograms(s)
        <3>1. /\ shown'[s].failure = shown[s].failure /\ shown'[s].success = shown[s].success
              /\ shown'[s].total = shown[s].total
              /\ shown'[s].read = shown[s].read /\ shown'[s].write = shown[s].write
            BY <1>1, <2>3 DEF PrintHistograms, Load, Metric
        <3>2. QED
            BY <1>1, <1>2, <2>3, <3>1
               DEF PrintHistograms, Goto, Loaded, TotalLoaded, Ended, counterVars
    <2>4. QED
        BY <2>1, <2>2, <2>3
<1>8. ASSUME NEW t \in Scrapers \ {s} PROVE Loaded(t)'
    <2>1. pc'[t] = pc[t] /\ shown'[t] = shown[t]
        BY <1>1 DEF Begin, LockHistograms, PrintHistograms, Goto, Load
    <2>2. QED
        BY <1>1, <1>2, <2>1 DEF Loaded, TotalLoaded, Ended, counterVars
<1>9. QED
    BY <1>3, <1>6, <1>7, <1>8 DEF CountersInv

\* A thread that scrapes takes the mutex only while nobody observes.
LEMMA ScrapeExcludes ==
    ASSUME IInv, NEW s \in Scrapers, exportMetrics(s)
    PROVE  LatencyInv'
<1>1. /\ pc \in [Scrapers -> Places] /\ LatencyTypes /\ Exclusion /\ Cumulative
      /\ loop # "buckets" => bucket = 1
    BY DEF IInv, CountersInv, ScrapeTypes, LatencyInv
<1> USE DEF exportMetrics, Begin, LoadCounter, LockHistograms, PrintHistograms
<1>2. UNCHANGED <<loopVars, latency_by_command>>
    BY DEF latencyVars
<1>3. LatencyTypes' /\ Cumulative' /\ (loop # "buckets" => bucket = 1)'
    BY <1>1, <1>2 DEF loopVars, LatencyTypes, Cumulative, Due
<1>4. Exclusion'
    <2>1. CASE Begin(s) \/ LoadCounter(s)
        BY <1>1, <2>1, <1>2
           DEF Exclusion, latencyVars, loopVars, Goto, Places, LoadFailure, LoadSuccess,
               LoadTotal, LoadRead, LoadWrite
    <2>2. CASE LockHistograms(s)
        BY <1>1, <2>2, ScrapesAssumption DEF Exclusion, loopVars, Goto, Places
    <2>3. CASE PrintHistograms(s)
        BY <1>1, <2>3, ScrapesAssumption DEF Exclusion, loopVars, Goto, Places
    <2>4. QED
        BY <2>1, <2>2, <2>3
<1>5. QED
    BY <1>3, <1>4 DEF LatencyInv

\* A scrape prints while it holds the mutex, so no observation is half done.
LEMMA ScrapePrintsWhole ==
    ASSUME IInv, NEW s \in Scrapers, exportMetrics(s)
    PROVE  PrintedWhole'
<1>1. /\ pc \in [Scrapers -> Places] /\ shown \in [Scrapers -> Metric]
      /\ PrintedWhole /\ shown[s] \in Metric
    BY DEF IInv, CountersInv, ScrapeTypes
<1>2. CASE Begin(s)
    <2>1. \A t \in Scrapers : shown'[t] = shown[t] \/ shown'[t] = Nothing
        BY <1>1, <1>2 DEF Begin
    <2>2. ASSUME NEW c \in Commands, NEW b \in Buckets
          PROVE  LET h == Nothing.histograms[c]
                 IN  /\ h.buckets[b] =< h.count
                     /\ b > 1 => h.buckets[b - 1] =< h.buckets[b]
        BY ScrapesAssumption DEF Nothing, NoLatencies, Buckets
    <2>3. QED
        BY <1>1, <2>1, <2>2 DEF PrintedWhole
<1>3. CASE LoadCounter(s) \/ LockHistograms(s)
    <2>1. \A t \in Scrapers : shown'[t].histograms = shown[t].histograms
        BY <1>1, <1>3 DEF LoadCounter, LoadFailure, LoadSuccess, LoadTotal, LoadRead,
                          LoadWrite, Load, LockHistograms, Metric
    <2>2. QED
        BY <1>1, <2>1 DEF PrintedWhole
<1>4. CASE PrintHistograms(s)
    <2>1. \A t \in Scrapers :
             shown'[t].histograms \in {shown[t].histograms, latency_by_command}
        BY <1>1, <1>4 DEF PrintHistograms, Load, Metric
    <2>2. loop # "buckets"
        BY <1>1, <1>4, ScrapesAssumption
           DEF PrintHistograms, Goto, IInv, LatencyInv, Exclusion
    <2>3. ASSUME NEW c \in Commands, NEW b \in Buckets
          PROVE  LET h == latency_by_command[c]
                 IN  /\ h.buckets[b] =< h.count
                     /\ b > 1 => h.buckets[b - 1] =< h.buckets[b]
        <3>1. latency_by_command[c] \in Histograms
            BY DEF IInv, LatencyInv, LatencyTypes
        <3>2. b > 1 => b - 1 \in Buckets
            BY ScrapesAssumption DEF Buckets
        <3>3. QED
            BY <2>2, <3>1, <3>2 DEF IInv, LatencyInv, Cumulative, Due, Histograms
    <2>4. QED
        BY <1>1, <2>1, <2>3 DEF PrintedWhole
<1>5. QED
    BY <1>2, <1>3, <1>4 DEF exportMetrics
-----------------------------------------------------------------------------
(* The histograms and the totals. *)

\* The command in progress has been counted and not yet observed.
Pending == IF loop \in {"latency", "observe"} /\ cmd # NoName THEN 1 ELSE 0

OutcomeTypes ==
    /\ extras \in Nat
    /\ outcomes \in Seq({"success", "failure"})
    /\ loop \in {"kind", "total"} => outcomes # <<>>

\* Increments are observed, or pending, or extra.
TotalsObserved ==
    /\ IsFiniteSet(Observed(latency_by_command))
    /\ totalSuccessCommands + totalFailureCommands
          =< Cardinality(Observed(latency_by_command)) + extras + Pending

\* So is what a thread has loaded as the total.
Covered(s) ==
    /\ IsFiniteSet(Observed(shown[s].histograms))
    /\ pc[s] \in {"read", "write", "lock", "histograms"} =>
          shown[s].total =< Cardinality(Observed(latency_by_command)) + 1 + extras
    /\ pc[s] = "idle" =>
          shown[s].total =< Cardinality(Observed(shown[s].histograms)) + 1 + extras

ObservedInv == OutcomeTypes /\ TotalsObserved /\ \A s \in Scrapers : Covered(s)

\* What is left to count of a command.
LEMMA OutcomeSteps ==
    ASSUME OutcomeTypes, Loop
    PROVE  /\ OutcomeTypes'
           /\ extras' >= extras
           /\ \/ loop = "total" /\ IncrementTotal
                 /\ extras' + Pending' >= extras + 1
              \/ loop # "total" /\ UNCHANGED <<totalSuccessCommands, totalFailureCommands, extras>>
<1> DEFINE Kinds == {"success", "failure"}
<1>1. extras \in Nat /\ outcomes \in Seq(Kinds)
    BY DEF OutcomeTypes
<1>2. CASE Execute
    <2>1. Outcomes(cmd') \subseteq Seq(Kinds)
        <3>1. /\ <<>> \in Seq(Kinds) /\ <<"success">> \in Seq(Kinds)
              /\ <<"failure">> \in Seq(Kinds) /\ <<"failure", "success">> \in Seq(Kinds)
            OBVIOUS
        <3>2. QED
            BY <3>1 DEF Outcomes
    <2>2. outcomes' \in Seq(Kinds) /\ (loop' \in {"kind", "total"} => outcomes' # <<>>)
        BY <1>2, <2>1 DEF Execute, AfterIncrements
    <2>3. QED
        BY <1>1, <1>2, <2>2 DEF Execute, OutcomeTypes, counterVars
<1>3. CASE recordReadWrite
    BY <1>1, <1>3 DEF recordReadWrite, OutcomeTypes
<1>4. CASE IncrementTotal
    <2>1. outcomes # <<>>
        BY <1>4 DEF IncrementTotal, OutcomeTypes
    <2>2. Tail(outcomes) \in Seq(Kinds) /\ (Len(outcomes) =< 1 => Tail(outcomes) = <<>>)
        BY <1>1, <2>1
    <2>3. OutcomeTypes' /\ extras' \in {extras, extras + 1}
        BY <1>1, <1>4, <2>2 DEF IncrementTotal, OutcomeTypes, AfterIncrements
    <2>4. CASE cmd = NoName \/ Len(outcomes) > 1
        BY <1>1, <1>4, <2>3, <2>4 DEF IncrementTotal, Pending
    <2>5. CASE ~(cmd = NoName \/ Len(outcomes) > 1)
        BY <1>1, <1>4, <2>2, <2>3, <2>5 DEF IncrementTotal, Pending, AfterIncrements
    <2>6. QED
        BY <1>1, <1>4, <2>3, <2>4, <2>5 DEF IncrementTotal
<1>5. CASE SkipLatency \/ LockLatencies \/ ObserveCount \/ ObserveBucket \/ UnlockLatencies
    BY <1>1, <1>5
    DEF SkipLatency, LockLatencies, ObserveCount, ObserveBucket, UnlockLatencies, OutcomeTypes,
        counterVars
<1>6. QED
    BY <1>2, <1>3, <1>4, <1>5 DEF Loop

\* observeLatency adds one observation; no other step of the loop does.
LEMMA LoopObserved ==
    ASSUME LatencyTypes, Loop, IsFiniteSet(Observed(latency_by_command))
    PROVE  /\ IsFiniteSet(Observed(latency_by_command)')
           /\ Cardinality(Observed(latency_by_command)) \in Nat
           /\ Cardinality(Observed(latency_by_command))' =
                  Cardinality(Observed(latency_by_command)) + IF ObserveCount THEN 1 ELSE 0
<1> DEFINE all == Observed(latency_by_command)
           Count(c) == latency_by_command[c].count
<1>1. Cardinality(all) \in Nat
    BY FS_CardinalityType
<1>2. \A c \in Commands : latency_by_command[c] \in Histograms /\ Count(c) \in Nat
    BY DEF LatencyTypes, Histograms
<1>3. CASE ObserveCount
    <2> DEFINE new == <<cmd, Count(cmd) + 1>>
    <2>1. cmd \in Commands
        BY <1>3 DEF ObserveCount, LatencyTypes
    <2>2. \A c \in Commands :
              latency_by_command'[c].count = IF c = cmd THEN Count(c) + 1 ELSE Count(c)
        BY <1>2, <1>3, <2>1 DEF ObserveCount, LatencyTypes, Histograms
    <2>3. all' = UNION {{c} \X (1..(IF c = cmd THEN Count(c) + 1 ELSE Count(c))) :
                            c \in Commands}
        BY <2>2 DEF Observed
    <2>4. 1..(Count(cmd) + 1) = (1..Count(cmd)) \cup {Count(cmd) + 1}
          /\ Count(cmd) + 1 \notin 1..Count(cmd)
        BY <1>2, <2>1
    <2>5. all' = all \cup {new} /\ new \notin all
        BY <2>1, <2>3, <2>4 DEF Observed
    <2> HIDE DEF all, new
    <2>6. IsFiniteSet(all') /\ Cardinality(all)' = Cardinality(all) + 1
        BY <2>5, FS_AddElement DEF all
    <2>7. QED
        BY <1>1, <1>3, <2>6 DEF all
<1>4. CASE ~ObserveCount
    <2>1. \A c \in Commands : latency_by_command'[c].count = Count(c)
        <3>1. CASE ObserveBucket
            <4>1. cmd \in Commands
                BY <3>1 DEF ObserveBucket, LatencyTypes
            <4>2. QED
                BY <1>2, <3>1, <4>1 DEF ObserveBucket, LatencyTypes, Histograms
        <3>2. CASE ~ObserveBucket
            BY <1>4, <3>2
            DEF Loop, Execute, recordReadWrite, IncrementTotal, SkipLatency, LockLatencies,
                UnlockLatencies, latencyVars
        <3>3. QED
            BY <3>1, <3>2
    <2>2. all' = all
        BY <2>1 DEF Observed
    <2>3. QED
        BY <1>1, <1>4, <2>2
<1>5. QED
    BY <1>3, <1>4

\* A command is observed, pending or extra after every step of the loop.
LEMMA LoopCovers ==
    ASSUME IInv, ObservedInv, Loop
    PROVE  ObservedInv'
<1> DEFINE Obs == Cardinality(Observed(latency_by_command))
<1>1. /\ CounterTypes /\ ScrapeTypes /\ LatencyTypes /\ OutcomeTypes /\ TotalsObserved
      /\ extras \in Nat
    BY DEF IInv, CountersInv, LatencyInv, ObservedInv, OutcomeTypes
<1>2. /\ IsFiniteSet(Observed(latency_by_command)')
      /\ Obs \in Nat /\ Obs' = Obs + IF ObserveCount THEN 1 ELSE 0
    BY <1>1, LoopObserved DEF TotalsObserved
<1>3. OutcomeTypes' /\ extras' >= extras /\ extras' \in Nat
    BY <1>1, OutcomeSteps DEF OutcomeTypes
<1>4. TotalsObserved'
    <2>1. totalSuccessCommands + totalFailureCommands =< Obs + extras + Pending
        BY <1>1 DEF TotalsObserved
    <2>2. Pending \in 0..1 /\ Pending' \in 0..1
        BY DEF Pending
    <2> HIDE DEF Obs
    <2>3. CASE loop = "total"
        <3>1. /\ extras' + Pending' >= extras + 1 /\ Pending = 0 /\ Obs' = Obs
              /\ totalSuccessCommands' + totalFailureCommands'
                    =< totalSuccessCommands + totalFailureCommands + 1
              /\ totalSuccessCommands' + totalFailureCommands' \in Nat
            BY <1>1, <1>2, <2>3, OutcomeSteps
               DEF IncrementTotal, ObserveCount, Pending, CounterTypes
        <3>2. totalSuccessCommands + totalFailureCommands \in Nat
            BY <1>1 DEF CounterTypes
        <3>3. totalSuccessCommands + totalFailureCommands =< Obs + extras
            BY <1>1, <1>2, <2>1, <3>1
        <3>4. totalSuccessCommands' + totalFailureCommands' =< Obs' + extras' + Pending'
            <4> DEFINE before == totalSuccessCommands + totalFailureCommands
                       after == totalSuccessCommands' + totalFailureCommands'
                       more == extras' + Pending'
            <4>1. /\ before \in Nat /\ after \in Nat /\ Obs \in Nat /\ Obs' = Obs
                  /\ after =< before + 1 /\ before =< Obs + extras
                  /\ more >= extras + 1 /\ more \in Int
                BY <1>2, <1>3, <2>2, <3>1, <3>2, <3>3
            <4>2. Obs' + extras' + Pending' = Obs' + more
                BY <1>3, <2>2, <4>1
            <4> HIDE DEF before, after, more
            <4>3. after =< Obs' + more
                BY <1>1, <4>1
            <4>4. QED
                BY <4>2, <4>3 DEF after
        <3>5. QED
            BY <1>2, <3>4 DEF TotalsObserved, Obs
    <2>4. CASE loop # "total"
        <3>1. UNCHANGED <<totalSuccessCommands, totalFailureCommands, extras>>
            BY <1>1, <2>4, OutcomeSteps
        <3>2. Obs + Pending =< Obs' + Pending'
            BY <1>2, <2>4
            DEF Loop, Execute, recordReadWrite, IncrementTotal, SkipLatency, LockLatencies,
                ObserveCount, ObserveBucket, UnlockLatencies, Pending, AfterIncrements
        <3>3. QED
            BY <1>1, <1>2, <1>3, <2>1, <2>2, <3>1, <3>2 DEF TotalsObserved, Obs, CounterTypes
    <2>5. QED
        BY <2>3, <2>4
<1>5. ASSUME NEW s \in Scrapers PROVE Covered(s)'
    <2>1. pc' = pc /\ shown' = shown /\ shown[s].total \in Nat
        BY <1>1, LoopKeepsScrapes DEF ScrapeTypes, Metric
    <2>2. Covered(s)
        BY DEF ObservedInv
    <2>3. Cardinality(Observed(shown[s].histograms)) \in Nat
        BY <2>2, FS_CardinalityType DEF Covered
    <2>4. QED
        BY <1>1, <1>2, <1>3, <2>1, <2>2, <2>3 DEF Covered
<1>6. QED
    BY <1>3, <1>4, <1>5 DEF ObservedInv

\* A scrape loads its total before its histograms, and commands wait for none
\* but their own observation.
LEMMA ScrapeCovers ==
    ASSUME IInv, ObservedInv, NEW s \in Scrapers, exportMetrics(s)
    PROVE  ObservedInv'
<1> DEFINE Obs == Cardinality(Observed(latency_by_command))
<1>1. /\ CounterTypes /\ pc \in [Scrapers -> Places] /\ shown \in [Scrapers -> Metric]
      /\ shown[s] \in Metric /\ LatencyTypes /\ TotalsObserved
      /\ extras \in Nat /\ Covered(s) /\ Loaded(s)
    BY DEF IInv, CountersInv, ScrapeTypes, LatencyInv, ObservedInv, OutcomeTypes
<1>2. UNCHANGED <<loopVars, counterVars, latency_by_command>>
    BY DEF exportMetrics, Begin, LoadCounter, LockHistograms, PrintHistograms, latencyVars
<1>3. OutcomeTypes' /\ TotalsObserved'
    BY <1>2 DEF ObservedInv, OutcomeTypes, TotalsObserved, Pending, loopVars, counterVars
<1>4. Obs \in Nat /\ Obs' = Obs /\ extras' = extras
    BY <1>1, <1>2, FS_CardinalityType DEF TotalsObserved, counterVars
<1>5. ASSUME NEW t \in Scrapers \ {s} PROVE Covered(t)'
    <2>1. pc'[t] = pc[t] /\ shown'[t] = shown[t]
        BY <1>1 DEF exportMetrics, Begin, LoadCounter, LoadFailure, LoadSuccess, LoadTotal,
                    LoadRead, LoadWrite, LockHistograms, PrintHistograms, Goto, Load
    <2>2. QED
        BY <1>2, <2>1 DEF ObservedInv, Covered, counterVars
<1>6. Covered(s)'
    <2>1. CASE Begin(s)
        <3>1. pc'[s] = "failure" /\ shown'[s] = Nothing
            BY <1>1, <2>1 DEF Begin, Goto
        <3>2. Observed(Nothing.histograms) = {}
            BY 1..0 = {} DEF Observed, Nothing, NoLatencies
        <3>3. QED
            BY <3>1, <3>2, FS_EmptySet DEF Covered
    <2>2. CASE LoadCounter(s) \/ LockHistograms(s)
        <3>1. shown'[s].histograms = shown[s].histograms /\ pc'[s] # "idle"
            BY <1>1, <2>2 DEF LoadCounter, LoadFailure, LoadSuccess, LoadTotal, LoadRead,
                              LoadWrite, LockHistograms, Goto, Load, Metric
        <3>2. pc'[s] \in {"read", "write", "lock", "histograms"} =>
                  shown'[s].total =< Obs + 1 + extras
            <4>1. CASE LoadTotal(s)
                <5>1. pc'[s] = "read" =>
                         shown'[s].total =< totalSuccessCommands + totalFailureCommands
                    BY <1>1, <4>1 DEF LoadTotal, Goto, Load, Loaded, Metric, CounterTypes
                <5>2. totalSuccessCommands + totalFailureCommands =< Obs + 1 + extras
                    BY <1>1, <1>4 DEF TotalsObserved, Pending, CounterTypes
                <5>3. shown'[s].total \in Nat /\ pc'[s] \in {"total_success", "total_failure", "read"}
                    BY <1>1, <4>1 DEF LoadTotal, Goto, Load, Metric, CounterTypes
                <5>4. totalSuccessCommands + totalFailureCommands \in Nat
                    BY <1>1 DEF CounterTypes
                <5> HIDE DEF Obs
                <5>5. QED
                    BY <1>1, <1>4, <5>1, <5>2, <5>3, <5>4
            <4>2. CASE ~LoadTotal(s)
                BY <1>1, <1>4, <2>2, <4>2
                DEF LoadCounter, LoadFailure, LoadSuccess, LoadRead, LoadWrite, LockHistograms,
                    Goto, Load, Metric, Covered
            <4>3. QED
                BY <4>1, <4>2
        <3>3. QED
            BY <1>1, <1>4, <3>1, <3>2 DEF Covered
    <2>3. CASE PrintHistograms(s)
        <3>1. /\ pc[s] = "histograms" /\ pc'[s] = "idle"
              /\ shown'[s].histograms = latency_by_command
              /\ shown'[s].total = shown[s].total
            BY <1>1, <2>3 DEF PrintHistograms, Goto, Load, Metric
        <3>2. QED
            BY <1>1, <1>4, <3>1 DEF Covered, TotalsObserved
    <2>4. QED
        BY <2>1, <2>2, <2>3 DEF exportMetrics
<1>7. QED
    BY <1>3, <1>5, <1>6 DEF ObservedInv

-----------------------------------------------------------------------------
\* The invariant holds of every reachable state.
LEMMA Inductive == Spec => []IInv
<1>1. Init => IInv
    BY CountersInit, LatencyInit DEF IInv
<1>2. IInv /\ [Next]_vars => IInv'
    <2> SUFFICES ASSUME IInv, [Next]_vars PROVE IInv'
        OBVIOUS
    <2>1. CASE Loop
        <3>1. CountersInv'
            <4>1. CountersInv
                BY DEF IInv
            <4>2. ScrapeTypes'
                BY <2>1, <4>1, LoopKeepsScrapes DEF CountersInv, ScrapeTypes
            <4>3. QED
                BY <2>1, <4>1, <4>2, LoopCounts, LoopKeepsLoaded DEF CountersInv
        <3>2. LatencyInv'
            BY <2>1, LoopElsewhere, LoopObserves DEF Loop, IInv, CountersInv
        <3>3. PrintedWhole'
            BY <2>1, LoopKeepsScrapes DEF IInv, PrintedWhole
        <3>4. QED
            BY <3>1, <3>2, <3>3 DEF IInv
    <2>2. ASSUME NEW s \in Scrapers, exportMetrics(s) PROVE IInv'
        BY <2>2, LoadsKeepInv, ScrapeLocks, ScrapeExcludes, ScrapePrintsWhole
           DEF exportMetrics, IInv
    <2>3. CASE UNCHANGED vars
        BY <2>3 DEF vars, loopVars, counterVars, latencyVars, scrapeVars, IInv, CountersInv,
                    CounterTypes, ScrapeTypes, KindsFirst, Loaded, TotalLoaded, Ended,
                    LatencyInv, LatencyTypes, Exclusion, Cumulative, Due, PrintedWhole
    <2>4. QED
        BY <2>1, <2>2, <2>3 DEF Next
<1>3. QED
    BY <1>1, <1>2, PTL DEF Spec

\* So does the one about observations.
LEMMA ObservedInductive == Spec => []ObservedInv
<1>1. Init => ObservedInv
    <2> SUFFICES ASSUME Init PROVE ObservedInv
        OBVIOUS
    <2>1. OutcomeTypes
        BY DEF Init, OutcomeTypes
    <2>2. /\ Observed(latency_by_command) = {}
          /\ \A s \in Scrapers : shown[s].total = 0 /\ Observed(shown[s].histograms) = {}
        BY 1..0 = {} DEF Init, Observed, Nothing, NoLatencies
    <2>3. IsFiniteSet({}) /\ Cardinality({}) = 0
        BY FS_EmptySet
    <2>4. TotalsObserved
        <3>1. /\ totalSuccessCommands = 0 /\ totalFailureCommands = 0 /\ extras = 0
              /\ Pending = 0
            BY DEF Init, Pending
        <3>2. QED
            BY <2>2, <2>3, <3>1 DEF TotalsObserved
    <2>5. ASSUME NEW s \in Scrapers PROVE Covered(s)
        <3>1. pc[s] = "idle" /\ extras = 0
            BY DEF Init
        <3>2. QED
            BY <2>2, <2>3, <3>1 DEF Covered
    <2>6. QED
        BY <2>1, <2>4, <2>5 DEF ObservedInv
<1>2. IInv /\ ObservedInv /\ [Next]_vars => ObservedInv'
    <2> SUFFICES ASSUME IInv, ObservedInv, [Next]_vars PROVE ObservedInv'
        OBVIOUS
    <2>1. CASE UNCHANGED vars
        BY <2>1 DEF vars, loopVars, counterVars, latencyVars, scrapeVars, ObservedInv,
                    OutcomeTypes, TotalsObserved, Pending, Covered
    <2>2. QED
        BY <2>1, LoopCovers, ScrapeCovers DEF Next
<1>3. QED
    BY <1>1, <1>2, Inductive, PTL DEF Spec

\* No scrape shows more failures and successes than commands, whatever the
\* loop counts between its loads.
THEOREM OutcomesCovered == Spec => []TotalCoversOutcomes
<1>1. IInv => TotalCoversOutcomes
    BY DEF IInv, CountersInv, Loaded, TotalCoversOutcomes
<1>2. QED
    BY <1>1, Inductive, PTL

\* Nor more commands than reads, writes and unknown ones.
THEOREM TotalCovered == Spec => []KindsCoverTotal
<1>1. IInv => KindsCoverTotal
    BY DEF IInv, CountersInv, Loaded, KindsCoverTotal
<1>2. QED
    BY <1>1, Inductive, PTL

\* The mutex keeps the histograms that a scrape prints whole.
THEOREM HistogramsWhole == Spec => []HistogramsAreCumulative
<1>1. IInv => HistogramsAreCumulative
    BY DEF IInv, PrintedWhole, HistogramsAreCumulative
<1>2. QED
    BY <1>1, Inductive, PTL

\* A scrape that shows a command in its total shows the latency of the command
\* too, but for one in progress and those that are never observed.
THEOREM TotalObserved == Spec => []HistogramsCoverTotal
<1>1. ObservedInv => HistogramsCoverTotal
    BY DEF ObservedInv, Covered, HistogramsCoverTotal
<1>2. QED
    BY <1>1, ObservedInductive, PTL
=============================================================================
