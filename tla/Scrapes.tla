------------------------------ MODULE Scrapes -------------------------------
(***************************************************************************)
(* Metrics between threads: the event loop counts a command increment by   *)
(* increment, and observes its latency under latency_mutex_, while threads *)
(* of the HTTP server run exportMetrics, which loads the atomic counters   *)
(* one by one and the histograms under the mutex.                          *)
(*                                                                         *)
(* The increments of reads and writes are relaxed and the others are not,  *)
(* so a thread that sees an increment of a total sees those before it, as  *)
(* in the interleavings here.  The gauge of clients and the memory stand   *)
(* alone in a scrape and are left out; the CPU usage is in CpuUsage.       *)
(***************************************************************************)
EXTENDS Integers, SequencesExt, CommandKinds

CONSTANTS
    Scrapers,      \* threads of the HTTP server
    Commands,      \* names of commands, in capitals, known or not
    BUCKET_COUNT,  \* number of limits of a histogram
    MaxCommands,   \* bound: commands executed
    MaxScrapes     \* bound: scrapes started

ASSUME ScrapesAssumption ==
    /\ "loop" \notin Scrapers /\ "nobody" \notin Scrapers
    /\ BUCKET_COUNT \in Nat \ {0}
    /\ {MaxCommands, MaxScrapes} \subseteq Nat

VARIABLES
    \* the event loop
    loop,          \* where it is
    cmd,           \* the command in progress
    outcomes,      \* the increments that the command has left, in order
    slot,          \* the first bucket that the duration of the command fits
    bucket,        \* the bucket to be looked at
    executed,      \* commands begun
    \* Metrics
    totalSuccessCommands, totalFailureCommands,
    read_commands_total, write_commands_total,
    latency_by_command,  \* a histogram for every command: count and buckets
    latency_mutex,       \* who holds it
    \* the scrapes
    pc,            \* where each thread is
    shown,         \* the metrics that each thread has loaded so far
    scrapes,       \* scrapes begun
    \* history
    others,        \* increments for commands that are neither reads nor writes
    extras         \* increments that no observation of their own follows

loopVars == <<loop, cmd, outcomes, slot, bucket, executed>>
counterVars ==
    <<totalSuccessCommands, totalFailureCommands, read_commands_total,
      write_commands_total, others, extras>>
latencyVars == <<latency_by_command, latency_mutex>>
scrapeVars == <<pc, shown, scrapes>>
vars == <<loopVars, counterVars, latencyVars, scrapeVars>>

Buckets == 1..BUCKET_COUNT
NoLatencies == [count |-> 0, buckets |-> [b \in Buckets |-> 0]]
Nothing ==
    [failure |-> 0, success |-> 0, total |-> 0, read |-> 0, write |-> 0,
     histograms |-> [c \in Commands |-> NoLatencies]]

Init ==
    /\ loop = "idle" /\ cmd = NoName /\ outcomes = <<>>
    /\ slot = 1 /\ bucket = 1 /\ executed = 0
    /\ totalSuccessCommands = 0 /\ totalFailureCommands = 0
    /\ read_commands_total = 0 /\ write_commands_total = 0
    /\ latency_by_command = [c \in Commands |-> NoLatencies]
    /\ latency_mutex = "nobody"
    /\ pc = [s \in Scrapers |-> "idle"]
    /\ shown = [s \in Scrapers |-> Nothing]
    /\ scrapes = 0
    /\ others = 0 /\ extras = 0
-----------------------------------------------------------------------------
(* The loop. *)

\* What a branch of processCommand counts: FLUSHALL nothing, a LINDEX that
\* misses a failure and then a success, any other command one of them.
Outcomes(c) ==
    CASE c = "FLUSHALL" -> {<<>>}
      [] c = "LINDEX" -> {<<"success">>, <<"failure">>, <<"failure", "success">>}
      [] OTHER -> {<<"success">>, <<"failure">>}

AfterIncrements(left) == IF left = <<>> THEN "latency" ELSE "kind"

Execute ==
    /\ loop = "idle"
    /\ executed < MaxCommands
    /\ executed' = executed + 1
    /\ \E c \in Commands :
        /\ cmd' = c
        /\ outcomes' \in Outcomes(c)
    /\ loop' = AfterIncrements(outcomes')
    /\ UNCHANGED <<slot, bucket, counterVars, latencyVars, scrapeVars>>

\* A slip: failures not classified.
recordReadWrite_Successes ==
    LET counted == Head(outcomes) = "success"
    IN  /\ loop = "kind"
        /\ read_commands_total' =
              read_commands_total + IF counted /\ cmd \in readCommands THEN 1 ELSE 0
        /\ write_commands_total' =
              write_commands_total + IF counted /\ cmd \in writeCommands THEN 1 ELSE 0
        /\ others' = others + IF cmd \in readCommands \cup writeCommands THEN 0 ELSE 1
        /\ loop' = "total"
        /\ UNCHANGED <<cmd, outcomes, slot, bucket, executed, totalSuccessCommands,
                       totalFailureCommands, extras, latencyVars, scrapeVars>>

recordReadWrite ==
    /\ loop = "kind"
    /\ read_commands_total' =
          read_commands_total + IF cmd \in readCommands THEN 1 ELSE 0
    /\ write_commands_total' =
          write_commands_total + IF cmd \in writeCommands THEN 1 ELSE 0
    /\ others' = others + IF cmd \in readCommands \cup writeCommands THEN 0 ELSE 1
    /\ loop' = "total"
    /\ UNCHANGED <<cmd, outcomes, slot, bucket, executed, totalSuccessCommands,
                   totalFailureCommands, extras, latencyVars, scrapeVars>>

\* The rest of incrementSuccessfullCommand and incrementFailureCommand.
IncrementTotal ==
    /\ loop = "total"
    /\ totalSuccessCommands' =
          totalSuccessCommands + IF Head(outcomes) = "success" THEN 1 ELSE 0
    /\ totalFailureCommands' =
          totalFailureCommands + IF Head(outcomes) = "failure" THEN 1 ELSE 0
    /\ extras' = extras + IF cmd = NoName \/ Len(outcomes) > 1 THEN 1 ELSE 0
    /\ outcomes' = Tail(outcomes)
    /\ loop' = AfterIncrements(outcomes')
    /\ UNCHANGED <<cmd, slot, bucket, executed, read_commands_total, write_commands_total,
                   others, latencyVars, scrapeVars>>

\* A slip: commands that are no writes not observed either.
SkipLatency_Reads ==
    /\ loop = "latency" /\ cmd \notin writeCommands
    /\ loop' = "idle"
    /\ UNCHANGED <<cmd, outcomes, slot, bucket, executed, counterVars, latencyVars, scrapeVars>>

\* recordCommandLatency: a command without a name is not observed.
SkipLatency ==
    /\ loop = "latency" /\ cmd = NoName
    /\ loop' = "idle"
    /\ UNCHANGED <<cmd, outcomes, slot, bucket, executed, counterVars, latencyVars, scrapeVars>>

LockLatencies ==
    /\ loop = "latency" /\ cmd # NoName
    /\ latency_mutex = "nobody"
    /\ latency_mutex' = "loop"
    /\ slot' \in 1..(BUCKET_COUNT + 1)
    /\ loop' = "observe"
    /\ UNCHANGED <<cmd, outcomes, bucket, executed, counterVars, latency_by_command,
                   scrapeVars>>

\* observeLatency: the count first, then every bucket that the duration fits;
\* the lock is released after the last.
ObserveCount ==
    /\ loop = "observe"
    /\ latency_by_command' = [latency_by_command EXCEPT ![cmd].count = @ + 1]
    /\ loop' = "buckets"
    /\ UNCHANGED <<cmd, outcomes, slot, bucket, executed, counterVars, latency_mutex,
                   scrapeVars>>

ObserveBucket ==
    /\ loop = "buckets" /\ bucket < BUCKET_COUNT + 1
    /\ latency_by_command' =
          [latency_by_command EXCEPT ![cmd].buckets[bucket] =
              @ + IF slot =< bucket THEN 1 ELSE 0]
    /\ bucket' = bucket + 1
    /\ UNCHANGED <<loop, cmd, outcomes, slot, executed, counterVars, latency_mutex, scrapeVars>>

UnlockLatencies ==
    /\ loop = "buckets" /\ bucket = BUCKET_COUNT + 1
    /\ latency_mutex' = "nobody"
    /\ loop' = "idle"
    /\ cmd' = NoName /\ slot' = 1 /\ bucket' = 1
    /\ UNCHANGED <<outcomes, executed, counterVars, latency_by_command, scrapeVars>>

Loop ==
    \/ Execute \/ recordReadWrite \/ IncrementTotal \/ SkipLatency
    \/ LockLatencies \/ ObserveCount \/ ObserveBucket \/ UnlockLatencies
-----------------------------------------------------------------------------
(* exportMetrics, by a thread s. *)

Goto(s, from, to) == pc[s] = from /\ pc' = [pc EXCEPT ![s] = to]

\* Thread s loads value for the metric named field.
Load(s, field, value) == shown' = [shown EXCEPT ![s][field] = value]

Begin(s) ==
    /\ scrapes < MaxScrapes
    /\ scrapes' = scrapes + 1
    /\ Goto(s, "idle", "failure")
    /\ shown' = [shown EXCEPT ![s] = Nothing]
    /\ UNCHANGED <<loopVars, counterVars, latencyVars>>

LoadFailure(s) ==
    /\ Goto(s, "failure", "success")
    /\ Load(s, "failure", totalFailureCommands)

LoadSuccess(s) ==
    /\ Goto(s, "success", "total")
    /\ Load(s, "success", totalSuccessCommands)

\* A slip: the failures loaded twice.
LoadTotal_Failures(s) ==
    \/ /\ Goto(s, "total", "total_success")
       /\ Load(s, "total", totalFailureCommands)
    \/ /\ Goto(s, "total_success", "read")
       /\ Load(s, "total", shown[s].total + totalFailureCommands)

\* The total is the sum of two more loads, in an order C++ leaves open.
LoadTotal(s) ==
    \/ /\ Goto(s, "total", "total_success")
       /\ Load(s, "total", totalFailureCommands)
    \/ /\ Goto(s, "total", "total_failure")
       /\ Load(s, "total", totalSuccessCommands)
    \/ /\ Goto(s, "total_success", "read")
       /\ Load(s, "total", shown[s].total + totalSuccessCommands)
    \/ /\ Goto(s, "total_failure", "read")
       /\ Load(s, "total", shown[s].total + totalFailureCommands)

LoadRead(s) ==
    /\ Goto(s, "read", "write")
    /\ Load(s, "read", read_commands_total)

LoadWrite(s) ==
    /\ Goto(s, "write", "lock")
    /\ Load(s, "write", write_commands_total)

LoadCounter(s) ==
    /\ \/ LoadFailure(s) \/ LoadSuccess(s) \/ LoadTotal(s)
       \/ LoadRead(s) \/ LoadWrite(s)
    /\ UNCHANGED <<loopVars, counterVars, latencyVars, scrapes>>

\* A slip: the histograms printed without the lock.
LockHistograms_Not(s) ==
    /\ Goto(s, "lock", "histograms")
    /\ UNCHANGED <<loopVars, counterVars, latencyVars, shown, scrapes>>

LockHistograms(s) ==
    /\ Goto(s, "lock", "histograms")
    /\ latency_mutex = "nobody"
    /\ latency_mutex' = s
    /\ UNCHANGED <<loopVars, counterVars, latency_by_command, shown, scrapes>>

PrintHistograms(s) ==
    /\ Goto(s, "histograms", "idle")
    /\ Load(s, "histograms", latency_by_command)
    /\ latency_mutex' = "nobody"
    /\ UNCHANGED <<loopVars, counterVars, latency_by_command, scrapes>>

exportMetrics(s) ==
    \/ Begin(s) \/ LoadCounter(s) \/ LockHistograms(s) \/ PrintHistograms(s)

Next == Loop \/ \E s \in Scrapers : exportMetrics(s)

Spec == Init /\ [][Next]_vars
-----------------------------------------------------------------------------
(* Properties of what a scrape shows. *)

Ended(s) == pc[s] \in {"lock", "histograms", "idle"}
TotalLoaded(s) == Ended(s) \/ pc[s] \in {"read", "write"}

\* A scrape never shows more failures and successes than commands.
TotalCoversOutcomes ==
    \A s \in Scrapers : TotalLoaded(s) =>
        shown[s].failure + shown[s].success =< shown[s].total

\* Nor more commands than reads and writes, the unknown ones apart: the kind
\* of a command is counted before its outcome and loaded after it.
KindsCoverTotal ==
    \A s \in Scrapers : Ended(s) =>
        shown[s].total =< shown[s].read + shown[s].write + others

\* The observations that histograms count.
Observed(histograms) == UNION {{c} \X (1..histograms[c].count) : c \in Commands}

\* Every command in the total has a latency in the histograms of the same
\* scrape, but for the one that is in progress.
HistogramsCoverTotal ==
    \A s \in Scrapers : pc[s] = "idle" =>
        shown[s].total =< Cardinality(Observed(shown[s].histograms)) + 1 + extras

\* A histogram is shown whole: each bucket includes the one before, and none
\* holds more than all observations.
HistogramsAreCumulative ==
    \A s \in Scrapers, c \in Commands : pc[s] = "idle" =>
        LET h == shown[s].histograms[c]
        IN  \A b \in Buckets :
                /\ h.buckets[b] =< h.count
                /\ b > 1 => h.buckets[b - 1] =< h.buckets[b]
=============================================================================
