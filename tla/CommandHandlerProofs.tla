------------------------ MODULE CommandHandlerProofs ------------------------
(***************************************************************************)
(* Theorems about CommandHandler: what its branches ask of the store keeps *)
(* the tables typed, what they count adds up, an error changes nothing,    *)
(* and a pop replies with what it removes.                                 *)
(***************************************************************************)
EXTENDS CommandHandler, DatabaseProofs

Names == readCommands \cup writeCommands \cup UnknownNames

\* HandlerTypeOK without the store.
CountersOK ==
    /\ {totalSuccessCommands, totalFailureCommands, read_commands_total,
        write_commands_total} \subseteq Nat
    /\ IsMap(latency_by_command, Names \ {NoName}, Nat \ {0})
    /\ requests \in 0..MaxRequests
    /\ up \in BOOLEAN
-----------------------------------------------------------------------------
(* The counters. *)

\* What every branch ends with keeps the counters typed.
LEMMA RespondType ==
    ASSUME CountersOK, NEW command \in Names, NEW r, NEW s \in Nat, NEW f \in Nat,
           Respond(command, r, s, f)
    PROVE  CountersOK'
<1>1. /\ totalSuccessCommands' \in Nat /\ totalFailureCommands' \in Nat
      /\ read_commands_total' \in Nat /\ write_commands_total' \in Nat
    BY DEF Respond, Increment, CountersOK
<1>2. IsMap(latency_by_command', Names \ {NoName}, Nat \ {0})
    <2>1. CASE command = NoName
        BY <2>1 DEF Respond, RecordLatency, CountersOK
    <2>2. CASE command # NoName
        <3>1. Observations(command) \in Nat
            BY DEF CountersOK, IsMap, Observations, At
        <3>2. Observations(command) + 1 \in Nat \ {0}
            BY <3>1
        <3>3. latency_by_command' =
                  Put(latency_by_command, command, Observations(command) + 1)
            BY <2>2 DEF Respond, RecordLatency
        <3>4. QED
            BY <2>2, <3>2, <3>3, PutType DEF CountersOK
    <2>3. QED
        BY <2>1, <2>2
<1>3. requests' \in 0..MaxRequests /\ up' = up
    BY HandlerAssumption DEF Respond, CountersOK
<1>4. QED
    BY <1>1, <1>2, <1>3 DEF CountersOK
-----------------------------------------------------------------------------
(* The counters agree. *)

\* What a branch counts under a name: nothing for FLUSHALL, up to two calls
\* for LINDEX and a failure for a name that no command has.
CallsCounted(command, s, f) ==
    /\ command \in UnknownNames => s = 0
    /\ IF command = "FLUSHALL" THEN s = 0 /\ f = 0
       ELSE IF command = "LINDEX" THEN s + f \in 1..2 /\ s \in 0..1 /\ f \in 0..1
       ELSE (s = 1 /\ f = 0) \/ (s = 0 /\ f = 1)

AllObservations == ObservationsMade(DOMAIN latency_by_command)

CountersInv == CountersOK /\ IsFiniteSet(AllObservations) /\ CountersAgree

\* The observations of some commands are among all observations.
LEMMA SomeObservations ==
    ASSUME IsFiniteSet(AllObservations), NEW commands
    PROVE  /\ IsFiniteSet(ObservationsMade(commands))
           /\ ObservationsOf(commands) \in Nat
           /\ ObservationsOf(commands) =< ObservationsOf(DOMAIN latency_by_command)
<1>1. ObservationsMade(commands) \subseteq AllObservations
    <2>1. ASSUME NEW c, c \notin DOMAIN latency_by_command
          PROVE  {c} \X (1..Observations(c)) = {}
        <3>1. 1..0 = {}
            OBVIOUS
        <3>2. QED
            BY <2>1, <3>1 DEF Observations, At
    <2>2. QED
        BY <2>1 DEF ObservationsMade, AllObservations
<1>2. QED
    BY <1>1, FS_Subset, FS_CardinalityType DEF ObservationsOf, AllObservations

\* A latency is one more observation of its command.
LEMMA OneMoreObservation ==
    ASSUME CountersOK, IsFiniteSet(AllObservations), NEW command \in Names,
           RecordLatency(command)
    PROVE  /\ IsFiniteSet(AllObservations')
           /\ \A commands : ObservationsOf(commands)' =
                  ObservationsOf(commands) +
                      IF command \in commands /\ command # NoName THEN 1 ELSE 0
<1> DEFINE n == Observations(command)
           new == <<command, n + 1>>
<1>1. CASE command = NoName
    <2>1. latency_by_command' = latency_by_command
        BY <1>1 DEF RecordLatency
    <2>2. AllObservations' = AllObservations
        BY <2>1 DEF AllObservations, ObservationsMade, Observations, At
    <2>3. ASSUME NEW commands PROVE ObservationsOf(commands)' = ObservationsOf(commands)
        BY <2>1 DEF ObservationsOf, ObservationsMade, Observations, At
    <2>4. QED
        BY <1>1, <2>2, <2>3, SomeObservations
<1>2. CASE command # NoName
    <2>1. latency_by_command' = Put(latency_by_command, command, n + 1)
        BY <1>2 DEF RecordLatency
    <2>2. n \in Nat /\ 1..(n + 1) = (1..n) \cup {n + 1} /\ n + 1 \notin 1..n
        BY DEF CountersOK, IsMap, Observations, At
    <2> HIDE DEF n
    <2>3. \A c : Observations(c)' = IF c = command THEN n + 1 ELSE Observations(c)
        BY <2>1 DEF Observations, At, Put
    <2>4. ASSUME NEW commands
          PROVE  /\ command \in commands =>
                        ObservationsMade(commands)' = ObservationsMade(commands) \cup {new}
                 /\ command \notin commands =>
                        ObservationsMade(commands)' = ObservationsMade(commands)
        <3>1. ObservationsMade(commands)' =
                  UNION {{c} \X (1..(IF c = command THEN n + 1 ELSE Observations(c))) :
                            c \in commands}
            BY <2>3 DEF ObservationsMade
        <3>2. QED
            BY <2>2, <3>1 DEF ObservationsMade, n
    <2>5. new \notin AllObservations /\ \A commands : new \notin ObservationsMade(commands)
        BY <2>2 DEF AllObservations, ObservationsMade, n
    <2>6. ASSUME NEW commands
          PROVE  /\ IsFiniteSet(ObservationsMade(commands)')
                 /\ ObservationsOf(commands)' = ObservationsOf(commands) +
                      IF command \in commands THEN 1 ELSE 0
        BY <2>4, <2>5, SomeObservations, FS_AddElement DEF ObservationsOf
    <2>7. IsFiniteSet(AllObservations')
        BY <2>6 DEF AllObservations
    <2>8. QED
        BY <1>2, <2>6, <2>7
<1>3. QED
    BY <1>1, <1>2

\* The commands that are classified have names.
LEMMA KindsHaveNames == NoName \notin readCommands \cup writeCommands
BY DEF NoName, readCommands, writeCommands

\* What a branch counts keeps the counters in agreement.
LEMMA RespondCounts ==
    ASSUME CountersInv, NEW command \in Names, NEW r, NEW s \in Nat, NEW f \in Nat,
           CallsCounted(command, s, f), Respond(command, r, s, f)
    PROVE  CountersInv'
<1> DEFINE read == ObservationsOf(readCommands)
           written == ObservationsOf(writeCommands \ {"FLUSHALL"})
           unknown == ObservationsOf(UnknownNames)
           lindex == Observations("LINDEX")
           all == ObservationsOf(DOMAIN latency_by_command)
<1>1. CountersOK /\ IsFiniteSet(AllObservations) /\ CountersAgree /\ RecordLatency(command)
    BY DEF CountersInv, Respond
<1>2. CountersOK'
    BY <1>1, RespondType
<1>3. IsFiniteSet(AllObservations')
    BY <1>1, OneMoreObservation
<1>4. /\ read \in Nat /\ written \in Nat /\ unknown \in Nat /\ all \in Nat
      /\ lindex \in Nat /\ requests \in Nat
      /\ totalSuccessCommands \in Nat /\ totalFailureCommands \in Nat
      /\ read_commands_total \in Nat /\ write_commands_total \in Nat
    BY <1>1, SomeObservations, HandlerAssumption DEF CountersOK, IsMap, Observations, At
<1>5. /\ read' = read + IF command \in readCommands /\ command # NoName THEN 1 ELSE 0
      /\ written' = written +
            IF command \in writeCommands \ {"FLUSHALL"} /\ command # NoName THEN 1 ELSE 0
      /\ unknown' = unknown + IF command \in UnknownNames /\ command # NoName THEN 1 ELSE 0
    BY <1>1, OneMoreObservation
<1>6. all' = all + IF command # NoName THEN 1 ELSE 0
    <2>1. CASE command = NoName
        <3>1. latency_by_command' = latency_by_command
            BY <1>1, <2>1 DEF RecordLatency
        <3>2. QED
            BY <1>4, <2>1, <3>1 DEF ObservationsOf, ObservationsMade, Observations, At
    <2>2. CASE command # NoName
        <3>1. DOMAIN latency_by_command' = DOMAIN latency_by_command \cup {command}
            BY <1>1, <2>2 DEF RecordLatency, Put
        <3>2. ObservationsOf(DOMAIN latency_by_command \cup {command}) = all
            <4>1. command \notin DOMAIN latency_by_command => Observations(command) = 0
                BY DEF Observations, At
            <4>2. ObservationsMade(DOMAIN latency_by_command \cup {command}) = AllObservations
                BY <4>1, 1..0 = {} DEF ObservationsMade, AllObservations
            <4>3. QED
                BY <4>2 DEF ObservationsOf, AllObservations
        <3> QED
            BY <1>1, <2>2, <3>1, <3>2, OneMoreObservation
    <2>3. QED
        BY <2>1, <2>2
<1>7. lindex' = lindex + IF command = "LINDEX" THEN 1 ELSE 0
    <2>1. "LINDEX" # NoName
        BY KindsHaveNames DEF readCommands
    <2>2. QED
        BY <1>1, <1>4, <2>1 DEF RecordLatency, Observations, At, Put
<1>8. Increment(command, s, f) /\ requests' = requests + 1
    BY DEF Respond
<1> DEFINE Agree ==
        LET rest == totalSuccessCommands + totalFailureCommands
                        - read_commands_total - write_commands_total
        IN  /\ write_commands_total = written
            /\ read_commands_total >= read
            /\ read_commands_total =< read + lindex
            /\ rest >= unknown
            /\ rest =< requests
            /\ totalSuccessCommands =< all
<1>9. Agree
    BY <1>1, <1>4 DEF CountersAgree
<1>10. Agree' => CountersAgree'
    <2>1. /\ read' \in Nat /\ written' \in Nat /\ unknown' \in Nat /\ all' \in Nat
          /\ lindex' \in Nat /\ requests' \in Nat
        BY <1>4, <1>5, <1>6, <1>7, <1>8
    <2>2. /\ totalSuccessCommands' \in Nat /\ totalFailureCommands' \in Nat
          /\ read_commands_total' \in Nat /\ write_commands_total' \in Nat
        BY <1>2 DEF CountersOK
    <2>3. QED
        BY <2>1, <2>2 DEF CountersAgree
<1> HIDE DEF read, written, unknown, lindex, all
<1>11. Agree'
    <2>1. CASE command \in UnknownNames
        <3>1. command \notin readCommands \cup writeCommands
            BY <2>1, HandlerAssumption
        <3>2. s = 0 /\ f = 1 /\ command # "LINDEX"
            BY <2>1, <3>1 DEF CallsCounted, readCommands, writeCommands
        <3>3. /\ totalSuccessCommands' = totalSuccessCommands
              /\ totalFailureCommands' = totalFailureCommands + 1
              /\ read_commands_total' = read_commands_total
              /\ write_commands_total' = write_commands_total
            BY <1>4, <1>8, <3>1, <3>2 DEF Increment
        <3>4. /\ read' = read /\ written' = written /\ lindex' = lindex
              /\ unknown' \in {unknown, unknown + 1} /\ all' \in {all, all + 1}
            BY <1>4, <1>5, <1>6, <1>7, <3>1, <3>2
        <3>5. QED
            BY <1>4, <1>8, <1>9, <3>3, <3>4
    <2>2. CASE command \in readCommands
        <3>1. /\ command # NoName /\ command # "FLUSHALL"
              /\ command \notin writeCommands /\ command \notin UnknownNames
            BY <2>2, KindsHaveNames, HandlerAssumption DEF readCommands, writeCommands
        <3>2. /\ totalSuccessCommands' = totalSuccessCommands + s
              /\ totalFailureCommands' = totalFailureCommands + f
              /\ read_commands_total' = read_commands_total + (s + f)
              /\ write_commands_total' = write_commands_total
            BY <1>4, <1>8, <2>2, <3>1 DEF Increment
        <3>3. read' = read + 1 /\ written' = written /\ unknown' = unknown /\ all' = all + 1
            BY <1>4, <1>5, <1>6, <2>2, <3>1
        <3>4. s =< 1 /\ s + f >= 1 /\ s + f =< 1 + IF command = "LINDEX" THEN 1 ELSE 0
            BY <3>1 DEF CallsCounted
        <3>5. QED
            BY <1>4, <1>7, <1>8, <1>9, <3>2, <3>3, <3>4
    <2>3. CASE command \in writeCommands
        <3>1. /\ command # NoName /\ command # "LINDEX"
              /\ command \notin readCommands /\ command \notin UnknownNames
            BY <2>3, KindsHaveNames, HandlerAssumption DEF readCommands, writeCommands
        <3>2. /\ totalSuccessCommands' = totalSuccessCommands + s
              /\ totalFailureCommands' = totalFailureCommands + f
              /\ read_commands_total' = read_commands_total
              /\ write_commands_total' = write_commands_total + (s + f)
            BY <1>4, <1>8, <2>3, <3>1 DEF Increment
        <3>3. /\ read' = read /\ unknown' = unknown /\ all' = all + 1 /\ lindex' = lindex
              /\ written' = written + IF command = "FLUSHALL" THEN 0 ELSE 1
            BY <1>4, <1>5, <1>6, <1>7, <2>3, <3>1
        <3>4. s =< 1 /\ s + f = IF command = "FLUSHALL" THEN 0 ELSE 1
            BY <3>1 DEF CallsCounted
        <3>5. QED
            BY <1>4, <1>8, <1>9, <3>2, <3>3, <3>4
    <2>4. QED
        BY <2>1, <2>2, <2>3 DEF Names
<1>12. QED
    BY <1>2, <1>3, <1>10, <1>11 DEF CountersInv

\* A branch that counts one success.
LEMMA SucceedCounts ==
    ASSUME CountersInv, NEW command \in (readCommands \cup writeCommands) \ {"FLUSHALL"},
           NEW r, Succeed(command, r)
    PROVE  CountersInv'
<1>1. command \in Names /\ command \notin UnknownNames
    BY HandlerAssumption DEF Names
<1>2. QED
    BY <1>1, RespondCounts DEF Succeed, CallsCounted

\* A branch that counts one failure.
LEMMA FailCounts ==
    ASSUME CountersInv, NEW command \in Names \ {"FLUSHALL"}, NEW r, Fail(command, r)
    PROVE  CountersInv'
BY RespondCounts DEF Fail, CallsCounted

\* FLUSHALL counts nothing, and a LINDEX that misses counts twice.
LEMMA OddCounts ==
    ASSUME CountersInv, NEW r,
           Respond("FLUSHALL", r, 0, 0) \/ Respond("LINDEX", r, 1, 1)
    PROVE  CountersInv'
<1>1. {"FLUSHALL", "LINDEX"} \subseteq Names \ UnknownNames
    BY HandlerAssumption DEF Names, readCommands, writeCommands
<1>2. QED
    BY <1>1, RespondCounts DEF CallsCounted

\* What counts nothing may still take time from the bound on requests.
LEMMA CountersStand ==
    ASSUME CountersInv, UNCHANGED metricsVars, up' \in BOOLEAN,
           requests' \in 0..MaxRequests, requests' >= requests
    PROVE  CountersInv'
<1>1. CountersOK /\ IsFiniteSet(AllObservations) /\ CountersAgree
    BY DEF CountersInv
<1>2. CountersOK'
    BY <1>1 DEF CountersOK, metricsVars
<1>3. /\ AllObservations' = AllObservations
      /\ \A c : Observations(c)' = Observations(c)
      /\ \A commands : ObservationsOf(commands)' = ObservationsOf(commands)
    BY DEF metricsVars, AllObservations, ObservationsOf, ObservationsMade, Observations, At
<1>4. ObservationsOf(DOMAIN latency_by_command)' = ObservationsOf(DOMAIN latency_by_command)
    BY DEF metricsVars, ObservationsOf, ObservationsMade, Observations, At
<1>5. /\ totalSuccessCommands \in Nat /\ totalFailureCommands \in Nat
      /\ read_commands_total \in Nat /\ write_commands_total \in Nat
      /\ requests \in Int /\ requests' \in Int /\ ObservationsOf(UnknownNames) \in Nat
    BY <1>1, SomeObservations, HandlerAssumption DEF CountersOK
<1>6. CountersAgree'
    BY <1>1, <1>3, <1>4, <1>5 DEF CountersAgree, metricsVars
<1>7. QED
    BY <1>1, <1>2, <1>3, <1>6 DEF CountersInv

\* Every branch counts under the name of a command that exists or is unknown.
LEMMA BranchCounts ==
    ASSUME CountersInv, processCommand
    PROVE  CountersInv'
<1> USE DEF readCommands, writeCommands
<1>0. requests \in 0..MaxRequests /\ up \in BOOLEAN
    BY DEF CountersInv, CountersOK
<1>1. CASE EmptyRequest
    BY <1>0, <1>1, CountersStand, HandlerAssumption DEF EmptyRequest
<1>2. CASE TooFewTokens
    BY <1>2, FailCounts DEF TooFewTokens, NeedArguments, NeedArgumentsUnterminated, Names
<1>3. CASE Unknown
    <2>1. UnknownNames \subseteq Names \ {"FLUSHALL"}
        BY HandlerAssumption DEF Names
    <2>2. QED
        BY <1>3, <2>1, FailCounts DEF Unknown
<1>4. CASE CommonCommand
    BY <1>4, SucceedCounts, OddCounts DEF CommonCommand
<1>5. CASE BadToken
    <2>1. UNCHANGED metricsVars /\ requests' = requests /\ up' \in BOOLEAN
        BY <1>5 DEF BadToken, Die
    <2>2. requests' >= requests
        BY <1>0, <2>1, HandlerAssumption
    <2>3. QED
        BY <1>0, <2>1, <2>2, CountersStand
<1>6. ASSUME NEW k \in Keys, KeyCommand(k) PROVE CountersInv'
    BY <1>6, SucceedCounts DEF KeyCommand
<1>7. ASSUME NEW k \in Keys, ListCommand(k) PROVE CountersInv'
    <2>1. ASSUME NEW index \in Indexes, LIndex(k, index) PROVE CountersInv'
        BY <2>1, SucceedCounts, OddCounts DEF LIndex
    <2>2. ASSUME NEW index \in Indexes, NEW v \in Values, LSetRequest(k, index, v)
          PROVE  CountersInv'
        BY <2>2, SucceedCounts, FailCounts DEF LSetRequest, Names
    <2>3. ASSUME NEW count \in Counts, NEW v \in Values, LRemRequest(k, count, v)
          PROVE  CountersInv'
        BY <2>3, SucceedCounts DEF LRemRequest
    <2>4. QED
        BY <1>7, <2>1, <2>2, <2>3, SucceedCounts DEF ListCommand
<1>8. ASSUME NEW k \in Keys, HashCommand(k) PROVE CountersInv'
    BY <1>8, SucceedCounts DEF HashCommand, HDelRequest, HMSet
<1>9. QED
    BY <1>1, <1>2, <1>3, <1>4, <1>5, <1>6, <1>7, <1>8 DEF processCommand
-----------------------------------------------------------------------------
(* The store. *)

\* LSET with any index is one of the store's, or finds nothing to write.
LEMMA AnyIndex ==
    ASSUME DBTypeOK, NEW k \in Keys, NEW index \in Int, NEW v \in Values, LSet(k, index, v)
    PROVE  ReadCommand(k) \/ WriteCommand(k)
<1>1. Len(List(k)) \in Nat /\ Len(List(k)) =< MaxListLen
    BY ListType DEF Lists
<1>2. CASE index < 0 \/ index >= Len(List(k))
    BY <1>2 DEF LSet, ReadCommand
<1>3. CASE index >= 0 /\ index < Len(List(k))
    <2>1. index \in -1..MaxListLen
        BY <1>1, <1>3, DatabaseAssumption
    <2>2. QED
        BY <2>1 DEF WriteCommand
<1>4. QED
    BY <1>1, <1>2, <1>3

\* A branch takes at most one step of the store, HMSET apart, and keeps the
\* tables typed.
LEMMA BranchKeepsStore ==
    ASSUME DBTypeOK, processCommand
    PROVE  DBTypeOK'
<1>1. CASE EmptyRequest \/ TooFewTokens \/ Unknown \/ CommonCommand \/ BadToken
    <2>1. [DBNext]_dbVars
        BY <1>1 DEF EmptyRequest, TooFewTokens, Unknown, CommonCommand, BadToken, Die, DBNext
    <2>2. QED
        BY <2>1, StepType
<1>2. ASSUME NEW k \in Keys, KeyCommand(k) PROVE DBTypeOK'
    <2>1. [DBNext]_dbVars
        BY <1>2 DEF KeyCommand, DBNext, WriteCommand
    <2>2. QED
        BY <2>1, StepType
<1>3. ASSUME NEW k \in Keys, ListCommand(k) PROVE DBTypeOK'
    <2>1. ASSUME NEW index \in Indexes, NEW v \in Values, LSetRequest(k, index, v)
          PROVE  ReadCommand(k) \/ WriteCommand(k)
        BY <2>1, AnyIndex, HandlerAssumption DEF LSetRequest
    <2>2. ASSUME NEW count \in Counts, NEW v \in Values, LRemRequest(k, count, v)
          PROVE  WriteCommand(k) \/ UNCHANGED dbVars
        BY <2>2 DEF LRemRequest, WriteCommand
    <2>3. ASSUME NEW batch \in Batches, LPush(k, batch) \/ RPush(k, batch)
          PROVE  WriteCommand(k)
        BY <2>3 DEF WriteCommand
    <2>4. LPop(k) \/ RPop(k) => WriteCommand(k)
        BY DEF WriteCommand
    <2>5. TouchList(k) => ReadCommand(k)
        BY DEF ReadCommand
    <2>6. ReadCommand(k) \/ WriteCommand(k) \/ UNCHANGED dbVars
        BY <1>3, <2>1, <2>2, <2>3, <2>4, <2>5 DEF ListCommand, LIndex
    <2>7. QED
        BY <2>6, StepType DEF DBNext
<1>4. ASSUME NEW k \in Keys, HashCommand(k) PROVE DBTypeOK'
    <2>1. ASSUME NEW n \in 1..MaxPairs, NEW pairs \in [1..n -> Fields \X Values],
                 HMSet(k, pairs)
          PROVE  DBTypeOK'
        <3>1. n \in Nat /\ DOMAIN pairs \subseteq 1..n
              /\ \A i \in DOMAIN pairs : pairs[i] \in Fields \X Values
            BY HandlerAssumption
        <3>2. IsMap(Assigned(Hash(k), pairs), Fields, Values)
            BY <3>1, HashType, AssignedType
        <3>3. QED
            BY <2>1, <3>2, SetHashType DEF HMSet
    <2>2. ASSUME NEW f \in Fields, HDelRequest(k, f)
          PROVE  WriteCommand(k) \/ UNCHANGED dbVars
        BY <2>2 DEF HDelRequest, WriteCommand
    <2>3. ASSUME NEW f \in Fields, NEW v \in Values, HSet(k, f, v)
          PROVE  WriteCommand(k)
        BY <2>3 DEF WriteCommand
    <2>4. TouchHash(k) => ReadCommand(k)
        BY DEF ReadCommand
    <2>5. DBTypeOK' \/ ReadCommand(k) \/ WriteCommand(k) \/ UNCHANGED dbVars
        BY <1>4, <2>1, <2>2, <2>3, <2>4 DEF HashCommand
    <2>6. QED
        BY <2>5, StepType DEF DBNext
<1>5. QED
    BY <1>1, <1>2, <1>3, <1>4 DEF processCommand

HandlerInv == DBTypeOK /\ CountersInv

\* Every branch, and the clock, keep the store typed and the counters agreeing.
LEMMA StepKeepsInv ==
    ASSUME HandlerInv, [Next]_handlerVars
    PROVE  HandlerInv'
<1>1. DBTypeOK /\ CountersInv /\ requests \in 0..MaxRequests /\ up \in BOOLEAN
    BY DEF HandlerInv, CountersInv, CountersOK
<1>2. DBTypeOK' /\ CountersInv'
    <2>1. CASE processCommand
        BY <1>1, <2>1, BranchCounts, BranchKeepsStore
    <2>2. CASE up /\ Tick /\ UNCHANGED <<metricsVars, reply, up, requests>>
        BY <1>1, <2>2, StepType, CountersStand DEF DBNext
    <2>3. CASE UNCHANGED handlerVars
        BY <1>1, <2>3, StepType, CountersStand DEF handlerVars
    <2>4. QED
        BY <2>1, <2>2, <2>3 DEF Next
<1>3. QED
    BY <1>2 DEF HandlerInv

\* The invariant holds of every reachable state.
LEMMA Inductive == Spec => []HandlerInv
<1>1. Init => HandlerInv
    <2> SUFFICES ASSUME Init PROVE HandlerInv
        OBVIOUS
    <2>1. DBTypeOK
        BY EmptyMapType, DatabaseAssumption DEF Init, DBInit, DBTypeOK
    <2>2. IsMap(latency_by_command, Names \ {NoName}, Nat \ {0})
        BY EmptyMapType DEF Init, MetricsInit
    <2>3. CountersOK
        BY <2>2, HandlerAssumption DEF Init, MetricsInit, CountersOK
    <2>4. \A c : Observations(c) = 0
        BY DEF Init, MetricsInit, Observations, At, EmptyMap
    <2>5. \A commands : ObservationsMade(commands) = {}
        BY <2>4, 1..0 = {} DEF ObservationsMade
    <2>6. IsFiniteSet(AllObservations) /\ \A commands : ObservationsOf(commands) = 0
        BY <2>5, FS_EmptySet DEF AllObservations, ObservationsOf
    <2>7. CountersAgree
        BY <2>4, <2>6 DEF Init, MetricsInit, CountersAgree
    <2>8. QED
        BY <2>1, <2>3, <2>6, <2>7 DEF HandlerInv, CountersInv
<1>2. QED
    BY <1>1, StepKeepsInv, PTL DEF Spec

\* CommandHandler.cpp: whatever requests come, every table keeps its kind, no
\* counter goes below 0 and every latency stands under the name of a command.
THEOREM HandlerTypes == Spec => []HandlerTypeOK
<1>1. HandlerInv => HandlerTypeOK
    BY DEF HandlerInv, CountersInv, CountersOK, HandlerTypeOK, Names
<1>2. QED
    BY <1>1, Inductive, PTL

\* Metrics.cpp and CommandHandler.cpp: the counters of successes, failures,
\* reads and writes and the latencies add up after every request, but for
\* FLUSHALL, a LINDEX that misses and commands without a name.
THEOREM CountersAddUp == Spec => []CountersAgree
<1>1. HandlerInv => CountersAgree
    BY DEF HandlerInv, CountersInv
<1>2. QED
    BY <1>1, Inductive, PTL
-----------------------------------------------------------------------------
(* Errors. *)

ErrorTypes == {"error", "unterminated_error", "bulk_without_length"}

SameContents ==
    /\ UNCHANGED <<kv_store, expirey_map>>
    /\ \A k \in Keys : UNCHANGED <<List(k), Hash(k)>>

\* No key holds anything else in tables that are the same.
LEMMA SameTables == UNCHANGED dbVars => SameContents
BY DEF dbVars, SameContents, List, Hash

\* Nor when a lookup leaves an empty list behind.
LEMMA TouchedTables == ASSUME NEW k, TouchList(k) PROVE SameContents
BY DEF TouchList, SetList, SameContents, List, Hash, At, Put

\* A command on a key has no error beyond the missing tokens.
LEMMA KeyErrors ==
    ASSUME NEW k \in Keys, KeyCommand(k)
    PROVE  reply'.type \notin ErrorTypes
BY DEF KeyCommand, Succeed, Respond, ErrorTypes, Status, Bulk, Nil, Flag, Number

\* LINDEX and LSET have errors, after they looked the list up.
LEMMA ListErrors ==
    ASSUME DBTypeOK, NEW k \in Keys, ListCommand(k), reply'.type \in ErrorTypes
    PROVE  SameContents
<1> USE DEF Succeed, Respond, ErrorTypes, Status, Bulk, Nil, Number, Array, BulkOrNil
<1>1. ASSUME NEW index \in Indexes, LIndex(k, index) PROVE SameContents
    BY <1>1, TouchedTables DEF LIndex
<1>2. ASSUME NEW index \in Indexes, NEW v \in Values, LSetRequest(k, index, v)
      PROVE  SameContents
    <2>1. ~InRange(k, index)
        BY <1>2 DEF LSetRequest
    <2>2. index \in Int
        BY HandlerAssumption
    <2>3. LSet(k, index, v)
        BY <1>2 DEF LSetRequest
    <2>4. Len(List(k)) \in Nat
        BY ListType DEF Lists
    <2>5. TouchList(k)
        BY <2>1, <2>2, <2>3, <2>4 DEF InRange, LSet
    <2>6. QED
        BY <2>5, TouchedTables
<1>3. ASSUME NEW count \in Counts, NEW v \in Values, LRemRequest(k, count, v)
      PROVE  FALSE
    BY <1>3 DEF LRemRequest
<1>4. QED
    BY <1>1, <1>2, <1>3 DEF ListCommand

\* Nor has a command on a hash.
LEMMA HashErrors ==
    ASSUME NEW k \in Keys, HashCommand(k)
    PROVE  reply'.type \notin ErrorTypes
BY DEF HashCommand, HDelRequest, HMSet, Succeed, Respond, ErrorTypes, Status, Bulk, Nil,
       Flag, Number, Array, BulkOrNil

\* CommandHandler.cpp: a branch that answers with an error, in whatever form,
\* has changed no key and no deadline, though it may have looked one up.
THEOREM ErrorsAreHarmless == Spec => ErrorsChangeNothing
<1>1. HandlerTypeOK /\ [Next]_handlerVars =>
          [Replied(ErrorTypes) => SameContents]_handlerVars
    <2> SUFFICES ASSUME HandlerTypeOK, Next, Replied(ErrorTypes) PROVE SameContents
        OBVIOUS
    <2>1. reply'.type \in ErrorTypes /\ requests' # requests /\ DBTypeOK
        BY DEF Replied, HandlerTypeOK
    <2>2. processCommand
        BY <2>1 DEF Next
    <2>3. CASE EmptyRequest \/ TooFewTokens \/ Unknown
        BY <2>3, SameTables DEF EmptyRequest, TooFewTokens, Unknown
    <2>4. CASE CommonCommand
        BY <2>1, <2>4
        DEF CommonCommand, Succeed, Respond, ErrorTypes, Status, Array
    <2>5. CASE BadToken
        BY <2>1, <2>5 DEF BadToken, Die
    <2>6. QED
        BY <2>1, <2>2, <2>3, <2>4, <2>5, KeyErrors, ListErrors, HashErrors DEF processCommand
<1>2. QED
    BY <1>1, HandlerTypes, PTL DEF Spec, ErrorsChangeNothing, ErrorTypes, SameContents
-----------------------------------------------------------------------------
(* Pops. *)

ShownBy(r) == IF r.type = "bulk" THEN r.value ELSE EmptyString

\* Every list loses nothing, or its first or last element, which is x.
Loses(x) ==
    \A k \in Keys :
        List(k) \in {List(k)', <<x>> \o List(k)', Append(List(k)', x)}

\* Lists that are the same have lost nothing.
LEMMA SameListsLoseNothing == ASSUME NEW x, SameContents PROVE Loses(x)
BY DEF SameContents, Loses

\* LPOP takes the first element and shows it.
LEMMA FirstIsShown ==
    ASSUME DBTypeOK, NEW k \in Keys, LPop(k),
           reply' = IF Len(List(k)) = 0 THEN Nil ELSE BulkOrNil(Head(List(k)))
    PROVE  Loses(ShownBy(reply'))
<1> DEFINE l == List(k)
<1>1. l \in Seq(Values)
    BY ListType DEF Lists
<1>2. CASE l = <<>>
    <2>1. TouchList(k)
        BY <1>2 DEF LPop
    <2>2. QED
        BY <2>1, TouchedTables, SameListsLoseNothing
<1>3. CASE l # <<>>
    <2>1. ShownBy(reply') = Head(l)
        <3>1. Len(l) # 0
            BY <1>1, <1>3
        <3>2. reply' = BulkOrNil(Head(l))
            BY <3>1
        <3>3. QED
            BY <3>2 DEF BulkOrNil, Bulk, Nil, ShownBy
    <2>2. SetList(k, Tail(l))
        BY <1>3 DEF LPop
    <2>3. l = <<Head(l)>> \o Tail(l)
        BY <1>1, <1>3
    <2>4. \A j \in Keys : List(j)' = IF j = k THEN Tail(l) ELSE List(j)
        BY <2>2 DEF SetList, List, At, Put
    <2>5. QED
        BY <2>1, <2>3, <2>4 DEF Loses
<1>4. QED
    BY <1>2, <1>3

\* RPOP takes the last one and shows it.
LEMMA LastIsShown ==
    ASSUME DBTypeOK, NEW k \in Keys, RPop(k),
           reply' = IF Len(List(k)) = 0 THEN Nil ELSE BulkOrNil(Last(List(k)))
    PROVE  Loses(ShownBy(reply'))
<1> DEFINE l == List(k)
<1>1. l \in Seq(Values)
    BY ListType DEF Lists
<1>2. CASE l = <<>>
    <2>1. TouchList(k)
        BY <1>2 DEF RPop
    <2>2. QED
        BY <2>1, TouchedTables, SameListsLoseNothing
<1>3. CASE l # <<>>
    <2>1. ShownBy(reply') = Last(l)
        <3>1. Len(l) # 0
            BY <1>1, <1>3
        <3>2. reply' = BulkOrNil(Last(l))
            BY <3>1
        <3>3. QED
            BY <3>2 DEF BulkOrNil, Bulk, Nil, ShownBy
    <2>2. SetList(k, Front(l))
        BY <1>3 DEF RPop
    <2>3. l = Append(Front(l), Last(l))
        BY <1>1, <1>3 DEF Front, Last
    <2>4. \A j \in Keys : List(j)' = IF j = k THEN Front(l) ELSE List(j)
        BY <2>2 DEF SetList, List, At, Put
    <2>5. QED
        BY <2>1, <2>3, <2>4 DEF Loses
<1>4. QED
    BY <1>2, <1>3

\* CommandHandler.cpp 311 and 323: what LPOP and RPOP take out of a list is
\* what their reply stands for, a nil for the empty string; no other command
\* that replies with a string or nil takes anything.
THEOREM PopsShowAll == Spec => PopsReturnWhatTheyRemove
<1>1. HandlerTypeOK /\ [Next]_handlerVars =>
          [Replied({"bulk", "nil"}) => Loses(ShownBy(reply'))]_handlerVars
    <2> SUFFICES ASSUME HandlerTypeOK, Next, Replied({"bulk", "nil"})
                 PROVE  Loses(ShownBy(reply'))
        OBVIOUS
    <2> USE DEF Succeed, Fail, Respond, Status, Error, Number, Flag, Array, UnterminatedError,
                BadLength
    <2>1. /\ reply'.type \in {"bulk", "nil"} /\ requests' # requests
          /\ DBTypeOK
        BY DEF Replied, HandlerTypeOK
    <2>2. UNCHANGED dbVars => Loses(ShownBy(reply'))
        BY SameTables, SameListsLoseNothing
    <2>3. processCommand
        BY <2>1 DEF Next
    <2>4. CASE EmptyRequest \/ TooFewTokens \/ Unknown \/ CommonCommand \/ BadToken
        BY <2>1, <2>4
        DEF EmptyRequest, TooFewTokens, Unknown, CommonCommand, BadToken, Die
    <2>5. ASSUME NEW k \in Keys, KeyCommand(k) PROVE Loses(ShownBy(reply'))
        BY <2>1, <2>2, <2>5 DEF KeyCommand
    <2>6. ASSUME NEW k \in Keys, ListCommand(k) PROVE Loses(ShownBy(reply'))
        <3>1. ASSUME NEW index \in Indexes, LIndex(k, index) PROVE Loses(ShownBy(reply'))
            BY <3>1, TouchedTables, SameListsLoseNothing DEF LIndex
        <3>2. ASSUME NEW index \in Indexes, NEW v \in Values, LSetRequest(k, index, v)
              PROVE  FALSE
            BY <2>1, <3>2 DEF LSetRequest
        <3>3. ASSUME NEW count \in Counts, NEW v \in Values, LRemRequest(k, count, v)
              PROVE  FALSE
            BY <2>1, <3>3 DEF LRemRequest
        <3>4. QED
            BY <2>1, <2>6, <3>1, <3>2, <3>3, FirstIsShown, LastIsShown DEF ListCommand
    <2>7. ASSUME NEW k \in Keys, HashCommand(k) PROVE Loses(ShownBy(reply'))
        BY <2>1, <2>2, <2>7 DEF HashCommand, HDelRequest, HMSet
    <2>8. QED
        BY <2>3, <2>4, <2>5, <2>6, <2>7 DEF processCommand
<1>2. QED
    BY <1>1, HandlerTypes, PTL DEF Spec, PopsReturnWhatTheyRemove, Loses, ShownBy
=============================================================================
