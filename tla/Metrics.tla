------------------------------ MODULE Metrics -------------------------------
(***************************************************************************)
(* The counters of class Metrics as the event loop updates them.  Only the *)
(* loop writes them, so a command's increments are taken together.         *)
(***************************************************************************)
EXTENDS Collections, CommandKinds

VARIABLES
    totalSuccessCommands,
    totalFailureCommands,
    read_commands_total,
    write_commands_total,
    latency_by_command  \* the number of observations under each command name

metricsVars ==
    <<totalSuccessCommands, totalFailureCommands,
      read_commands_total, write_commands_total, latency_by_command>>

MetricsInit ==
    /\ totalSuccessCommands = 0
    /\ totalFailureCommands = 0
    /\ read_commands_total = 0
    /\ write_commands_total = 0
    /\ latency_by_command = EmptyMap

\* A slip: failures not classified as reads or writes.
Increment_Successes(command, successes, failures) ==
    /\ totalSuccessCommands' = totalSuccessCommands + successes
    /\ totalFailureCommands' = totalFailureCommands + failures
    /\ read_commands_total' =
          read_commands_total + IF command \in readCommands THEN successes ELSE 0
    /\ write_commands_total' =
          write_commands_total + IF command \in writeCommands THEN successes ELSE 0

\* So many calls of incrementSuccessfullCommand and incrementFailureCommand;
\* each classifies the command anew.
Increment(command, successes, failures) ==
    LET calls == successes + failures
    IN  /\ totalSuccessCommands' = totalSuccessCommands + successes
        /\ totalFailureCommands' = totalFailureCommands + failures
        /\ read_commands_total' =
              read_commands_total + IF command \in readCommands THEN calls ELSE 0
        /\ write_commands_total' =
              write_commands_total + IF command \in writeCommands THEN calls ELSE 0

Observations(command) == At(latency_by_command, command, 0)

\* A slip: a command without a name not ignored.
RecordLatency_Nameless(command) ==
    latency_by_command' = Put(latency_by_command, command, Observations(command) + 1)

\* recordCommandLatency ignores a command without a name.
RecordLatency(command) ==
    latency_by_command' =
        IF command = NoName
        THEN latency_by_command
        ELSE Put(latency_by_command, command, Observations(command) + 1)

\* The observations of the commands in a set of names, and how many they are.
ObservationsMade(commands) == UNION {{c} \X (1..Observations(c)) : c \in commands}
ObservationsOf(commands) == Cardinality(ObservationsMade(commands))
=============================================================================
