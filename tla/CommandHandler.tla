--------------------------- MODULE CommandHandler ---------------------------
(***************************************************************************)
(* commandHandler::processCommand: one request in, one reply out.  Every   *)
(* action is the branch of one command: what it asks of the Database, what *)
(* it counts in Metrics, and the reply.  Requests are their tokens, parsed *)
(* already.                                                                *)
(*                                                                         *)
(* A token that std::stoi or std::stoll rejects ends the process: nothing  *)
(* catches the exception.  A token that is read though the request has too *)
(* few is undefined behaviour: any value is read, or the process ends.     *)
(***************************************************************************)
EXTENDS Database, Metrics

CONSTANTS
    EmptyString,   \* the string ""
    UnknownNames,  \* names of commands that do not exist
    Indexes,       \* the positions given to LSET and LINDEX
    MaxPairs,      \* bound: field-value pairs in one HMSET
    MaxRequests    \* bound: requests processed

ASSUME HandlerAssumption ==
    /\ UnknownNames \cap (readCommands \cup writeCommands) = {}
    /\ Indexes \subseteq Int
    /\ MaxPairs \in Nat
    /\ MaxRequests \in Nat

VARIABLES
    reply,    \* the reply to the last request
    up,       \* the process is alive
    requests  \* number of requests processed

handlerVars == <<dbVars, metricsVars, reply, up, requests>>

Init ==
    /\ DBInit
    /\ MetricsInit
    /\ reply = [type |-> "none"]
    /\ up = TRUE
    /\ requests = 0
-----------------------------------------------------------------------------
(* Replies. *)

Status(text) == [type |-> "status", value |-> text]
Error == [type |-> "error"]
Nil == [type |-> "nil"]
Bulk(value) == [type |-> "bulk", value |-> value]
Number(n) == [type |-> "integer", value |-> n]
Flag(b) == Number(IF b THEN 1 ELSE 0)
Array(announced, sent) == [type |-> "array", announced |-> announced, sent |-> sent]

\* Replies that are not RESP: an error without its line end, and the text
\* of an error where the length of a bulk string should be.
UnterminatedError == [type |-> "unterminated_error"]
BadLength == [type |-> "bulk_without_length"]

\* lpop, rpop and hget return "" for what is missing, so the handler takes what
\* is there and empty for missing too.
BulkOrNil(value) == IF value = EmptyString THEN Nil ELSE Bulk(value)
-----------------------------------------------------------------------------
(* What every branch ends with. *)

Respond(command, r, successes, failures) ==
    /\ up
    /\ requests < MaxRequests
    /\ requests' = requests + 1
    /\ reply' = r
    /\ Increment(command, successes, failures)
    /\ RecordLatency(command)
    /\ UNCHANGED up

Succeed(command, r) == Respond(command, r, 1, 0)
Fail(command, r) == Respond(command, r, 0, 1)

Die ==
    /\ up
    /\ up' = FALSE
    /\ UNCHANGED <<dbVars, metricsVars, reply, requests>>

\* Commands whose branch asks for more tokens than the request may have; the
\* second group leaves the line end out of the error.
NeedArguments ==
    {"ECHO", "SET", "GET", "TYPE", "DEL", "UNLINK", "EXPIRE", "RENAME"}

NeedArgumentsUnterminated ==
    {"LSET", "LGET", "LLEN", "LPUSH", "RPUSH", "LPOP", "RPOP", "LREM", "LINDEX",
     "HSET", "HGET", "HEXISTS", "HDEL", "HLEN", "HKEYS", "HVALS", "HGETALL",
     "HMSET"}

TooFewTokens ==
    /\ \/ \E command \in NeedArguments : Fail(command, Error)
       \/ \E command \in NeedArgumentsUnterminated : Fail(command, UnterminatedError)
    /\ UNCHANGED dbVars

\* No token at all: the handler returns before it counts anything.
EmptyRequest ==
    /\ up
    /\ requests < MaxRequests
    /\ requests' = requests + 1
    /\ reply' = Error
    /\ UNCHANGED <<dbVars, metricsVars, up>>

Unknown ==
    /\ \E command \in UnknownNames : Fail(command, Error)
    /\ UNCHANGED dbVars

-----------------------------------------------------------------------------
(* The commands. *)

CommonCommand ==
    \/ Succeed("PING", Status("PONG")) /\ UNCHANGED dbVars
    \/ Succeed("ECHO", Status("message")) /\ UNCHANGED dbVars
    \/ FlushAll /\ Respond("FLUSHALL", Status("OK"), 0, 0)
    \/ Succeed("KEYS", Array(KeysListed, KeysListed)) /\ UNCHANGED dbVars

KeyCommand(k) ==
    \/ \E v \in Values : Set(k, v) /\ Succeed("SET", Status("OK"))
    \/ /\ Succeed("GET", IF k \in DOMAIN kv_store THEN Bulk(kv_store[k]) ELSE Nil)
       /\ UNCHANGED dbVars
    \/ Succeed("TYPE", Status(TypeOf(k))) /\ UNCHANGED dbVars
    \/ \E command \in {"DEL", "UNLINK"} : Del(k) /\ Succeed(command, Flag(Exists(k)))
    \/ \E seconds \in TTLs : Expire(k, seconds) /\ Succeed("EXPIRE", Status("OK"))
    \/ ~Exists(k) /\ Succeed("EXPIRE", Nil) /\ UNCHANGED dbVars
    \/ \E new \in Keys : Rename(k, new) /\ Succeed("RENAME", Status("OK"))

InRange(k, index) == index >= 0 /\ index < Len(List(k))

\* A miss, and an empty element, count as a failure and as a success.
LIndex(k, index) ==
    LET value == IF InRange(k, index) THEN List(k)[index + 1] ELSE EmptyString
    IN  /\ TouchList(k)
        /\ IF value = EmptyString
           THEN Respond("LINDEX", BadLength, 1, 1)
           ELSE Succeed("LINDEX", Bulk(value))

LSetRequest(k, index, v) ==
    /\ LSet(k, index, v)
    /\ IF InRange(k, index) THEN Succeed("LSET", Status("OK")) ELSE Fail("LSET", Error)

LRemRequest(k, count, v) ==
    IF k \in DOMAIN list_store
    THEN /\ LRem(k, count, v)
         /\ Succeed("LREM", Number(Len(List(k)) - Len(list_store'[k])))
    ELSE Succeed("LREM", Number(0)) /\ UNCHANGED dbVars

ListCommand(k) ==
    LET size == Len(List(k))
    IN  \/ TouchList(k) /\ Succeed("LGET", Array(size, size))
        \/ TouchList(k) /\ Succeed("LLEN", Number(size))
        \/ \E batch \in Batches :
            \/ LPush(k, batch) /\ Succeed("LPUSH", Number(size + Len(batch)))
            \/ RPush(k, batch) /\ Succeed("RPUSH", Number(size + Len(batch)))
        \/ /\ LPop(k)
           /\ Succeed("LPOP", IF size = 0 THEN Nil ELSE BulkOrNil(Head(List(k))))
        \/ /\ RPop(k)
           /\ Succeed("RPOP", IF size = 0 THEN Nil ELSE BulkOrNil(Last(List(k))))
        \/ \E index \in Indexes :
            LIndex(k, index) \/ \E v \in Values : LSetRequest(k, index, v)
        \/ \E count \in Counts, v \in Values : LRemRequest(k, count, v)

\* One hset for each pair, in order.
HMSet(k, pairs) ==
    /\ SetHash(k, Assigned(Hash(k), pairs))
    /\ Succeed("HMSET", Status("OK"))

HDelRequest(k, f) ==
    /\ IF k \in DOMAIN hash_store THEN HDel(k, f) ELSE UNCHANGED dbVars
    /\ Succeed("HDEL", Flag(f \in DOMAIN Hash(k)))

\* HGETALL announces the number of fields and sends twice as many strings.
HashCommand(k) ==
    LET size == Cardinality(DOMAIN Hash(k))
    IN  \/ TouchHash(k) /\ Succeed("HLEN", Number(size))
        \/ \E command \in {"HKEYS", "HVALS"} :
            TouchHash(k) /\ Succeed(command, Array(size, size))
        \/ TouchHash(k) /\ Succeed("HGETALL", Array(size, 2 * size))
        \/ \E f \in Fields :
            \/ /\ Succeed("HGET", IF f \in DOMAIN Hash(k)
                                  THEN BulkOrNil(Hash(k)[f])
                                  ELSE Nil)
               /\ UNCHANGED dbVars
            \/ Succeed("HEXISTS", Flag(f \in DOMAIN Hash(k))) /\ UNCHANGED dbVars
            \/ HDelRequest(k, f)
            \/ \E v \in Values :
                HSet(k, f, v) /\ Succeed("HSET", Flag(f \notin DOMAIN Hash(k)))
        \/ \E n \in 1..MaxPairs : \E pairs \in [1..n -> Fields \X Values] :
            HMSet(k, pairs)

\* LSET, LREM, LINDEX or EXPIRE with a word for a number; LSET or LREM with
\* three tokens and HMSET with a field too many, which read past the last.
BadToken == Die

processCommand ==
    \/ EmptyRequest \/ TooFewTokens \/ Unknown \/ CommonCommand \/ BadToken
    \/ \E k \in Keys : KeyCommand(k) \/ ListCommand(k) \/ HashCommand(k)

Next ==
    \/ processCommand
    \/ up /\ Tick /\ UNCHANGED <<metricsVars, reply, up, requests>>

Spec == Init /\ [][Next]_handlerVars
-----------------------------------------------------------------------------
(* Properties. *)

Replied(types) == requests' # requests /\ reply'.type \in types

\* Every counter counts and only commands that have a name have a latency: a
\* request with an empty first token is counted in the totals alone.
HandlerTypeOK ==
    /\ DBTypeOK
    /\ {totalSuccessCommands, totalFailureCommands, read_commands_total,
        write_commands_total} \subseteq Nat
    /\ IsMap(latency_by_command,
             (readCommands \cup writeCommands \cup UnknownNames) \ {NoName}, Nat \ {0})
    /\ requests \in 0..MaxRequests
    /\ up \in BOOLEAN

\* The counters agree with each other, FLUSHALL and LINDEX apart: a command
\* that is a write is counted once as one, a read once (LINDEX perhaps twice),
\* and no command is counted in the totals and missing elsewhere but those
\* without a name.
CountersAgree ==
    LET total == totalSuccessCommands + totalFailureCommands
    IN  /\ write_commands_total = ObservationsOf(writeCommands \ {"FLUSHALL"})
        /\ read_commands_total - ObservationsOf(readCommands) \in 0..Observations("LINDEX")
        /\ total - read_commands_total - write_commands_total
              \in ObservationsOf(UnknownNames)..requests
        /\ totalSuccessCommands =< ObservationsOf(DOMAIN latency_by_command)

\* A command that is answered with an error, in whatever form, leaves what
\* every key holds, and its deadline, as it was.
ErrorsChangeNothing ==
    [][Replied({"error", "unterminated_error", "bulk_without_length"}) =>
          /\ UNCHANGED <<kv_store, expirey_map>>
          /\ \A k \in Keys : UNCHANGED <<List(k), Hash(k)>>]_handlerVars

\* A string popped from a list is the one in the reply, even when a stored
\* empty string is answered with nil: what a reply does not show is not lost.
PopsReturnWhatTheyRemove ==
    [][Replied({"bulk", "nil"}) =>
          LET shown == IF reply'.type = "bulk" THEN reply'.value ELSE EmptyString
          IN  \A k \in Keys :
                 List(k) \in {List(k)', <<shown>> \o List(k)', Append(List(k)', shown)}]_handlerVars
=============================================================================
