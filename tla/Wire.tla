-------------------------------- MODULE Wire --------------------------------
(***************************************************************************)
(* What client and server write on a connection and what they make of what *)
(* they read: the requests of Client and of a plain terminal, the recv of  *)
(* the server with its parser, the replies, and the recv of the client     *)
(* with its parser.  Neither side keeps a byte between two calls of recv.  *)
(*                                                                         *)
(* The streams are sequences of atoms: a line end, a decimal number with   *)
(* its sign, a mark or a letter.  Lengths count atoms.  A message that is  *)
(* shorter than RecvSize is delivered whole, which TCP does not promise.   *)
(***************************************************************************)
EXTENDS Collections

CONSTANTS
    Star, Dollar, Plus, Minus, Colon, Space, Eol,  \* atoms with a meaning
    Letters,     \* the other atoms, numbers apart
    Commands,    \* the requests, as sequences of words
    Echo,        \* the first word of ECHO
    Numeric,     \* first words of commands that take their third word for a number
    Expire,      \* the one of them that does so only for a key that is there
    Replies,     \* what processCommand answers, by first word, ECHO apart
    RecvSize,    \* the most that one recv returns, on either side
    SendRoom,    \* what the socket takes of one reply
    MaxRequests  \* bound: requests sent

Marks == {Star, Dollar, Plus, Minus, Colon, Space, Eol}
Words == Seq(Marks \cup Letters \cup Int)

\* The replies of the branches of processCommand.  HGETALL announces half of
\* its elements.
AnyReply ==
         [type : {"status", "error", "unterminated_error", "bulk"}, text : Words]
    \cup [type : {"integer"}, number : Int]
    \cup [type : {"nil", "bulk_without_length"}]
    \cup {r \in [type : {"array"}, announced : Nat, elements : Seq(Words)] :
            r.announced =< Len(r.elements)}

ASSUME WireAssumption ==
    /\ Commands \subseteq Seq(Words) \ {<<>>}
    /\ {RecvSize, SendRoom, MaxRequests} \subseteq Nat \ {0}
    /\ IsInjective(<<Star, Dollar, Plus, Minus, Colon, Space, Eol>>)
    /\ Marks \cap Int = {}
    /\ Echo \notin DOMAIN Replies
    /\ \A name \in DOMAIN Replies : Replies[name] \subseteq AnyReply

VARIABLES
    client,    \* idle, waiting for a reply, dead of an exception, or without a server
    server,    \* up, or dead of an exception
    toServer,  \* written by the client and not received yet
    toClient,  \* written by the server and not received yet
    sent,      \* history: the requests
    executed,  \* history: the requests as processCommand saw them
    answers,   \* history: the replies
    results    \* history: the replies as the client showed them

vars == <<client, server, toServer, toClient, sent, executed, answers, results>>

Init ==
    /\ client = "idle" /\ server = "up"
    /\ toServer = <<>> /\ toClient = <<>>
    /\ sent = <<>> /\ executed = <<>> /\ answers = <<>> /\ results = <<>>
-----------------------------------------------------------------------------
(* What both parsers are made of. *)

\* input.find("\r\n", from), or 0.
FindEol(input, from) ==
    LET ends == {i \in from..Len(input) : input[i] = Eol}
    IN  IF ends = {} THEN 0 ELSE Min(ends)

\* Where a scan goes on behind a line end; npos + 2 is the second position.
BehindEol(end) == IF end = 0 THEN 2 ELSE end + 1

\* input.substr(first, length): a negative length is converted to a huge one.
Substr(input, first, length) ==
    SubSeq(input, first, IF length < 0 THEN Len(input) ELSE Least(first + length - 1, Len(input)))

\* std::stoi skips blanks and throws unless a number follows.
Unblanked(text) ==
    LET others == {i \in DOMAIN text : text[i] \notin {Space, Eol}}
    IN  IF others = {} THEN <<>> ELSE SubSeq(text, Min(others), Len(text))
StoiThrows(text) == Unblanked(text) = <<>> \/ Head(Unblanked(text)) \notin Int
Stoi(text) == Head(Unblanked(text))

\* How often a loop runs to a bound that may be negative.
Turns(bound) == IF bound < 0 THEN 0 ELSE bound
-----------------------------------------------------------------------------
(* Requests. *)

\* An element of an array, and an array.
BulkString(word) == <<Dollar, Len(word), Eol>> \o word \o <<Eol>>
ArrayOf(announced, words) ==
    <<Star, announced, Eol>> \o FlattenSeq([i \in DOMAIN words |-> BulkString(words[i])])

\* A slip: the name of the command not announced.
parseSendCommand_Arguments(tokens) == ArrayOf(Len(tokens) - 1, tokens)

parseSendCommand(tokens) == ArrayOf(Len(tokens), tokens)

\* What a person types at a terminal: words and blanks.
Typed(tokens) ==
    FlattenSeq([i \in DOMAIN tokens |-> IF i = 1 THEN tokens[i] ELSE <<Space>> \o tokens[i]])

CanBeTyped(tokens) ==
    /\ \A i \in DOMAIN tokens : tokens[i] # <<>> /\ Range(tokens[i]) \cap {Space, Eol} = {}
    /\ tokens[1][1] # Star

Request(tokens, data) ==
    /\ client = "idle"
    /\ Len(sent) < MaxRequests
    /\ client' = "waiting"
    /\ toServer' = toServer \o data
    /\ sent' = Append(sent, tokens)
    /\ UNCHANGED <<server, toClient, executed, answers, results>>

\* sendCommand adds a line end to a request that has all of its own.
sendCommand == \E c \in Commands : Request(c, parseSendCommand(c) \o <<Eol>>)

Type == \E c \in Commands : CanBeTyped(c) /\ Request(c, Typed(c) \o <<Eol>>)
-----------------------------------------------------------------------------
(* The server. *)

\* input >> token: the words between blanks and line ends.
WordsOf(input) ==
    LET blank(i) == input[i] \in {Space, Eol}
        starts == {i \in DOMAIN input : ~blank(i) /\ (i > 1 => blank(i - 1))}
        end(i) == Max({j \in i..Len(input) : \A m \in i..j : ~blank(m)})
    IN  CHOOSE words \in {[w \in DOMAIN e |-> SubSeq(input, e[w], end(e[w]))] :
                            e \in Increasing(starts)} : TRUE

\* One turn of the parser's loop.
NextToken(input, parser) ==
    LET end == FindEol(input, parser.position + 1)
        text == SubSeq(input, parser.position + 1, end - 1)
    IN  IF \/ parser.state # "reading"
           \/ parser.position > Len(input)
           \/ input[parser.position] # Dollar
           \/ end = 0
        THEN parser
        ELSE IF StoiThrows(text)
        THEN [parser EXCEPT !.state = "thrown"]
        ELSE IF end + Stoi(text) \notin 0..Len(input)
        THEN [parser EXCEPT !.state = "stopped"]
        ELSE [parser EXCEPT
                !.tokens = Append(@, Substr(input, end + 1, Stoi(text))),
                !.position = end + Stoi(text) + 2]

Parsed(tokens, state, position) ==
    [tokens |-> tokens, state |-> state, position |-> position]

parseRespCommand(input) ==
    LET end == FindEol(input, 2)
        text == SubSeq(input, 2, end - 1)
        turns[i \in Nat] ==
            IF i = 0
            THEN Parsed(<<>>, "reading", end + 1)
            ELSE NextToken(input, turns[i - 1])
    IN  IF input[1] # Star THEN Parsed(WordsOf(input), "stopped", 1)
        ELSE IF end = 0 THEN Parsed(<<>>, "stopped", 1)
        ELSE IF StoiThrows(text) THEN Parsed(<<>>, "thrown", 1)
        ELSE turns[Turns(Stoi(text))]

\* The replies of processCommand as they are written.  The miss of LINDEX puts
\* the words of an error where the length of a bulk string belongs.
Encode(reply) ==
    CASE reply.type = "status" -> <<Plus>> \o reply.text \o <<Eol>>
      [] reply.type = "error" -> <<Minus>> \o reply.text \o <<Eol>>
      [] reply.type = "unterminated_error" -> <<Minus>> \o reply.text
      [] reply.type = "integer" -> <<Colon, reply.number, Eol>>
      [] reply.type = "nil" -> <<Dollar, -1, Eol>>
      [] reply.type = "bulk" -> BulkString(reply.text)
      [] reply.type = "bulk_without_length" -> <<Dollar, Minus, Eol>>
      [] reply.type = "array" -> ArrayOf(reply.announced, reply.elements)

AnError(text) == [type |-> "error", text |-> text]

FirstOf(stream, n) == SubSeq(stream, 1, Least(n, Len(stream)))
RestOf(stream, n) == SubSeq(stream, n + 1, Len(stream))

\* ECHO repeats its message; the error for an unknown command, its name.
RepliesTo(tokens) ==
    IF tokens = <<>> THEN {AnError(<<>>)}
    ELSE IF tokens[1] \in DOMAIN Replies THEN Replies[tokens[1]]
    ELSE IF tokens[1] = Echo /\ Len(tokens) > 1
    THEN {[type |-> "status", text |-> tokens[2]]}
    ELSE {AnError(tokens[1])}

\* A word where a number belongs: nobody catches what std::stoi throws.
Throws(tokens) ==
    Len(tokens) > 2 /\ tokens[1] \in Numeric /\ StoiThrows(tokens[3])

\* The exception; or the reply, and send: what the socket does not take is lost.
processCommand(tokens) ==
    /\ executed' = IF tokens = <<>> THEN executed ELSE Append(executed, tokens)
    /\ \/ /\ Throws(tokens)
          /\ server' = "dead"
          /\ UNCHANGED <<toClient, answers>>
       \/ /\ Throws(tokens) => tokens[1] = Expire
          /\ \E reply \in RepliesTo(tokens) :
                /\ answers' = Append(answers, reply)
                /\ toClient' = toClient \o FirstOf(Encode(reply), SendRoom)
          /\ UNCHANGED server

\* One recv is taken for one request.
Serve ==
    /\ server = "up" /\ toServer # <<>>
    /\ toServer' = RestOf(toServer, RecvSize)
    /\ \E request \in {parseRespCommand(FirstOf(toServer, RecvSize))} :
        IF request.state = "thrown"
        THEN server' = "dead" /\ UNCHANGED <<toClient, executed, answers>>
        ELSE processCommand(request.tokens)
    /\ UNCHANGED <<client, sent, results>>
-----------------------------------------------------------------------------
(* The client. *)

\* A slip: everything from the second atom on.
Line_ToTheEnd(input) == Tail(input)

\* From the second atom to the first line end, or to the end.
Line(input) ==
    LET end == FindEol(input, 1)
    IN  SubSeq(input, 2, IF end = 0 THEN Len(input) ELSE end - 1)

\* A slip: the line end behind the element forgotten.
BehindElement_Adjacent(first, length) == first + length

\* The next element begins behind the line end that follows this one.
BehindElement(first, length) == first + length + 1

\* One turn of the loop over the elements of an array.  A line end that is not
\* found, or found at once, ends no text.
NextElement(input, reader) ==
    LET i == reader.position
        end == FindEol(input, i)
        text == SubSeq(input, i + 1, IF end > i THEN end - 1 ELSE Len(input))
        first == BehindEol(end)
    IN  IF reader.state # "reading" THEN reader
        ELSE IF i \notin 1..Len(input) \/ StoiThrows(text) \/ first > Len(input) + 1
        THEN [reader EXCEPT !.state = "thrown"]
        ELSE IF Stoi(text) = -1
        THEN [reader EXCEPT !.position = first, !.shown = Append(@, <<-1>>)]
        ELSE [reader EXCEPT
                !.position = BehindElement(first, Stoi(text)),
                !.shown = Append(@, Substr(input, first, Stoi(text)))]

Read(shown, state, position) ==
    [shown |-> shown, state |-> state, position |-> position]

parseResponse(input) ==
    LET turns[k \in Nat] ==
            IF k = 0
            THEN Read(<<>>, "reading", BehindEol(FindEol(input, 1)))
            ELSE NextElement(input, turns[k - 1])
    IN  CASE input[1] \in {Plus, Minus, Colon} ->
                 Read(<<Line(input)>>, "reading", 1)
          [] input[1] \in {Dollar, Star} /\ StoiThrows(Line(input)) ->
                 Read(<<>>, "thrown", 1)
          [] input[1] = Dollar /\ ~StoiThrows(Line(input)) ->
                 NextElement(input, Read(<<>>, "reading", 1))
          [] input[1] = Star /\ ~StoiThrows(Line(input)) ->
                 turns[Turns(Stoi(Line(input)))]
          [] OTHER -> Read(<<input>>, "reading", 1)

\* receiveResponse and parseResponse.
Receive ==
    /\ client = "waiting" /\ toClient # <<>>
    /\ toClient' = RestOf(toClient, RecvSize)
    /\ \E response \in {parseResponse(FirstOf(toClient, RecvSize))} :
        IF response.state = "thrown"
        THEN client' = "dead" /\ UNCHANGED results
        ELSE client' = "idle" /\ results' = Append(results, response.shown)
    /\ UNCHANGED <<server, toServer, sent, executed, answers>>

\* recv of a client whose server is gone returns nothing, and the client says so.
\* What it asks of the closed socket after that is left out.
EndOfStream ==
    /\ client = "waiting" /\ toClient = <<>> /\ server = "dead"
    /\ client' = "lost"
    /\ UNCHANGED <<server, toServer, toClient, sent, executed, answers, results>>

Next == sendCommand \/ Type \/ Serve \/ Receive \/ EndOfStream

Spec == Init /\ [][Next]_vars
-----------------------------------------------------------------------------
(* Properties. *)

\* README.md: "supports both inline and array formats".  What is executed is
\* what was sent, request by request.
ExecutedIsSent == IsPrefix(executed, sent)

\* What a reply says: the text, the number or the elements.
Meaning(reply) ==
    CASE reply.type \in {"status", "error", "unterminated_error", "bulk"} -> <<reply.text>>
      [] reply.type = "integer" -> << <<reply.number>> >>
      [] reply.type = "nil" -> << <<-1>> >>
      [] reply.type = "array" -> reply.elements

\* RESP: a line has no line end inside, a $ is followed by a length, and an
\* array has as many elements as it announces.
FollowsProtocol(reply) ==
    CASE reply.type \in {"status", "error", "unterminated_error"} -> Eol \notin Range(reply.text)
      [] reply.type = "array" -> reply.announced = Len(reply.elements)
      [] OTHER -> reply.type # "bulk_without_length"

\* send passed the reply on as a whole.
Whole(reply) == Len(Encode(reply)) =< SendRoom

\* The client shows the replies in the order of its requests, and each one that
\* reached it whole and in RESP as what it means: a reply that was cut, or that
\* breaks the protocol, costs nothing but itself.
RepliesAreShown ==
    /\ Len(answers) =< Len(sent)
    /\ Len(results) =< Len(answers)
    /\ \A i \in DOMAIN results :
          FollowsProtocol(answers[i]) /\ Whole(answers[i]) => results[i] = Meaning(answers[i])

\* The replies in which the client may look for a number in vain.
Kills(reply) ==
    \/ reply.type = "bulk_without_length"
    \/ reply.type \in {"nil", "bulk", "array"} /\ ~Whole(reply)

\* The last member of a history.
Latest(history) == history[Len(history)]

\* A client that waits has a reply to read, or a server that has its request or
\* is gone.  Only the miss of LINDEX and replies that send cut end a client, and
\* only words for numbers end the server: not the framing of the other side,
\* whatever the words contain, nor a reply that was cut or malformed before.
WaitingIsAnswered ==
    /\ client = "waiting" => toServer # <<>> \/ toClient # <<>> \/ server = "dead"
    /\ client = "dead" => answers # <<>> /\ Kills(Latest(answers))
    /\ server = "dead" => executed # <<>> /\ Throws(Latest(executed))
=============================================================================
