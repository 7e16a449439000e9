------------------------------- MODULE MCWire -------------------------------
(* Wire with words that look like the framing around them, a command for   *)
(* each kind of reply, and replies that break the protocol or do not fit   *)
(* the socket among them.                                                  *)
EXTENDS Wire

CONSTANTS a, b, set, get, llen, lget, lindex, expire, hgetall, echo

MCLetters == {a, b, set, get, llen, lget, lindex, expire, hgetall, echo}

MCEcho == <<echo>>
MCExpire == <<expire>>
MCNumeric == {<<lindex>>, <<expire>>}

MCCommands ==
    {<< <<set>>, <<>>, <<a>> >>, << <<set>>, <<a>>, <<Dollar, 2, Eol>> >>,
     << <<set>>, <<Star, 1>>, <<a, a, a>> >>,
     << <<get>>, <<Eol, a>> >>, << <<get>>, <<a>> >>,
     << <<llen>> >>, << <<lget>>, <<a>> >>, << <<hgetall>>, <<a>> >>,
     << <<lindex>>, <<a>>, <<-1>> >>, << <<lindex>>, <<a>>, <<a>> >>,
     << <<expire>>, <<a>>, <<Plus>> >>,
     << <<echo>>, <<a, Eol, b>> >>, << <<b>> >>}

Status(text) == [type |-> "status", text |-> text]
Integer(number) == [type |-> "integer", number |-> number]
Nil == [type |-> "nil"]
Bulk(text) == [type |-> "bulk", text |-> text]
Listing(announced, elements) ==
    [type |-> "array", announced |-> announced, elements |-> elements]

MCReplies ==
    <<set>> :> {Status(<<a>>)} @@
    <<get>> :> {Nil, Bulk(<<>>), Bulk(<<Eol, Dollar, 3>>), Bulk([i \in 1..12 |-> b])} @@
    <<llen>> :> {Integer(2), [type |-> "unterminated_error", text |-> <<a>>]} @@
    <<lget>> :> {Listing(0, <<>>), Listing(2, << <<Eol>>, <<>> >>),
                 Listing(3, << <<Eol>>, <<b, Star>>, <<b>> >>)} @@
    <<hgetall>> :> {Listing(1, << <<a>>, <<>> >>)} @@
    <<lindex>> :> {Bulk(<<a>>), [type |-> "bulk_without_length"]} @@
    <<expire>> :> {Nil, Status(<<a>>)}
=============================================================================
