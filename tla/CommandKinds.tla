---------------------------- MODULE CommandKinds ----------------------------
(***************************************************************************)
(* classifyCommand: the commands that Metrics counts as reads and writes.  *)
(***************************************************************************)

\* What stands for the name of a command that has none.
NoName == ""

readCommands ==
    {"PING", "ECHO", "GET", "KEYS", "TYPE", "LGET", "LLEN", "LINDEX",
     "HGET", "HEXISTS", "HLEN", "HKEYS", "HVALS", "HGETALL"}

writeCommands ==
    {"FLUSHALL", "SET", "DEL", "UNLINK", "EXPIRE", "RENAME", "LSET", "LPUSH",
     "RPUSH", "LPOP", "RPOP", "LREM", "HSET", "HDEL", "HMSET"}
=============================================================================
