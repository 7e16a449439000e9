------------------------------ MODULE Database ------------------------------
(***************************************************************************)
(* The in-memory store, class Database: three hash tables and the table of *)
(* deadlines.  One action per method that can change a table; the results  *)
(* of methods are operators on the state in which they are called.         *)
(*                                                                         *)
(* The methods take no lock (db_mutex is never used) and only the event    *)
(* loop calls them, so each is one step.                                   *)
(***************************************************************************)
EXTENDS Collections

CONSTANTS
    Keys, Fields, Values,
    Batches,     \* the sequences of values one LPUSH or RPUSH may add
    Counts,      \* the counts given to LREM
    TTLs,        \* the seconds given to EXPIRE
    MaxListLen,  \* bound: no push makes a list longer than this
    MaxClock     \* bound: the clock stops here

ASSUME DatabaseAssumption ==
    /\ Batches \subseteq Seq(Values)
    /\ Counts \subseteq Int
    /\ TTLs \subseteq Int
    /\ MaxListLen \in Nat
    /\ MaxClock \in Nat

VARIABLES
    kv_store,     \* strings
    list_store,   \* lists
    hash_store,   \* hashes
    expirey_map,  \* deadlines set by EXPIRE
    clock         \* std::chrono::steady_clock, in seconds

stores == <<kv_store, list_store, hash_store>>
dbVars == <<kv_store, list_store, hash_store, expirey_map, clock>>

Lists == {list \in Seq(Values) : Len(list) =< MaxListLen}
Hashes == UNION {[D -> Values] : D \in SUBSET Fields}

\* Every table maps keys to values of its own kind, and lists keep within the
\* bound whatever sequence of commands filled them.
DBTypeOK ==
    /\ IsMap(kv_store, Keys, Values)
    /\ IsMap(list_store, Keys, Lists)
    /\ IsMap(hash_store, Keys, Hashes)
    /\ IsMap(expirey_map, Keys, Int)
    /\ clock \in 0..MaxClock

DBInit ==
    /\ kv_store = EmptyMap
    /\ list_store = EmptyMap
    /\ hash_store = EmptyMap
    /\ expirey_map = EmptyMap
    /\ clock = 0

-----------------------------------------------------------------------------
(* What the methods that only look return. *)

List(k) == At(list_store, k, <<>>)
Hash(k) == At(hash_store, k, EmptyMap)

Exists(k) ==
    k \in DOMAIN kv_store \cup DOMAIN list_store \cup DOMAIN hash_store

\* The number of keys that keys() lists: its third loop walks kv_store again
\* instead of hash_store.
KeysListed == 2 * Cardinality(DOMAIN kv_store) + Cardinality(DOMAIN list_store)

TypeOf(k) ==
    CASE k \in DOMAIN kv_store -> "string"
      [] k \in DOMAIN list_store \ DOMAIN kv_store -> "list"
      [] k \in DOMAIN hash_store \ (DOMAIN kv_store \cup DOMAIN list_store) -> "hash"
      [] ~Exists(k) -> "none"
-----------------------------------------------------------------------------
(* Commands on keys. *)

\* The deadlines stay.
FlushAll ==
    /\ kv_store' = EmptyMap
    /\ list_store' = EmptyMap
    /\ hash_store' = EmptyMap
    /\ UNCHANGED <<expirey_map, clock>>

Set(k, v) ==
    /\ kv_store' = Put(kv_store, k, v)
    /\ UNCHANGED <<list_store, hash_store, expirey_map, clock>>

\* The deadline stays.
Del(k) ==
    /\ kv_store' = Erase(kv_store, k)
    /\ list_store' = Erase(list_store, k)
    /\ hash_store' = Erase(hash_store, k)
    /\ UNCHANGED <<expirey_map, clock>>

Expire(k, seconds) ==
    /\ Exists(k)
    /\ expirey_map' = Put(expirey_map, k, clock + seconds)
    /\ UNCHANGED <<stores, clock>>

\* m[newKey] = it->second; m.erase(it): nothing is left if the keys are equal.
MoveEntry(m, old, new) ==
    IF old \in DOMAIN m THEN Erase(Put(m, new, m[old]), old) ELSE m

Rename(old, new) ==
    /\ kv_store' = MoveEntry(kv_store, old, new)
    /\ list_store' = MoveEntry(list_store, old, new)
    /\ hash_store' = MoveEntry(hash_store, old, new)
    /\ expirey_map' = MoveEntry(expirey_map, old, new)
    /\ UNCHANGED clock
-----------------------------------------------------------------------------
(* Commands on lists.  All but LREM name list_store[key], which inserts an *)
(* empty list under a key that has none.                                   *)

SetList(k, list) ==
    /\ list_store' = Put(list_store, k, list)
    /\ UNCHANGED <<kv_store, hash_store, expirey_map, clock>>

\* lget, llen, lindex, and the other methods when they find nothing to do.
TouchList(k) == SetList(k, List(k))

\* A slip: > for >=, so that the place behind the last one is written.
LSet_OneTooFar(k, index, v) ==
    IF index < 0 \/ index > Len(List(k))
    THEN TouchList(k)
    ELSE SetList(k, Put(List(k), index + 1, v))

LSet(k, index, v) ==
    IF index < 0 \/ index >= Len(List(k))
    THEN TouchList(k)
    ELSE SetList(k, [List(k) EXCEPT ![index + 1] = v])

\* Each value in turn goes to the front, so the last one ends up first.
LPush(k, batch) ==
    /\ Len(List(k)) + Len(batch) =< MaxListLen
    /\ SetList(k, Reverse(batch) \o List(k))

RPush(k, batch) ==
    /\ Len(List(k)) + Len(batch) =< MaxListLen
    /\ SetList(k, List(k) \o batch)

\* A slip: the last value erased instead of the first.
LPop_Back(k) ==
    IF List(k) = <<>> THEN TouchList(k) ELSE SetList(k, Front(List(k)))

LPop(k) ==
    IF List(k) = <<>> THEN TouchList(k) ELSE SetList(k, Tail(List(k)))

RPop(k) ==
    IF List(k) = <<>>
    THEN TouchList(k)
    ELSE SetList(k, Front(List(k)))

LRem(k, count, v) ==
    /\ k \in DOMAIN list_store
    /\ \E gone \in Removed(List(k), count, v) :
          \E e \in Increasing(DOMAIN List(k) \ gone) :
              SetList(k, Select(List(k), e))
-----------------------------------------------------------------------------
(* Commands on hashes. *)

SetHash(k, hash) ==
    /\ hash_store' = Put(hash_store, k, hash)
    /\ UNCHANGED <<kv_store, list_store, expirey_map, clock>>

HSet(k, f, v) == SetHash(k, Put(Hash(k), f, v))

\* A hash that loses its last field stays, empty.
HDel(k, f) ==
    /\ k \in DOMAIN hash_store
    /\ SetHash(k, Erase(Hash(k), f))

\* hlen, hkeys, hvals, hgetall
TouchHash(k) == SetHash(k, Hash(k))
-----------------------------------------------------------------------------
Tick ==
    /\ clock < MaxClock
    /\ clock' = clock + 1
    /\ UNCHANGED <<stores, expirey_map>>

\* The commands that the server's metrics count as reads and that are not
\* pure lookups.
ReadCommand(k) == TouchList(k) \/ TouchHash(k)

WriteCommand(k) ==
    \/ Del(k) \/ LPop(k) \/ RPop(k)
    \/ \E seconds \in TTLs : Expire(k, seconds)
    \/ \E new \in Keys : Rename(k, new)
    \/ \E batch \in Batches : LPush(k, batch) \/ RPush(k, batch)
    \/ \E f \in Fields : HDel(k, f)
    \/ \E v \in Values :
        \/ Set(k, v)
        \/ \E index \in -1..MaxListLen : LSet(k, index, v)
        \/ \E count \in Counts : LRem(k, count, v)
        \/ \E f \in Fields : HSet(k, f, v)

DBNext ==
    \/ FlushAll
    \/ \E k \in Keys : ReadCommand(k) \/ WriteCommand(k)
    \/ Tick

DBSpec == DBInit /\ [][DBNext]_dbVars
-----------------------------------------------------------------------------
(* Properties. *)

\* What the keys hold: a missing list or hash and an empty one are the same.
Contents ==
    INSTANCE Keyspaces WITH
        strings <- kv_store,
        lists <- [k \in Keys |-> List(k)],
        hashes <- [k \in Keys |-> Hash(k)]

\* The store implements the three key spaces of Keyspaces: the entries that
\* lookups leave behind (list_store[key] in llen, hash_store[key] in hlen, ...)
\* do not change what any key holds, a table is never touched by a command on
\* another, and LREM removes as many occurrences as it should and keeps the
\* rest in order.
ImplementsKeyspaces == Contents!Spec

\* README: "Expiration: Lazy eviction on each access via purgeExpired()".  A
\* TYPE that looks for a key whose deadline has passed does not find it.
ExpiredKeysAreGone ==
    \A k \in DOMAIN expirey_map : expirey_map[k] < clock => TypeOf(k) = "none"
=============================================================================
