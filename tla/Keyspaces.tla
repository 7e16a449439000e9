----------------------------- MODULE Keyspaces ------------------------------
(***************************************************************************)
(* What the storage engine promises, without its hash tables: three        *)
(* independent key spaces.  A string is present or not; a list and a hash  *)
(* always exist and are empty until written, so a read command is a        *)
(* stuttering step.  Database implements this specification.               *)
(*                                                                         *)
(* One thing leaks through: RENAME of a key whose list (or hash) is empty  *)
(* either leaves the destination alone or empties it, depending on         *)
(* whether an earlier command left an empty entry behind.                  *)
(***************************************************************************)
EXTENDS Collections

CONSTANTS
    Keys, Fields, Values,
    Batches,  \* the sequences of values that one push may add
    Counts    \* the counts given to LREM

VARIABLES
    strings,  \* the string held under each key that has one
    lists,    \* the list under every key, empty by default
    hashes    \* the hash under every key, empty by default

vars == <<strings, lists, hashes>>

Init ==
    /\ strings = EmptyMap
    /\ lists = [k \in Keys |-> <<>>]
    /\ hashes = [k \in Keys |-> EmptyMap]

Write(k, v) ==
    /\ strings' = Put(strings, k, v)
    /\ UNCHANGED <<lists, hashes>>

Delete(k) ==
    /\ strings' = Erase(strings, k)
    /\ lists' = [lists EXCEPT ![k] = <<>>]
    /\ hashes' = [hashes EXCEPT ![k] = EmptyMap]

Clear ==
    /\ strings' = EmptyMap
    /\ lists' = [k \in Keys |-> <<>>]
    /\ hashes' = [k \in Keys |-> EmptyMap]

\* The contents of old replace those of new; the source is emptied last, so
\* that renaming a key to itself loses what it held.
Moved(m, old, new, empty) == [m EXCEPT ![new] = m[old], ![old] = empty]

Rename(old, new) ==
    /\ strings' = IF old \in DOMAIN strings
                  THEN Erase(Put(strings, new, strings[old]), old)
                  ELSE strings
    /\ \/ lists' = Moved(lists, old, new, <<>>)
       \/ lists[old] = <<>> /\ UNCHANGED lists
    /\ \/ hashes' = Moved(hashes, old, new, EmptyMap)
       \/ hashes[old] = EmptyMap /\ UNCHANGED hashes

\* A batch pushed on the left ends up in reverse order.
Push(k, batch) ==
    /\ lists' \in {[lists EXCEPT ![k] = Reverse(batch) \o @],
                   [lists EXCEPT ![k] = @ \o batch]}
    /\ UNCHANGED <<strings, hashes>>

Overwrite(k, i, v) ==
    /\ lists' = [lists EXCEPT ![k][i] = v]
    /\ UNCHANGED <<strings, hashes>>

Pop(k) ==
    /\ lists[k] # <<>>
    /\ lists' \in {[lists EXCEPT ![k] = Tail(@)],
                   [lists EXCEPT ![k] = Front(@)]}
    /\ UNCHANGED <<strings, hashes>>

\* n occurrences of v go, or all of them if there are fewer; the rest of the
\* list keeps its order.
Discard(k, n, v) ==
    LET occurrences == Occurrences(lists[k], v)
    IN  /\ UNCHANGED <<strings, hashes>>
        /\ \E gone \in SUBSET occurrences :
              /\ Cardinality(gone) = Least(n, Cardinality(occurrences))
              /\ \E e \in Increasing(DOMAIN lists[k] \ gone) :
                    lists' = [lists EXCEPT ![k] = Select(@, e)]

WriteField(k, f, v) ==
    /\ hashes' = [hashes EXCEPT ![k] = Put(@, f, v)]
    /\ UNCHANGED <<strings, lists>>

RemoveField(k, f) ==
    /\ hashes' = [hashes EXCEPT ![k] = Erase(@, f)]
    /\ UNCHANGED <<strings, lists>>

Next ==
    \/ Clear
    \/ \E k \in Keys :
        \/ Delete(k) \/ Pop(k)
        \/ \E new \in Keys : Rename(k, new)
        \/ \E v \in Values : Write(k, v)
        \/ \E batch \in Batches : Push(k, batch)
        \/ \E i \in DOMAIN lists[k], v \in Values : Overwrite(k, i, v)
        \/ \E c \in Counts, v \in Values : Discard(k, Abs(c), v)
        \/ \E f \in Fields :
            RemoveField(k, f) \/ \E v \in Values : WriteField(k, f, v)

Spec == Init /\ [][Next]_vars
=============================================================================
