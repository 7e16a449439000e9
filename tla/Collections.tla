---------------------------- MODULE Collections -----------------------------
(***************************************************************************)
(* The standard containers the server is written with.  A                  *)
(* std::unordered_map is a function on the keys it holds, a std::vector is *)
(* a sequence.                                                             *)
(***************************************************************************)
EXTENDS Integers, SequencesExt

\* m maps some of S to T.
IsMap(m, S, T) == DOMAIN m \subseteq S /\ m \in [DOMAIN m -> T]

EmptyMap == [x \in {} |-> x]

\* m[k] = v: inserts the key when it is missing.
Put(m, k, v) == [x \in DOMAIN m \cup {k} |-> IF x = k THEN v ELSE m[x]]

\* m.erase(k)
Erase(m, k) == Restrict(m, DOMAIN m \ {k})

\* What m[k] refers to: a missing key counts as an empty value.
At(m, k, empty) == IF k \in DOMAIN m THEN m[k] ELSE empty

\* m after each assignment m[key] = value in turn: the last one to a key stays.
Assigned(m, pairs) ==
    LET places(k) == {i \in DOMAIN pairs : pairs[i][1] = k}
    IN  [k \in DOMAIN m \cup {pairs[i][1] : i \in DOMAIN pairs} |->
            IF places(k) = {} THEN m[k] ELSE pairs[Max(places(k))][2]]

\* The listing of a finite set of positions in increasing order (the only
\* member of this set), and the elements of s at those positions.
Increasing(S) ==
    {e \in [1..Cardinality(S) -> S] : \A i, j \in 1..Cardinality(S) : i < j => e[i] < e[j]}

Select(s, e) == [j \in DOMAIN e |-> s[e[j]]]

Occurrences(s, v) == {i \in DOMAIN s : s[i] = v}

\* The smaller of two numbers, and the size of a number.
Least(a, b) == IF a < b THEN a ELSE b
Abs(n) == IF n < 0 THEN -n ELSE n

\* A slip: the count never decremented.
Removed_All(list, count, v) == {Occurrences(list, v)}

\* The positions LREM erases: |count| occurrences of v, or all if there are
\* fewer, from the front if count > 0 and from the back if count < 0.  The
\* statement that would erase them all when count = 0 is commented out.
Removed(list, count, v) ==
    LET occurrences == Occurrences(list, v)
    IN  {gone \in SUBSET occurrences :
            /\ Cardinality(gone) = Least(Abs(count), Cardinality(occurrences))
            /\ \A g \in gone, h \in occurrences \ gone :
                  IF count > 0 THEN g < h ELSE h < g}
=============================================================================
