--------------------------- MODULE DatabaseProofs ---------------------------
(***************************************************************************)
(* Theorems about Database: its tables keep their types, and it implements *)
(* Keyspaces.                                                              *)
(***************************************************************************)
EXTENDS Database, FiniteSetTheorems, SequenceTheorems, WellFoundedInduction, TLAPS

-----------------------------------------------------------------------------
(* The map operations keep the type of a map. *)

\* m[k] = v keeps a table a table (std::unordered_map::operator[]).
LEMMA PutType ==
    ASSUME NEW S, NEW T, NEW m, IsMap(m, S, T), NEW k \in S, NEW v \in T
    PROVE  IsMap(Put(m, k, v), S, T)
BY DEF IsMap, Put

\* m.erase(k) keeps a table a table.
LEMMA EraseType ==
    ASSUME NEW S, NEW T, NEW m, IsMap(m, S, T), NEW k
    PROVE  IsMap(Erase(m, k), S, T)
BY DEF IsMap, Erase, Restrict

\* RENAME keeps each of the four tables a table, for equal keys too.
LEMMA MoveEntryType ==
    ASSUME NEW S, NEW T, NEW m, IsMap(m, S, T), NEW old \in S, NEW new \in S
    PROVE  IsMap(MoveEntry(m, old, new), S, T)
<1>1. CASE old \in DOMAIN m
    <2>1. m[old] \in T
        BY <1>1 DEF IsMap
    <2>2. IsMap(Put(m, new, m[old]), S, T)
        BY <2>1, PutType
    <2>3. QED
        BY <1>1, <2>2, EraseType DEF MoveEntry
<1>2. CASE old \notin DOMAIN m
    BY <1>2 DEF MoveEntry
<1>3. QED
    BY <1>1, <1>2

\* No key holds anything in a cleared table.
LEMMA EmptyMapType ==
    ASSUME NEW S, NEW T
    PROVE  IsMap(EmptyMap, S, T)
BY DEF IsMap, EmptyMap

\* The hashes are the maps from fields to values.
LEMMA HashesAreMaps ==
    ASSUME NEW h
    PROVE  h \in Hashes <=> IsMap(h, Fields, Values)
BY DEF Hashes, IsMap

\* A set of positions has a last one.
LEMMA LastPosition ==
    ASSUME NEW n \in Nat, NEW S \in SUBSET (1..n), S # {}
    PROVE  Max(S) \in S /\ \A i \in S : Max(S) >= i
<1> DEFINE R == OpToRel(<, Nat)
           T == {m \in Nat : n - m \in S}
<1>1. \A m, k \in Nat : m < k => <<m, k>> \in R
    BY DEF OpToRel
<1>2. IsWellFoundedOn(R, Nat)
    BY NatLessThanWellFounded, Zenon
<1>3. T \subseteq Nat /\ T # {}
    <2>1. PICK i \in S : TRUE
        OBVIOUS
    <2>2. n - i \in Nat /\ n - (n - i) = i
        OBVIOUS
    <2>3. QED
        BY <2>1, <2>2
<1> HIDE DEF R
<1>4. PICK m \in T : \A k \in T : ~ (<<k, m>> \in R)
    BY <1>2, <1>3, WFMin, Zenon
<1>5. ASSUME NEW i \in S PROVE n - m >= i
    <2>1. n - i \in T /\ n - i \in Nat
        OBVIOUS
    <2>2. ~ (n - i < m)
        BY <1>1, <1>4, <2>1
    <2>3. QED
        BY <1>3, <2>1, <2>2
<1>6. n - m \in S
    BY <1>4
<1>7. QED
    BY <1>5, <1>6 DEF Max

\* A map stays one through any assignments, repeated keys and all.
LEMMA AssignedType ==
    ASSUME NEW S, NEW T, NEW n \in Nat, NEW pairs, DOMAIN pairs \subseteq 1..n,
           \A i \in DOMAIN pairs : pairs[i] \in S \X T,
           NEW h, IsMap(h, S, T)
    PROVE  IsMap(Assigned(h, pairs), S, T)
<1> DEFINE Places(f) == {i \in DOMAIN pairs : pairs[i][1] = f}
           D == DOMAIN h \cup {pairs[i][1] : i \in DOMAIN pairs}
           Value(f) == IF Places(f) = {} THEN h[f] ELSE pairs[Max(Places(f))][2]
<1>1. ASSUME NEW f \in D PROVE f \in S /\ Value(f) \in T
    <2>1. CASE Places(f) = {}
        <3>1. f \in DOMAIN h
            BY <2>1
        <3>2. QED
            BY <2>1, <3>1 DEF IsMap
    <2>2. CASE Places(f) # {}
        <3>1. Places(f) \in SUBSET (1..n)
            OBVIOUS
        <3>2. Max(Places(f)) \in Places(f)
            BY <2>2, <3>1, LastPosition
        <3>3. pairs[Max(Places(f))] \in S \X T /\ pairs[Max(Places(f))][1] = f
            BY <3>2
        <3>4. QED
            BY <2>2, <3>3
    <2>3. QED
        BY <2>1, <2>2
<1>2. Assigned(h, pairs) = [f \in D |-> Value(f)]
    BY DEF Assigned
<1> HIDE DEF D, Value
<1>3. QED
    BY <1>1, <1>2 DEF IsMap

\* Of several assignments to a key the last one stays.
LEMMA AssignedLast ==
    ASSUME NEW n \in Nat, NEW pairs, DOMAIN pairs \subseteq 1..n
    PROVE  LET m == Assigned(EmptyMap, pairs)
           IN  /\ DOMAIN m = {pairs[i][1] : i \in DOMAIN pairs}
               /\ \A k \in DOMAIN m : \E i \in DOMAIN pairs :
                      /\ pairs[i][1] = k /\ m[k] = pairs[i][2]
                      /\ \A j \in DOMAIN pairs : pairs[j][1] = k => j =< i
<1> DEFINE Places(k) == {i \in DOMAIN pairs : pairs[i][1] = k}
           D == {pairs[i][1] : i \in DOMAIN pairs}
           m == Assigned(EmptyMap, pairs)
<1>1. DOMAIN m = D
    BY DEF Assigned, EmptyMap
<1>2. ASSUME NEW k \in D
      PROVE  \E i \in DOMAIN pairs :
                /\ pairs[i][1] = k /\ m[k] = pairs[i][2]
                /\ \A j \in DOMAIN pairs : pairs[j][1] = k => j =< i
    <2>1. Places(k) # {} /\ Places(k) \in SUBSET (1..n)
        OBVIOUS
    <2>2. Max(Places(k)) \in Places(k) /\ \A j \in Places(k) : Max(Places(k)) >= j
        BY <2>1, LastPosition
    <2>3. m[k] = pairs[Max(Places(k))][2]
        BY <2>1 DEF Assigned
    <2>4. QED
        BY <2>1, <2>2, <2>3
<1>3. QED
    BY <1>1, <1>2

-----------------------------------------------------------------------------
(* The list operations keep the type and the bound of a list. *)

\* list_store[key] is a list of values whether or not the key is there.
LEMMA ListType ==
    ASSUME DBTypeOK, NEW k \in Keys
    PROVE  List(k) \in Lists
<1>1. <<>> \in Lists
    BY DatabaseAssumption DEF Lists
<1>2. QED
    BY <1>1 DEF DBTypeOK, IsMap, List, At

\* hash_store[key] is a map of fields whether or not the key is there.
LEMMA HashType ==
    ASSUME DBTypeOK, NEW k \in Keys
    PROVE  IsMap(Hash(k), Fields, Values)
<1>1. IsMap(EmptyMap, Fields, Values)
    BY EmptyMapType
<1>2. QED
    BY <1>1, HashesAreMaps DEF DBTypeOK, IsMap, Hash, At

\* LPUSH's reversed batch is a sequence of the same length.
LEMMA ReverseType ==
    ASSUME NEW V, NEW s \in Seq(V)
    PROVE  Reverse(s) \in Seq(V) /\ Len(Reverse(s)) = Len(s)
BY DEF Reverse

\* Keeping only some positions of a list gives a list that is not longer:
\* what the erase calls of LREM leave.
LEMMA SelectType ==
    ASSUME NEW V, NEW list \in Seq(V), NEW S \in SUBSET DOMAIN list,
           NEW e \in Increasing(S)
    PROVE  Select(list, e) \in Seq(V) /\ Len(Select(list, e)) =< Len(list)
<1>1. IsFiniteSet(1..Len(list)) /\ Cardinality(1..Len(list)) = Len(list)
    <2>1. Len(list) \in Nat
        OBVIOUS
    <2> DEFINE n == Len(list)
    <2> HIDE DEF n
    <2>2. 1 \in Int /\ n \in Int /\ n >= 0
        BY <2>1 DEF n
    <2>3. /\ IsFiniteSet(1..n)
          /\ Cardinality(1..n) = IF 1 > n THEN 0 ELSE n - 1 + 1
        BY <2>2, FS_Interval, Zenon
    <2>4. QED
        BY <2>2, <2>3 DEF n
<1>2. Cardinality(S) \in Nat /\ Cardinality(S) =< Len(list)
    <2>1. S \subseteq 1..Len(list)
        OBVIOUS
    <2>2. QED
        BY <1>1, <2>1, FS_Subset, FS_CardinalityType
<1>3. e \in [1..Cardinality(S) -> S]
    BY DEF Increasing
<1>4. \A j \in DOMAIN e : list[e[j]] \in V
    BY <1>3
<1>5. /\ Select(list, e) \in Seq(V)
      /\ Len(Select(list, e)) = Cardinality(S)
    BY <1>2, <1>3, <1>4 DEF Select
<1>6. QED
    BY <1>2, <1>5
-----------------------------------------------------------------------------

\* Storing a list of the right type under a key keeps the whole state typed.
LEMMA SetListType ==
    ASSUME DBTypeOK, NEW k \in Keys, NEW list \in Lists, SetList(k, list)
    PROVE  DBTypeOK'
BY PutType DEF SetList, DBTypeOK

\* Storing a map of fields under a key keeps the whole state typed.
LEMMA SetHashType ==
    ASSUME DBTypeOK, NEW k \in Keys, NEW hash, IsMap(hash, Fields, Values),
           SetHash(k, hash)
    PROVE  DBTypeOK'
BY PutType, HashesAreMaps DEF SetHash, DBTypeOK

\* Every command keeps the tables typed.
LEMMA StepType ==
    ASSUME DBTypeOK, [DBNext]_dbVars
    PROVE  DBTypeOK'
<1>1. CASE FlushAll
    BY <1>1, EmptyMapType DEF FlushAll, DBTypeOK
<1>2. CASE Tick
    BY <1>2, DatabaseAssumption DEF Tick, stores, DBTypeOK
<1>3. ASSUME NEW k \in Keys, ReadCommand(k)
      PROVE  DBTypeOK'
    BY <1>3, ListType, HashType, SetListType, SetHashType
    DEF ReadCommand, TouchList, TouchHash
<1>4. ASSUME NEW k \in Keys, WriteCommand(k)
      PROVE  DBTypeOK'
    <2> DEFINE l == List(k)
    <2>0. /\ l \in Seq(Values)
          /\ Len(l) \in Nat
          /\ Len(l) =< MaxListLen
          /\ l \in Lists
        BY ListType DEF Lists
    <2>1. CASE Del(k)
        BY <2>1, EraseType DEF Del, DBTypeOK
    <2>2. CASE LPop(k)
        <3>1. CASE l = <<>>
            BY <2>2, <3>1, <2>0, SetListType DEF LPop, TouchList
        <3>2. CASE l # <<>>
            <4>1. Tail(l) \in Seq(Values) /\ Len(Tail(l)) = Len(l) - 1
                BY <2>0, <3>2, HeadTailProperties
            <4>2. Tail(l) \in Lists
                BY <2>0, <4>1, DatabaseAssumption DEF Lists
            <4>3. QED
                BY <2>2, <3>2, <4>2, SetListType DEF LPop
        <3>3. QED
            BY <3>1, <3>2
    <2>3. CASE RPop(k)
        <3>1. CASE l = <<>>
            BY <2>3, <3>1, <2>0, SetListType DEF RPop, TouchList
        <3>2. CASE l # <<>>
            <4>1. Front(l) \in Lists
                BY <2>0, <3>2, DatabaseAssumption DEF Lists, Front
            <4>2. QED
                BY <2>3, <3>2, <4>1, SetListType DEF RPop
        <3>3. QED
            BY <3>1, <3>2
    <2>4. ASSUME NEW seconds \in TTLs, Expire(k, seconds)
          PROVE  DBTypeOK'
        <3>1. clock + seconds \in Int
            BY DatabaseAssumption DEF DBTypeOK
        <3>2. QED
            BY <2>4, <3>1, PutType DEF Expire, stores, DBTypeOK
    <2>5. ASSUME NEW new \in Keys, Rename(k, new)
          PROVE  DBTypeOK'
        BY <2>5, MoveEntryType DEF Rename, DBTypeOK
    <2>6. ASSUME NEW batch \in Batches, LPush(k, batch) \/ RPush(k, batch)
          PROVE  DBTypeOK'
        <3>1. batch \in Seq(Values)
            BY DatabaseAssumption
        <3>2. Reverse(batch) \in Seq(Values) /\ Len(Reverse(batch)) = Len(batch)
            BY <3>1, ReverseType
        <3>3. Len(l) + Len(batch) =< MaxListLen
            BY <2>6 DEF LPush, RPush
        <3>4. Reverse(batch) \o l \in Lists /\ l \o batch \in Lists
            BY <2>0, <3>1, <3>2, <3>3, DatabaseAssumption DEF Lists
        <3>5. QED
            BY <2>6, <3>4, SetListType DEF LPush, RPush
    <2>7. ASSUME NEW f \in Fields, HDel(k, f)
          PROVE  DBTypeOK'
        BY <2>7, HashType, EraseType, SetHashType DEF HDel
    <2>8. ASSUME NEW v \in Values, Set(k, v)
          PROVE  DBTypeOK'
        BY <2>8, PutType DEF Set, DBTypeOK
    <2>9. ASSUME NEW v \in Values, NEW index \in -1..MaxListLen,
                 LSet(k, index, v)
          PROVE  DBTypeOK'
        <3>1. CASE index < 0 \/ index >= Len(l)
            BY <2>9, <3>1, <2>0, SetListType DEF LSet, TouchList
        <3>2. CASE ~(index < 0 \/ index >= Len(l))
            <4>1. [l EXCEPT ![index + 1] = v] \in Lists
                BY <2>0, <3>2, DatabaseAssumption DEF Lists
            <4>2. QED
                BY <2>9, <3>2, <4>1, SetListType DEF LSet
        <3>3. QED
            BY <3>1, <3>2
    <2>10. ASSUME NEW v \in Values, NEW count \in Counts, LRem(k, count, v)
           PROVE  DBTypeOK'
        <3>1. PICK gone \in Removed(l, count, v) :
                \E e \in Increasing(DOMAIN l \ gone) : SetList(k, Select(l, e))
            BY <2>10 DEF LRem
        <3>2. PICK e \in Increasing(DOMAIN l \ gone) : SetList(k, Select(l, e))
            BY <3>1
        <3>3. Select(l, e) \in Lists
            <4>1. Select(l, e) \in Seq(Values) /\ Len(Select(l, e)) =< Len(l)
                BY <2>0, SelectType
            <4>2. QED
                BY <2>0, <4>1, DatabaseAssumption DEF Lists
        <3>4. QED
            BY <3>2, <3>3, SetListType
    <2>11. ASSUME NEW v \in Values, NEW f \in Fields, HSet(k, f, v)
           PROVE  DBTypeOK'
        BY <2>11, HashType, PutType, SetHashType DEF HSet
    <2>12. QED
        BY <1>4, <2>1, <2>2, <2>3, <2>4, <2>5, <2>6, <2>7, <2>8, <2>9,
           <2>10, <2>11 DEF WriteCommand
<1>5. CASE UNCHANGED dbVars
    BY <1>5 DEF dbVars, DBTypeOK
<1>6. QED
    BY <1>1, <1>2, <1>3, <1>4, <1>5 DEF DBNext

\* Every table of the store keeps its shape, and no list outgrows the bound,
\* whatever commands run: DBTypeOK is inductive as it stands.
THEOREM TypeCorrect == DBSpec => []DBTypeOK
<1>1. DBInit => DBTypeOK
    BY EmptyMapType, DatabaseAssumption DEF DBInit, DBTypeOK
<1>2. DBTypeOK /\ [DBNext]_dbVars => DBTypeOK'
    BY StepType
<1>3. QED
    BY <1>1, <1>2, PTL DEF DBSpec
-----------------------------------------------------------------------------
(* Database implements Keyspaces: every command of the store is a step of  *)
(* the three key spaces, or a stuttering step.                             *)

lists == [k \in Keys |-> List(k)]
hashes == [k \in Keys |-> Hash(k)]

\* Storing a list under k changes the contents of k's list only, and storing
\* an empty one under a missing key changes nothing.
LEMMA SetListContents ==
    ASSUME DBTypeOK, NEW k \in Keys, NEW list, SetList(k, list)
    PROVE  /\ lists' = [lists EXCEPT ![k] = list]
           /\ UNCHANGED <<kv_store, hashes>>
BY DEF SetList, lists, hashes, List, Hash, At, Put

\* The same for the hash of k.
LEMMA SetHashContents ==
    ASSUME DBTypeOK, NEW k \in Keys, NEW hash, SetHash(k, hash)
    PROVE  /\ hashes' = [hashes EXCEPT ![k] = hash]
           /\ UNCHANGED <<kv_store, lists>>
BY DEF SetHash, lists, hashes, List, Hash, At, Put

\* A lookup that leaves an empty list or hash behind is invisible.
LEMMA TouchIsStutter ==
    ASSUME DBTypeOK, NEW k \in Keys, TouchList(k) \/ TouchHash(k)
    PROVE  UNCHANGED <<kv_store, lists, hashes>>
BY SetListContents, SetHashContents DEF TouchList, TouchHash, lists, hashes

\* Moving an entry of a table moves the contents, when there is an entry.
LEMMA MoveContents ==
    ASSUME NEW m, NEW n, NEW old \in Keys, NEW new \in Keys, NEW empty,
           n = MoveEntry(m, old, new)
    PROVE  LET before == [k \in Keys |-> At(m, k, empty)]
               after == [k \in Keys |-> At(n, k, empty)]
           IN  IF old \in DOMAIN m
               THEN after = [before EXCEPT ![new] = before[old], ![old] = empty]
               ELSE before[old] = empty /\ after = before
BY DEF MoveEntry, At, Put, Erase, Restrict

\* The instance counts a set as the store does.
LEMMA SameCardinality ==
    ASSUME NEW S
    PROVE  Contents!Cardinality(S) = Cardinality(S)
BY DEF Contents!Cardinality, Cardinality

\* Every command of the store is a step of the key spaces, or leaves their
\* contents as they are.
LEMMA StepRefines ==
    ASSUME DBTypeOK, [DBNext]_dbVars
    PROVE  [Contents!Next]_<<kv_store, lists, hashes>>
<1> USE DEF Contents!Next
<1>1. CASE FlushAll
    <2>1. Contents!Clear
        BY <1>1 DEF FlushAll, Contents!Clear, Contents!EmptyMap, List, Hash, At, EmptyMap
    <2>2. QED
        BY <2>1
<1>2. CASE Tick
    BY <1>2 DEF Tick, stores, lists, hashes, List, Hash, At
<1>3. ASSUME NEW k \in Keys, ReadCommand(k)
      PROVE  UNCHANGED <<kv_store, lists, hashes>>
    BY <1>3, TouchIsStutter DEF ReadCommand
<1>4. ASSUME NEW k \in Keys, WriteCommand(k)
      PROVE  [Contents!Next]_<<kv_store, lists, hashes>>
    <2>1. CASE Del(k)
        <3>1. Contents!Delete(k)
            BY <2>1
            DEF Del, Contents!Delete, Contents!Erase, Contents!Restrict,
                Contents!EmptyMap, Erase, Restrict, EmptyMap, List, Hash, At
        <3>2. QED
            BY <3>1
    <2>2. CASE LPop(k) \/ RPop(k)
        <3>1. CASE List(k) = <<>>
            BY <2>2, <3>1, TouchIsStutter DEF LPop, RPop
        <3>2. CASE List(k) # <<>>
            <4>1. Contents!Pop(k)
                BY <2>2, <3>2, SetListContents
                DEF LPop, RPop, Contents!Pop, Contents!Front, Front, lists, hashes
            <4>2. QED
                BY <4>1
        <3>3. QED
            BY <3>1, <3>2
    <2>3. ASSUME NEW seconds \in TTLs, Expire(k, seconds)
          PROVE  UNCHANGED <<kv_store, lists, hashes>>
        BY <2>3 DEF Expire, stores, lists, hashes, List, Hash, At
    <2>4. ASSUME NEW new \in Keys, Rename(k, new)
          PROVE  Contents!Rename(k, new)
        <3>1. kv_store' = IF k \in DOMAIN kv_store
                          THEN Contents!Erase(Contents!Put(kv_store, new, kv_store[k]), k)
                          ELSE kv_store
            BY <2>4
            DEF Rename, MoveEntry, Contents!Erase, Contents!Restrict, Contents!Put,
                Erase, Restrict, Put
        <3>2. \/ lists' = Contents!Moved(lists, k, new, <<>>)
              \/ lists[k] = <<>> /\ UNCHANGED lists
            <4>1. list_store' = MoveEntry(list_store, k, new)
                BY <2>4 DEF Rename
            <4>2. QED
                BY <4>1, MoveContents DEF Contents!Moved, lists, List
        <3>3. \/ hashes' = Contents!Moved(hashes, k, new, EmptyMap)
              \/ hashes[k] = EmptyMap /\ UNCHANGED hashes
            <4>1. hash_store' = MoveEntry(hash_store, k, new)
                BY <2>4 DEF Rename
            <4>2. QED
                BY <4>1, MoveContents DEF Contents!Moved, hashes, Hash
        <3>4. QED
            BY <3>1, <3>2, <3>3
            DEF Contents!Rename, Contents!EmptyMap, EmptyMap, lists, hashes
    <2>5. ASSUME NEW batch \in Batches, LPush(k, batch) \/ RPush(k, batch)
          PROVE  Contents!Push(k, batch)
        <3>1. SetList(k, Reverse(batch) \o List(k)) \/ SetList(k, List(k) \o batch)
            BY <2>5 DEF LPush, RPush
        <3>2. List(k) = lists[k]
            BY DEF lists
        <3>3. /\ \/ lists' = [lists EXCEPT ![k] = Contents!Reverse(batch) \o @]
                 \/ lists' = [lists EXCEPT ![k] = @ \o batch]
              /\ UNCHANGED <<kv_store, hashes>>
            BY <3>1, <3>2, SetListContents DEF Contents!Reverse, Reverse
        <3>4. QED
            BY <3>3 DEF Contents!Push, lists, hashes
    <2>6. ASSUME NEW f \in Fields, HDel(k, f)
          PROVE  Contents!RemoveField(k, f)
        BY <2>6, SetHashContents
        DEF HDel, Contents!RemoveField, Contents!Erase, Contents!Restrict,
            Erase, Restrict, lists, hashes
    <2>7. ASSUME NEW v \in Values, Set(k, v)
          PROVE  Contents!Write(k, v)
        BY <2>7 DEF Set, Contents!Write, Contents!Put, Put, List, Hash, At
    <2>8. ASSUME NEW v \in Values, NEW index \in -1..MaxListLen, LSet(k, index, v)
          PROVE  [Contents!Next]_<<kv_store, lists, hashes>>
        <3>0. List(k) \in Lists /\ List(k) = lists[k]
            BY ListType DEF lists
        <3>1. CASE index < 0 \/ index >= Len(List(k))
            BY <2>8, <3>1, TouchIsStutter DEF LSet
        <3>2. CASE ~(index < 0 \/ index >= Len(List(k)))
            <4>1. index + 1 \in DOMAIN lists[k]
                BY <3>0, <3>2 DEF Lists
            <4>2. SetList(k, [lists[k] EXCEPT ![index + 1] = v])
                BY <2>8, <3>0, <3>2 DEF LSet
            <4>3. Contents!Overwrite(k, index + 1, v)
                BY <4>2, SetListContents DEF Contents!Overwrite, lists, hashes
            <4>4. QED
                BY <4>1, <4>3 DEF lists
        <3>3. QED
            BY <3>1, <3>2
    <2>9. ASSUME NEW v \in Values, NEW count \in Counts, LRem(k, count, v)
          PROVE  Contents!Discard(k, Abs(count), v)
        <3>1. PICK gone \in Removed(List(k), count, v) :
                \E e \in Increasing(DOMAIN List(k) \ gone) :
                    SetList(k, Select(List(k), e))
            BY <2>9 DEF LRem
        <3>2. PICK e \in Increasing(DOMAIN List(k) \ gone) :
                SetList(k, Select(List(k), e))
            BY <3>1
        <3>3. List(k) = lists[k]
            BY DEF lists
        <3>4. /\ gone \in SUBSET Contents!Occurrences(lists[k], v)
              /\ Cardinality(gone) =
                    Contents!Least(Abs(count), Cardinality(Contents!Occurrences(lists[k], v)))
            BY <3>1, <3>3
            DEF Removed, Contents!Occurrences, Occurrences, Contents!Least, Least
        <3>5. /\ e \in Contents!Increasing(DOMAIN lists[k] \ gone)
              /\ lists' = [lists EXCEPT ![k] = Contents!Select(lists[k], e)]
              /\ UNCHANGED <<kv_store, hashes>>
            <4>1. Contents!Increasing(DOMAIN lists[k] \ gone)
                    = Increasing(DOMAIN lists[k] \ gone)
                BY SameCardinality DEF Contents!Increasing, Increasing
            <4>2. Contents!Select(lists[k], e) = Select(lists[k], e)
                BY DEF Contents!Select, Select
            <4>3. QED
                BY <3>2, <3>3, <4>1, <4>2, SetListContents
        <3>6. /\ gone \in SUBSET Contents!Occurrences(lists[k], v)
              /\ Contents!Cardinality(gone) =
                    Contents!Least(Abs(count),
                        Contents!Cardinality(Contents!Occurrences(lists[k], v)))
            BY <3>4, SameCardinality
        <3>7. QED
            BY <3>5, <3>6 DEF Contents!Discard, lists, hashes
    <2>10. ASSUME NEW v \in Values, NEW f \in Fields, HSet(k, f, v)
           PROVE  Contents!WriteField(k, f, v)
        BY <2>10, SetHashContents
        DEF HSet, Contents!WriteField, Contents!Put, Put, lists, hashes
    <2>11. QED
        BY <1>4, <2>1, <2>2, <2>3, <2>4, <2>5, <2>6, <2>7, <2>8, <2>9, <2>10
        DEF WriteCommand, Contents!Abs, Abs
<1>5. CASE UNCHANGED dbVars
    BY <1>5 DEF dbVars, lists, hashes, List, Hash, At
<1>6. QED
    BY <1>1, <1>2, <1>3, <1>4, <1>5 DEF DBNext

\* However the tables are filled, with a deadline, an empty list or an empty
\* hash left behind by a lookup, every method of Database does to the three
\* key spaces what Keyspaces says a command does, or nothing.
THEOREM Refinement == DBSpec => ImplementsKeyspaces
<1>1. DBInit => Contents!Init
    BY DEF DBInit, Contents!Init, Contents!EmptyMap, List, Hash, At, EmptyMap
<1>2. DBTypeOK /\ [DBNext]_dbVars => [Contents!Next]_Contents!vars
    BY StepRefines DEF Contents!vars, lists, hashes
<1>3. QED
    BY <1>1, <1>2, TypeCorrect, PTL DEF DBSpec, ImplementsKeyspaces, Contents!Spec
=============================================================================
