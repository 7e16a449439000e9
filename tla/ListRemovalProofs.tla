------------------------- MODULE ListRemovalProofs --------------------------
(***************************************************************************)
(* The loops of lrem erase what Database takes them to erase, for lists of *)
(* any length, ints of any width and every count.                          *)
(***************************************************************************)
EXTENDS ListRemoval, FiniteSetTheorems, SequenceTheorems, TLAPS

\* A strictly increasing list of positions of start.
Rising(o) ==
    /\ o \in Seq(DOMAIN start)
    /\ \A i, j \in 1..Len(o) : i < j => o[i] < o[j]

Types ==
    /\ \E n \in 0..MaxListLen : start \in [1..n -> Values]
    /\ value \in Values
    /\ asked \in INT_MIN..INT_MAX
    /\ count \in Int
    /\ position \in Int
    /\ removed \in Nat
    /\ pc \in {"begin", "forward", "backward", "done"}

\* What is left keeps its order, and what is gone was an occurrence.
Kept ==
    /\ Rising(origin)
    /\ list = Select(start, origin)
    /\ Gone \subseteq Occurrences(start, value)
    /\ removed = Cardinality(Gone)

Beginning == pc = "begin" => count = asked /\ removed = 0 /\ Gone = {}

\* Ahead of the iterator nothing is erased, behind it no occurrence is left.
Forward ==
    pc = "forward" =>
        /\ asked > 0 /\ count >= 0 /\ count + removed = asked
        /\ position \in 1..(Len(list) + 1)
        /\ \A j \in DOMAIN list : j < position => list[j] # value
        /\ \A g \in Gone, j \in DOMAIN list : position =< j => g < origin[j]

\* The same from the back.
Backward ==
    pc = "backward" =>
        /\ asked < 0
        /\ \/ asked # INT_MIN /\ count >= 0 /\ count + removed = -asked
           \/ asked = INT_MIN /\ count >= 0 /\ count + removed = INT_MAX
           \/ asked = INT_MIN /\ count = INT_MIN /\ removed = 0
        /\ position \in 0..Len(list)
        /\ \A j \in DOMAIN list : position < j => list[j] # value
        /\ \A g \in Gone, j \in DOMAIN list : j =< position => origin[j] < g

IInv == Types /\ Kept /\ Beginning /\ Forward /\ Backward /\ RemovesWhatItShould
-----------------------------------------------------------------------------
(* Positions. *)

\* The positions of a list are finitely many, and as many as its length.
LEMMA Positions ==
    ASSUME NEW n \in Nat
    PROVE  IsFiniteSet(1..n) /\ Cardinality(1..n) = n
<1>1. 1 \in Int /\ n \in Int
    OBVIOUS
<1>2. /\ IsFiniteSet(1..n)
      /\ Cardinality(1..n) = IF 1 > n THEN 0 ELSE n - 1 + 1
    BY <1>1, FS_Interval, Zenon
<1>3. QED
    BY <1>2

\* The list that lrem is called with has finitely many positions.
LEMMA StartFinite ==
    ASSUME Types
    PROVE  /\ \E n \in 0..MaxListLen : DOMAIN start = 1..n /\ Cardinality(DOMAIN start) = n
           /\ DOMAIN start \subseteq Nat
           /\ IsFiniteSet(DOMAIN start)
           /\ \A T \in SUBSET DOMAIN start :
                 IsFiniteSet(T) /\ Cardinality(T) \in Nat /\ Cardinality(T) =< MaxListLen
<1>1. PICK n \in 0..MaxListLen : start \in [1..n -> Values]
    BY DEF Types
<1>2. n \in Nat /\ n =< MaxListLen /\ DOMAIN start = 1..n
    BY <1>1, ListRemovalAssumption
<1>3. IsFiniteSet(DOMAIN start) /\ Cardinality(DOMAIN start) = n
    BY <1>2, Positions
<1>4. \A T \in SUBSET DOMAIN start :
          IsFiniteSet(T) /\ Cardinality(T) \in Nat /\ Cardinality(T) =< n
    BY <1>3, FS_Subset, FS_CardinalityType
<1>5. QED
    BY <1>2, <1>3, <1>4, ListRemovalAssumption

\* What is left, by position.
LEMMA OriginFacts ==
    ASSUME Kept
    PROVE  /\ Len(origin) \in Nat
           /\ DOMAIN origin = 1..Len(origin) /\ DOMAIN list = 1..Len(origin)
           /\ Len(list) = Len(origin)
           /\ \A j \in 1..Len(origin) :
                 /\ origin[j] \in DOMAIN start
                 /\ list[j] = start[origin[j]]
           /\ \A i, j \in 1..Len(origin) : i < j => origin[i] < origin[j]
<1>1. origin \in Seq(DOMAIN start)
    BY DEF Kept, Rising
<1>2. Len(origin) \in Nat /\ DOMAIN origin = 1..Len(origin)
    BY <1>1, LenProperties
<1>3. list = [j \in 1..Len(origin) |-> start[origin[j]]]
    BY <1>2 DEF Kept, Select
<1>4. QED
    BY <1>1, <1>2, <1>3, ElementOfSeq DEF Kept, Rising

\* A position is gone or still listed.
LEMMA GoneOrListed ==
    ASSUME Kept, NEW p \in DOMAIN start, p \notin Gone
    PROVE  \E j \in 1..Len(origin) : origin[j] = p
BY OriginFacts DEF Gone, Range
-----------------------------------------------------------------------------
(* Erasing one element. *)

\* Erasing position i takes its origin away and moves the later ones up.
LEMMA EraseOrigin ==
    ASSUME Types, Kept, NEW i \in DOMAIN list, start' = start, origin' = Without(origin, i)
    PROVE  /\ origin' \in Seq(DOMAIN start) /\ Len(origin') = Len(origin) - 1
           /\ \A j \in 1..Len(origin') : origin'[j] = IF j < i THEN origin[j] ELSE origin[j + 1]
           /\ Rising(origin)'
           /\ Gone' = Gone \cup {origin[i]} /\ origin[i] \notin Gone
<1> DEFINE m == Len(origin)
<1>1. /\ m \in Nat /\ i \in 1..m
      /\ \A j \in 1..m : origin[j] \in DOMAIN start
      /\ \A j, k \in 1..m : j < k => origin[j] < origin[k]
      /\ DOMAIN origin = 1..m
    BY OriginFacts
<1> HIDE DEF m
<1>2. origin' = [j \in 1..(m - 1) |-> IF j < i THEN origin[j] ELSE origin[j + 1]]
    BY DEF Without, m
<1>3. m - 1 \in Nat
    BY <1>1
<1>4. \A j \in 1..(m - 1) :
          /\ j \in 1..m /\ j + 1 \in 1..m
          /\ origin'[j] = IF j < i THEN origin[j] ELSE origin[j + 1]
          /\ origin'[j] \in DOMAIN start
    BY <1>1, <1>2
<1>5. origin' \in Seq(DOMAIN start) /\ Len(origin') = m - 1
    BY <1>2, <1>3, <1>4
<1>6. \A j, k \in 1..(m - 1) : j < k => origin'[j] < origin'[k]
    BY <1>1, <1>4
<1>7. Rising(origin)'
    BY <1>5, <1>6 DEF Rising
<1>8. \A j, k \in 1..m : origin[j] = origin[k] => j = k
    <2>1. DOMAIN start \subseteq Nat
        BY StartFinite
    <2>2. QED
        BY <1>1, <2>1
<1>9. Range(origin)' = Range(origin) \ {origin[i]}
    <2>1. ASSUME NEW j \in 1..(m - 1) PROVE origin'[j] \in Range(origin) \ {origin[i]}
        BY <1>1, <1>4, <1>8 DEF Range
    <2>2. ASSUME NEW j \in 1..m, j # i PROVE \E k \in 1..(m - 1) : origin'[k] = origin[j]
        <3>1. CASE j < i
            <4>1. j \in 1..(m - 1)
                BY <1>1, <3>1
            <4>2. QED
                BY <1>4, <3>1, <4>1
        <3>2. CASE j > i
            <4>1. j - 1 \in 1..(m - 1) /\ ~(j - 1 < i) /\ (j - 1) + 1 = j
                BY <1>1, <3>2
            <4>2. QED
                BY <1>4, <4>1
        <3>3. QED
            BY <1>1, <2>2, <3>1, <3>2
    <2>3. DOMAIN origin' = 1..(m - 1)
        BY <1>2
    <2>4. ASSUME NEW p \in Range(origin), p # origin[i] PROVE p \in Range(origin)'
        <3>1. PICK j \in 1..m : origin[j] = p
            BY <1>1 DEF Range
        <3>2. PICK k \in 1..(m - 1) : origin'[k] = origin[j]
            BY <2>2, <2>4, <3>1
        <3>3. QED
            BY <2>3, <3>1, <3>2 DEF Range
    <2>5. ASSUME NEW p \in Range(origin)' PROVE p \in Range(origin) \ {origin[i]}
        <3>1. PICK j \in 1..(m - 1) : origin'[j] = p
            BY <2>3 DEF Range
        <3>2. QED
            BY <2>1, <3>1
    <2>6. QED
        BY <2>4, <2>5
<1>10. origin[i] \in DOMAIN start /\ origin[i] \in Range(origin)
    BY <1>1 DEF Range
<1>11. QED
    BY <1>4, <1>5, <1>7, <1>9, <1>10 DEF Gone, m

\* Erasing the element at the iterator keeps the rest and counts it.
LEMMA EraseKeeps ==
    ASSUME Types, Kept, EraseElement
    PROVE  /\ Kept'
           /\ Len(list') = Len(list) - 1
           /\ position \in 1..Len(list)
           /\ \A j \in 1..Len(list') :
                 list'[j] = IF j < position THEN list[j] ELSE list[j + 1]
           /\ \A j \in 1..Len(list') :
                 origin'[j] = IF j < position THEN origin[j] ELSE origin[j + 1]
           /\ Gone' = Gone \cup {origin[position]}
<1>1. /\ position \in DOMAIN list /\ list[position] = value
      /\ list' = Without(list, position) /\ origin' = Without(origin, position)
      /\ removed' = removed + 1
      /\ UNCHANGED <<value, start>>
    BY DEF EraseElement, InLoop
<1>2. /\ origin' \in Seq(DOMAIN start) /\ Len(origin') = Len(origin) - 1
      /\ \A j \in 1..Len(origin') :
            origin'[j] = IF j < position THEN origin[j] ELSE origin[j + 1]
      /\ Rising(origin)'
      /\ Gone' = Gone \cup {origin[position]} /\ origin[position] \notin Gone
    BY <1>1, EraseOrigin
<1> DEFINE m == Len(origin)
<1>3. /\ m \in Nat /\ position \in 1..m /\ Len(list) = m
      /\ \A j \in 1..m : origin[j] \in DOMAIN start /\ list[j] = start[origin[j]]
    BY <1>1, OriginFacts
<1> HIDE DEF m
<1>4. list' = [j \in 1..(m - 1) |-> IF j < position THEN list[j] ELSE list[j + 1]]
    BY <1>1, <1>3 DEF Without
<1>5. m - 1 \in Nat /\ Len(origin') = m - 1
    BY <1>2, <1>3 DEF m
<1>6. Len(list') = m - 1
    BY <1>4, <1>5
<1>7. DOMAIN origin' = 1..(m - 1)
    BY <1>2, <1>5, LenProperties
<1>8. list' = [j \in 1..(m - 1) |-> start[origin'[j]]]
    <2>1. \A j \in 1..(m - 1) : j \in 1..m /\ j + 1 \in 1..m
        BY <1>3
    <2>2. \A j \in 1..(m - 1) :
              (IF j < position THEN list[j] ELSE list[j + 1]) = start[origin'[j]]
        BY <1>2, <1>3, <1>5, <2>1
    <2>3. QED
        BY <1>4, <2>2
<1>9. list' = Select(start', origin')
    BY <1>1, <1>7, <1>8 DEF Select
<1>10. Gone' \subseteq Occurrences(start', value')
    BY <1>1, <1>2, <1>3 DEF Kept, Occurrences
<1>11. removed' = Cardinality(Gone')
    <2>1. IsFiniteSet(Gone) /\ Cardinality(Gone) \in Nat
        BY StartFinite DEF Gone
    <2>2. Cardinality(Gone') = Cardinality(Gone) + 1
        BY <1>2, <2>1, FS_AddElement
    <2>3. QED
        BY <1>1, <2>2 DEF Kept
<1>12. Kept'
    BY <1>2, <1>9, <1>10, <1>11 DEF Kept
<1>13. QED
    BY <1>2, <1>3, <1>4, <1>5, <1>6, <1>12
-----------------------------------------------------------------------------
(* The start. *)

\* Nothing is erased yet.
LEMMA InitInv == Init => IInv
<1> SUFFICES ASSUME Init PROVE IInv
    OBVIOUS
<1>1. PICK n \in 0..MaxListLen : start \in [1..n -> Values]
    BY DEF Init
<1>2. n \in Nat /\ INT_MAX \in Nat
    BY ListRemovalAssumption
<1>3. Types
    BY <1>1, <1>2 DEF Init, Types, INT_MIN
<1>4. origin = [i \in 1..n |-> i] /\ list = start
    BY <1>1 DEF Init
<1>5. origin \in Seq(DOMAIN start) /\ Len(origin) = n /\ DOMAIN origin = 1..n
    BY <1>1, <1>2, <1>4
<1>6. Rising(origin)
    BY <1>4, <1>5 DEF Rising
<1>7. list = Select(start, origin)
    BY <1>1, <1>4, <1>5 DEF Select
<1>8. Gone = {}
    BY <1>1, <1>4, <1>5 DEF Gone, Range
<1>9. Kept
    BY <1>6, <1>7, <1>8, FS_EmptySet DEF Init, Kept
<1>10. QED
    BY <1>3, <1>8, <1>9 DEF Init, IInv, Beginning, Forward, Backward, RemovesWhatItShould
-----------------------------------------------------------------------------
(* What it comes to. *)

\* An occurrence that is not gone is still listed.
LEMMA LeftOver ==
    ASSUME Kept, NEW h \in Occurrences(start, value) \ Gone
    PROVE  \E j \in 1..Len(origin) : origin[j] = h /\ list[j] = value
<1>1. h \in DOMAIN start /\ start[h] = value /\ h \notin Gone
    BY DEF Occurrences
<1>2. PICK j \in 1..Len(origin) : origin[j] = h
    BY <1>1, GoneOrListed
<1>3. QED
    BY <1>1, <1>2, OriginFacts

\* origin lists what is left in increasing order.
LEMMA InOrder ==
    ASSUME Types, Kept
    PROVE  origin \in Increasing(Range(origin))
<1> DEFINE m == Len(origin)
           R == Range(origin)
<1>1. /\ m \in Nat /\ DOMAIN origin = 1..m
      /\ \A j \in 1..m : origin[j] \in DOMAIN start
      /\ \A i, j \in 1..m : i < j => origin[i] < origin[j]
    BY OriginFacts
<1>2. origin \in [1..m -> R]
    <2>1. origin = [j \in 1..m |-> origin[j]]
        BY <1>1, LenProperties DEF Kept, Rising
    <2>2. QED
        BY <1>1, <2>1 DEF Range
<1>3. \A i, j \in 1..m : origin[i] = origin[j] => i = j
    <2>1. DOMAIN start \subseteq Nat
        BY StartFinite
    <2>2. QED
        BY <1>1, <2>1
<1>4. \A p \in R : \E j \in 1..m : origin[j] = p
    BY <1>1 DEF Range
<1> HIDE DEF m, R
<1>5. origin \in Bijection(1..m, R)
    BY <1>2, <1>3, <1>4 DEF Bijection, Injection, Surjection, IsInjective
<1>6. Cardinality(R) = m
    <2>1. ExistsBijection(1..m, R)
        BY <1>5 DEF ExistsBijection
    <2>2. QED
        BY <1>1, <2>1, Positions, FS_Bijection
<1>7. QED
    BY <1>1, <1>2, <1>6 DEF Increasing, m, R

\* Enough for the erased positions to be the ones they should be.
LEMMA Result ==
    ASSUME Types, Kept, removed =< Abs(asked),
           Gone = Occurrences(start, value) \/ removed = Abs(asked),
           \A g \in Gone, h \in Occurrences(start, value) \ Gone :
              IF asked > 0 THEN g < h ELSE h < g
    PROVE  Gone \in Removed(start, asked, value)
<1> DEFINE O == Occurrences(start, value)
<1>1. IsFiniteSet(O) /\ Cardinality(O) \in Nat
    BY StartFinite DEF Occurrences
<1>2. Cardinality(Gone) =< Cardinality(O) /\ removed = Cardinality(Gone) /\ Gone \in SUBSET O
    BY <1>1, FS_Subset DEF Kept
<1>3. asked \in Int /\ Abs(asked) \in Nat
    BY ListRemovalAssumption DEF Types, Abs, INT_MIN
<1>4. Cardinality(Gone) = Least(Abs(asked), Cardinality(O))
    BY <1>1, <1>2, <1>3 DEF Least
<1>5. QED
    BY <1>2, <1>4 DEF Removed
-----------------------------------------------------------------------------
(* The steps. *)

\* With count 0 nothing is gone, as asked.
LEMMA NoLoopStep ==
    ASSUME IInv, NoLoop
    PROVE  IInv'
<1> USE DEF NoLoop
<1>1. Types /\ Kept /\ Types' /\ Kept' /\ Gone' = Gone /\ pc' = "done"
    BY DEF IInv, Types, Kept, Rising, Gone
<1>2. asked = 0 /\ removed = 0 /\ Gone = {}
    BY DEF IInv, Beginning
<1>3. Gone \in Removed(start, asked, value)
    BY <1>1, <1>2, Result DEF Abs
<1>4. asked # INT_MIN
    BY <1>2, ListRemovalAssumption DEF INT_MIN
<1>5. origin \in Increasing(Range(origin))
    BY <1>1, InOrder
<1>6. RemovesWhatItShould'
    BY <1>1, <1>3, <1>4, <1>5 DEF RemovesWhatItShould, Kept
<1>7. QED
    BY <1>1, <1>6 DEF IInv, Beginning, Forward, Backward

\* Before the first turn nothing is gone and nothing is passed.
LEMMA BeginForwardStep ==
    ASSUME IInv, BeginForward
    PROVE  IInv'
<1> USE DEF BeginForward
<1>1. Types /\ Kept /\ Types' /\ Kept' /\ Gone' = Gone /\ pc' = "forward"
    BY DEF IInv, Types, Kept, Rising, Gone
<1>2. asked = count /\ removed = 0 /\ Gone = {} /\ asked > 0 /\ position' = 1
    BY DEF IInv, Beginning
<1>3. Len(list) \in Nat /\ DOMAIN list = 1..Len(list)
    BY <1>1, OriginFacts
<1>4. Forward'
    BY <1>1, <1>2, <1>3 DEF Forward, Types
<1>5. QED
    BY <1>1, <1>4 DEF IInv, Beginning, Backward, RemovesWhatItShould

\* The same from the back, with whatever became of -count.
LEMMA BeginBackwardStep ==
    ASSUME IInv, BeginBackward
    PROVE  IInv'
<1> USE DEF BeginBackward
<1>1. /\ Types /\ Kept /\ Kept' /\ Gone' = Gone /\ pc' = "backward"
      /\ UNCHANGED <<list, removed, asked, origin>>
    BY DEF IInv, Kept, Rising, Gone
<1>2. asked = count /\ removed = 0 /\ Gone = {} /\ asked < 0 /\ position' = Len(list)
    BY DEF IInv, Beginning
<1>3. Len(list) \in Nat /\ DOMAIN list = 1..Len(list)
    BY <1>1, OriginFacts
<1>4. asked \in Int /\ INT_MAX \in Nat /\ INT_MIN \in Int /\ -asked \in Nat
    BY <1>1, <1>2, ListRemovalAssumption DEF Types, INT_MIN
<1>5. \/ asked # INT_MIN /\ count' = -asked
      \/ asked = INT_MIN /\ count' = INT_MAX
      \/ asked = INT_MIN /\ count' = INT_MIN
    BY <1>2 DEF Negated
<1>6. Types'
    BY <1>1, <1>2, <1>3, <1>4, <1>5 DEF Types
<1>7. Backward'
    <2>1. /\ position' \in 0..Len(list')
          /\ \A j \in DOMAIN list' : ~(position' < j)
          /\ Gone' = {}
        BY <1>1, <1>2, <1>3
    <2>2. \/ asked' # INT_MIN /\ count' >= 0 /\ count' + removed' = -asked'
          \/ asked' = INT_MIN /\ count' >= 0 /\ count' + removed' = INT_MAX
          \/ asked' = INT_MIN /\ count' = INT_MIN /\ removed' = 0
        BY <1>1, <1>2, <1>4, <1>5
    <2>3. QED
        BY <1>1, <1>2, <2>1, <2>2 DEF Backward
<1>8. QED
    BY <1>1, <1>6, <1>7 DEF IInv, Beginning, Forward, RemovesWhatItShould

\* The element that moves up to the iterator is the next to look at, and lies
\* behind the erased one in start.
LEMMA EraseForwardStep ==
    ASSUME IInv, EraseElement, pc = "forward"
    PROVE  IInv'
<1>1. Types /\ Kept /\ Forward
    BY DEF IInv
<1>2. /\ Kept'
      /\ Len(list') = Len(list) - 1 /\ position \in 1..Len(list)
      /\ \A j \in 1..Len(list') :
            list'[j] = IF j < position THEN list[j] ELSE list[j + 1]
      /\ \A j \in 1..Len(list') :
            origin'[j] = IF j < position THEN origin[j] ELSE origin[j + 1]
      /\ Gone' = Gone \cup {origin[position]}
    BY <1>1, EraseKeeps
<1>3. /\ Len(list) \in Nat /\ DOMAIN list = 1..Len(list)
      /\ \A i, j \in 1..Len(list) : i < j => origin[i] < origin[j]
    BY <1>1, OriginFacts
<1>4. DOMAIN list' = 1..Len(list')
    BY <1>2, OriginFacts
<1>5. /\ pc' = "forward" /\ position' = position
      /\ count > 0 /\ count' = count - 1 /\ removed' = removed + 1
      /\ UNCHANGED <<start, asked, value>>
    BY DEF EraseElement, InLoop
<1>6. Types'
    BY <1>1, <1>5 DEF Types
<1>7. Forward'
    <2>1. asked' > 0 /\ count' >= 0 /\ count' + removed' = asked'
        BY <1>1, <1>5 DEF Forward, Types
    <2>2. position' \in 1..(Len(list') + 1)
        BY <1>2, <1>3, <1>5
    <2>3. ASSUME NEW j \in DOMAIN list', j < position' PROVE list'[j] # value'
        <3>1. j \in DOMAIN list /\ list'[j] = list[j] /\ j < position
            BY <1>2, <1>3, <1>4, <1>5, <2>3
        <3>2. QED
            BY <1>1, <1>5, <3>1 DEF Forward
    <2>4. ASSUME NEW g \in Gone', NEW j \in DOMAIN list', position' =< j
          PROVE  g < origin'[j]
        <3>1. j + 1 \in DOMAIN list /\ position < j + 1 /\ origin'[j] = origin[j + 1]
            BY <1>2, <1>3, <1>4, <1>5, <2>4
        <3>2. CASE g = origin[position]
            BY <1>2, <1>3, <3>1, <3>2
        <3>3. CASE g \in Gone
            BY <1>1, <1>2, <1>3, <1>5, <3>1, <3>3 DEF Forward
        <3>4. QED
            BY <1>2, <3>2, <3>3
    <2>5. QED
        BY <2>1, <2>2, <2>3, <2>4 DEF Forward
<1>8. QED
    BY <1>2, <1>5, <1>6, <1>7 DEF IInv, Beginning, Backward, RemovesWhatItShould

\* The elements that move up were passed already.
LEMMA EraseBackwardStep ==
    ASSUME IInv, EraseElement, pc = "backward"
    PROVE  IInv'
<1>1. Types /\ Kept /\ Backward
    BY DEF IInv
<1>2. /\ Kept'
      /\ Len(list') = Len(list) - 1 /\ position \in 1..Len(list)
      /\ \A j \in 1..Len(list') :
            list'[j] = IF j < position THEN list[j] ELSE list[j + 1]
      /\ \A j \in 1..Len(list') :
            origin'[j] = IF j < position THEN origin[j] ELSE origin[j + 1]
      /\ Gone' = Gone \cup {origin[position]}
    BY <1>1, EraseKeeps
<1>3. /\ Len(list) \in Nat /\ DOMAIN list = 1..Len(list)
      /\ \A i, j \in 1..Len(list) : i < j => origin[i] < origin[j]
    BY <1>1, OriginFacts
<1>4. DOMAIN list' = 1..Len(list')
    BY <1>2, OriginFacts
<1>5. /\ pc' = "backward" /\ position' = position - 1
      /\ count > 0 /\ count' = count - 1 /\ removed' = removed + 1
      /\ UNCHANGED <<start, asked, value>>
    BY DEF EraseElement, InLoop
<1>6. Types'
    BY <1>1, <1>5 DEF Types
<1>7. Backward'
    <2>1. \/ asked' # INT_MIN /\ count' >= 0 /\ count' + removed' = -asked'
          \/ asked' = INT_MIN /\ count' >= 0 /\ count' + removed' = INT_MAX
        <3>1. \/ asked # INT_MIN /\ count >= 0 /\ count + removed = -asked
              \/ asked = INT_MIN /\ count >= 0 /\ count + removed = INT_MAX
            BY <1>1, <1>5, ListRemovalAssumption DEF Backward, INT_MIN
        <3>2. /\ count \in Int /\ removed \in Nat /\ asked \in Int
              /\ INT_MAX \in Nat /\ INT_MIN \in Int
            BY <1>1, ListRemovalAssumption DEF Types, INT_MIN
        <3>3. QED
            BY <1>5, <3>1, <3>2
    <2>2. position' \in 0..Len(list')
        BY <1>2, <1>3, <1>5
    <2>3. ASSUME NEW j \in DOMAIN list', position' < j PROVE list'[j] # value'
        <3>1. j + 1 \in DOMAIN list /\ list'[j] = list[j + 1] /\ position < j + 1
            BY <1>2, <1>3, <1>4, <1>5, <2>3
        <3>2. QED
            BY <1>1, <1>5, <3>1 DEF Backward
    <2>4. ASSUME NEW g \in Gone', NEW j \in DOMAIN list', j =< position'
          PROVE  origin'[j] < g
        <3>1. j \in DOMAIN list /\ j < position /\ origin'[j] = origin[j]
            BY <1>2, <1>3, <1>4, <1>5, <2>4
        <3>2. CASE g = origin[position]
            BY <1>2, <1>3, <3>1, <3>2
        <3>3. CASE g \in Gone
            BY <1>1, <1>2, <1>3, <1>5, <3>1, <3>3 DEF Backward
        <3>4. QED
            BY <1>2, <3>2, <3>3
    <2>5. QED
        BY <1>1, <1>5, <2>1, <2>2, <2>3, <2>4 DEF Backward
<1>8. QED
    BY <1>2, <1>5, <1>6, <1>7 DEF IInv, Beginning, Forward, RemovesWhatItShould

\* An element that is kept is no occurrence.
LEMMA KeepElementStep ==
    ASSUME IInv, KeepElement
    PROVE  IInv'
<1>1. /\ Types /\ Kept
      /\ position \in DOMAIN list /\ list[position] # value
      /\ position' = IF pc = "forward" THEN position + 1 ELSE position - 1
      /\ pc \in {"forward", "backward"}
      /\ UNCHANGED <<list, value, count, removed, pc, start, asked, origin>>
    BY DEF IInv, KeepElement, InLoop
<1>2. Len(list) \in Nat /\ DOMAIN list = 1..Len(list)
    BY <1>1, OriginFacts
<1>3. Kept' /\ Gone' = Gone
    BY <1>1 DEF Kept, Rising, Gone
<1>4. Types'
    BY <1>1, <1>2 DEF Types
<1>5. Forward'
    <2>1. CASE pc = "forward"
        <3>1. position \in 1..Len(list) /\ position' = position + 1 /\ Forward
            BY <1>1, <1>2, <2>1 DEF IInv
        <3>2. \A j \in DOMAIN list : j < position + 1 => j < position \/ j = position
            BY <1>2, <3>1
        <3>3. \A j \in DOMAIN list : position + 1 =< j => position =< j
            BY <1>2, <3>1
        <3>4. position + 1 \in 1..(Len(list) + 1)
            BY <1>2, <3>1
        <3>5. QED
            BY <1>1, <1>3, <2>1, <3>1, <3>2, <3>3, <3>4 DEF Forward
    <2>2. QED
        BY <1>1, <2>1 DEF Forward
<1>6. Backward'
    <2>1. CASE pc = "backward"
        <3>1. position \in 1..Len(list) /\ position' = position - 1 /\ Backward
            BY <1>1, <1>2, <2>1 DEF IInv
        <3>2. \A j \in DOMAIN list : position - 1 < j => position < j \/ j = position
            BY <1>2, <3>1
        <3>3. \A j \in DOMAIN list : j =< position - 1 => j =< position
            BY <1>2, <3>1
        <3>4. position - 1 \in 0..Len(list)
            BY <1>2, <3>1
        <3>5. QED
            BY <1>1, <1>3, <2>1, <3>1, <3>2, <3>3, <3>4 DEF Backward
    <2>2. QED
        BY <1>1, <2>1 DEF Backward
<1>7. QED
    BY <1>1, <1>3, <1>4, <1>5, <1>6 DEF IInv, Beginning, RemovesWhatItShould

\* A loop ends when the count is used up or every element was passed.
LEMMA ForwardEnds ==
    ASSUME Types, Kept, Forward, pc = "forward", ~InLoop
    PROVE  asked > 0 /\ Gone \in Removed(start, asked, value)
<1>1. /\ asked > 0 /\ count >= 0 /\ count + removed = asked
      /\ position \in 1..(Len(list) + 1)
      /\ \A j \in DOMAIN list : j < position => list[j] # value
      /\ \A g \in Gone, j \in DOMAIN list : position =< j => g < origin[j]
    BY DEF Forward
<1>2. Len(list) \in Nat /\ DOMAIN list = 1..Len(list) /\ Len(list) = Len(origin)
    BY OriginFacts
<1>3. asked \in Int /\ count \in Int /\ removed \in Nat /\ Abs(asked) = asked
    BY <1>1, ListRemovalAssumption DEF Types, INT_MIN, Abs
<1>4. position = Len(list) + 1 \/ count = 0
    BY <1>1, <1>2, <1>3 DEF InLoop
<1>5. Gone = Occurrences(start, value) \/ removed = Abs(asked)
    <2>1. CASE count = 0
        BY <1>1, <1>3, <2>1
    <2>2. CASE position = Len(list) + 1
        <3>1. \A j \in DOMAIN list : list[j] # value
            BY <1>1, <1>2, <2>2
        <3>2. Occurrences(start, value) \ Gone = {}
            BY <1>2, <3>1, LeftOver
        <3>3. QED
            BY <3>2 DEF Kept
    <2>3. QED
        BY <1>4, <2>1, <2>2
<1>6. ASSUME NEW g \in Gone, NEW h \in Occurrences(start, value) \ Gone PROVE g < h
    <2>1. PICK j \in 1..Len(origin) : origin[j] = h /\ list[j] = value
        BY LeftOver
    <2>2. j \in DOMAIN list /\ position =< j
        BY <1>1, <1>2, <2>1
    <2>3. QED
        BY <1>1, <2>1, <2>2
<1>7. QED
    BY <1>1, <1>3, <1>5, <1>6, Result

\* The number that INT_MIN turns into erases every occurrence, or none.
LEMMA BackwardEnds ==
    ASSUME Types, Kept, Backward, pc = "backward", ~InLoop
    PROVE  IF asked = INT_MIN
           THEN Gone \in {{}, Occurrences(start, value)}
           ELSE Gone \in Removed(start, asked, value)
<1>1. /\ asked < 0
      /\ position \in 0..Len(list)
      /\ \A j \in DOMAIN list : position < j => list[j] # value
      /\ \A g \in Gone, j \in DOMAIN list : j =< position => origin[j] < g
    BY DEF Backward
<1>2. Len(list) \in Nat /\ DOMAIN list = 1..Len(list) /\ Len(list) = Len(origin)
    BY OriginFacts
<1>3. /\ asked \in Int /\ count \in Int /\ removed \in Nat /\ Abs(asked) = -asked
      /\ INT_MAX \in Nat /\ INT_MIN \in Int /\ INT_MIN < 0
    BY <1>1, ListRemovalAssumption DEF Types, INT_MIN, Abs
<1>4. position = 0 \/ count =< 0
    BY <1>1, <1>2, <1>3 DEF InLoop
<1>5. position = 0 => Gone = Occurrences(start, value)
    <2>1. SUFFICES ASSUME position = 0 PROVE Gone = Occurrences(start, value)
        OBVIOUS
    <2>2. \A j \in DOMAIN list : list[j] # value
        BY <1>1, <1>2, <2>1
    <2>3. Occurrences(start, value) \ Gone = {}
        BY <1>2, <2>2, LeftOver
    <2>4. QED
        BY <2>3 DEF Kept
<1>6. CASE asked # INT_MIN
    <2>1. count >= 0 /\ count + removed = -asked
        BY <1>6 DEF Backward
    <2>2. Gone = Occurrences(start, value) \/ removed = Abs(asked)
        BY <1>3, <1>4, <1>5, <2>1
    <2>3. ASSUME NEW g \in Gone, NEW h \in Occurrences(start, value) \ Gone PROVE h < g
        <3>1. PICK j \in 1..Len(origin) : origin[j] = h /\ list[j] = value
            BY LeftOver
        <3>2. j \in DOMAIN list /\ j =< position
            BY <1>1, <1>2, <3>1
        <3>3. QED
            BY <1>1, <3>1, <3>2
    <2>4. removed =< Abs(asked) /\ ~(asked > 0)
        BY <1>1, <1>3, <2>1
    <2>5. Gone \in Removed(start, asked, value)
        BY <2>2, <2>3, <2>4, Result
    <2>6. QED
        BY <1>6, <2>5
<1>7. CASE asked = INT_MIN
    <2>1. IsFiniteSet(Gone) /\ Cardinality(Gone) = removed
        BY StartFinite DEF Gone, Kept
    <2>2. CASE count = INT_MIN /\ removed = 0
        <3>1. Gone = {}
            BY <2>1, <2>2, FS_EmptySet
        <3>2. QED
            BY <1>7, <3>1
    <2>3. CASE count >= 0 /\ count + removed = INT_MAX
        <3>1. CASE position = 0
            BY <1>5, <1>7, <3>1
        <3>2. CASE count = 0
            <4>1. Occurrences(start, value) \in SUBSET DOMAIN start
                BY DEF Occurrences
            <4>2. /\ IsFiniteSet(Occurrences(start, value))
                  /\ Cardinality(Occurrences(start, value)) \in Nat
                  /\ Cardinality(Occurrences(start, value)) =< MaxListLen
                BY <4>1, StartFinite
            <4>3. Gone \in SUBSET Occurrences(start, value)
                BY DEF Kept
            <4>4. Cardinality(Gone) =< Cardinality(Occurrences(start, value))
                BY <4>2, <4>3, FS_Subset
            <4>5. Cardinality(Gone) = Cardinality(Occurrences(start, value))
                BY <1>3, <2>1, <2>3, <3>2, <4>2, <4>4, SizesFitInt, ListRemovalAssumption
            <4>6. Gone = Occurrences(start, value)
                BY <4>2, <4>3, <4>5, FS_Subset
            <4>7. QED
                BY <1>7, <4>6
        <3>3. QED
            BY <1>3, <1>4, <2>3, <3>1, <3>2
    <2>4. QED
        BY <1>7, <2>2, <2>3 DEF Backward
<1>8. QED
    BY <1>6, <1>7

\* The loops are left with the right elements erased.
LEMMA ReturnStep ==
    ASSUME IInv, Return
    PROVE  IInv'
<1>1. /\ Types /\ Kept /\ Forward /\ Backward
      /\ pc \in {"forward", "backward"} /\ ~InLoop /\ pc' = "done"
      /\ UNCHANGED <<list, value, count, position, removed, start, asked, origin>>
    BY DEF IInv, Return
<1>2. Types' /\ Kept' /\ Gone' = Gone
    BY <1>1 DEF Types, Kept, Rising, Gone
<1>3. origin \in Increasing(Range(origin))
    BY <1>1, InOrder
<1>4. IF asked = INT_MIN
      THEN Gone \in {{}, Occurrences(start, value)}
      ELSE Gone \in Removed(start, asked, value)
    <2>1. CASE pc = "forward"
        <3>1. asked > 0 /\ Gone \in Removed(start, asked, value)
            BY <1>1, <2>1, ForwardEnds
        <3>2. asked # INT_MIN
            BY <3>1, ListRemovalAssumption DEF INT_MIN
        <3>3. QED
            BY <3>1, <3>2
    <2>2. CASE pc = "backward"
        BY <1>1, <2>2, BackwardEnds
    <2>3. QED
        BY <1>1, <2>1, <2>2
<1>5. RemovesWhatItShould'
    BY <1>1, <1>2, <1>3, <1>4 DEF RemovesWhatItShould, Kept
<1>6. QED
    BY <1>1, <1>2, <1>5 DEF IInv, Beginning, Forward, Backward
-----------------------------------------------------------------------------
\* Every turn of the loops keeps the invariant.
LEMMA StepInv == IInv /\ [lrem]_vars => IInv'
<1> SUFFICES ASSUME IInv, [lrem]_vars PROVE IInv'
    OBVIOUS
<1>1. CASE NoLoop
    BY <1>1, NoLoopStep
<1>2. CASE BeginForward
    BY <1>2, BeginForwardStep
<1>3. CASE BeginBackward
    BY <1>3, BeginBackwardStep
<1>4. CASE EraseElement
    <2>1. pc \in {"forward", "backward"}
        BY <1>4 DEF EraseElement, InLoop
    <2>2. QED
        BY <1>4, <2>1, EraseForwardStep, EraseBackwardStep
<1>5. CASE KeepElement
    BY <1>5, KeepElementStep
<1>6. CASE Return
    BY <1>6, ReturnStep
<1>7. CASE UNCHANGED vars
    BY <1>7 DEF vars, IInv, Types, Kept, Rising, Gone, Beginning, Forward, Backward,
                RemovesWhatItShould
<1>8. QED
    BY <1>1, <1>2, <1>3, <1>4, <1>5, <1>6, <1>7 DEF lrem

\* Whatever list, value and count lrem is called with, it returns how many
\* elements it erased, and erased the occurrences that LREM is to erase: the
\* first ones, the last ones or all; and for the one count it cannot negate,
\* all of them or none.
THEOREM RemovesRight == Spec => []RemovesWhatItShould
<1>1. IInv => RemovesWhatItShould
    BY DEF IInv
<1>2. QED
    BY <1>1, InitInv, StepInv, PTL DEF Spec
=============================================================================
