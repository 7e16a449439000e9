---------------------------- MODULE ListRemoval -----------------------------
(***************************************************************************)
(* Database::lrem turn by turn: one loop erases elements under its own     *)
(* iterator, the other under its own index, and both count down an int.    *)
(* Collections!Removed, which Database takes for the result, is what they  *)
(* have to come to.                                                        *)
(***************************************************************************)
EXTENDS Collections

CONSTANTS
    Values,
    INT_MAX,    \* the largest int
    MaxListLen  \* bound: the longest list

INT_MIN == -INT_MAX - 1

ASSUME ListRemovalAssumption == MaxListLen \in Nat /\ INT_MAX \in Nat

\* A list's size fits an int, as in: int i = list.size() - 1.
ASSUME SizesFitInt == MaxListLen =< INT_MAX

VARIABLES
    list,     \* the list, elements erased so far left out
    value,
    count,    \* what is left of the argument
    position, \* of the iterator or the index, counted from 1
    removed,
    pc,       \* which loop
    start,    \* history: the list as it was
    asked,    \* history: count as it was
    origin    \* history: where in start each element of list was

vars == <<list, value, count, position, removed, pc, start, asked, origin>>

Init ==
    /\ \E n \in 0..MaxListLen : start \in [1..n -> Values]
    /\ list = start
    /\ origin = [i \in DOMAIN start |-> i]
    /\ value \in Values
    /\ asked \in INT_MIN..INT_MAX
    /\ count = asked
    /\ position = 0
    /\ removed = 0
    /\ pc = "begin"

\* With count 0 nothing is erased: that statement is commented out.
NoLoop ==
    /\ pc = "begin" /\ count = 0
    /\ pc' = "done"
    /\ UNCHANGED <<list, value, count, position, removed, start, asked, origin>>

BeginForward ==
    /\ pc = "begin" /\ count > 0
    /\ position' = 1
    /\ pc' = "forward"
    /\ UNCHANGED <<list, value, count, removed, start, asked, origin>>

\* count = -count.  For INT_MIN that is undefined: the number stays negative,
\* or the compiler relies on its being positive now.
Negated(n) == IF n = INT_MIN THEN {INT_MIN, INT_MAX} ELSE {-n}

BeginBackward ==
    /\ pc = "begin" /\ count < 0
    /\ count' \in Negated(count)
    /\ position' = Len(list)
    /\ pc' = "backward"
    /\ UNCHANGED <<list, value, removed, start, asked, origin>>

InLoop ==
    /\ pc \in {"forward", "backward"}
    /\ position \in DOMAIN list
    /\ count > 0

Without(s, i) == [j \in 1..(Len(s) - 1) |-> IF j < i THEN s[j] ELSE s[j + 1]]

\* A slip: the iterator advanced past the element that moved up.
EraseElement_Skips ==
    /\ InLoop
    /\ list[position] = value
    /\ list' = Without(list, position)
    /\ origin' = Without(origin, position)
    /\ count' = count - 1
    /\ removed' = removed + 1
    /\ position' = IF pc = "forward" THEN position + 1 ELSE position - 1
    /\ UNCHANGED <<value, pc, start, asked>>

\* The iterator that erase returns is where the element was; the index goes
\* down.
EraseElement ==
    /\ InLoop
    /\ list[position] = value
    /\ list' = Without(list, position)
    /\ origin' = Without(origin, position)
    /\ count' = count - 1
    /\ removed' = removed + 1
    /\ position' = IF pc = "forward" THEN position ELSE position - 1
    /\ UNCHANGED <<value, pc, start, asked>>

\* A slip: the iterator advanced only by erase.
KeepElement_Stays ==
    /\ InLoop
    /\ list[position] # value
    /\ position' = IF pc = "forward" THEN position ELSE position - 1
    /\ UNCHANGED <<list, value, count, removed, pc, start, asked, origin>>

KeepElement ==
    /\ InLoop
    /\ list[position] # value
    /\ position' = IF pc = "forward" THEN position + 1 ELSE position - 1
    /\ UNCHANGED <<list, value, count, removed, pc, start, asked, origin>>

Return ==
    /\ pc \in {"forward", "backward"}
    /\ ~InLoop
    /\ pc' = "done"
    /\ UNCHANGED <<list, value, count, position, removed, start, asked, origin>>

lrem ==
    \/ NoLoop \/ BeginForward \/ BeginBackward
    \/ EraseElement \/ KeepElement \/ Return

\* The method runs to its end.
Spec == Init /\ [][lrem]_vars /\ WF_vars(lrem)
-----------------------------------------------------------------------------
(* Properties. *)

\* The positions of start whose elements were erased.
Gone == DOMAIN start \ Range(origin)

\* lrem leaves the elements it should, in their order, and returns how many
\* it erased.
RemovesWhatItShould ==
    pc = "done" =>
        /\ list = Select(start, origin)
        /\ origin \in Increasing(Range(origin))
        /\ removed = Cardinality(Gone)
        /\ IF asked = INT_MIN
           THEN Gone \in {{}, Occurrences(start, value)}
           ELSE Gone \in Removed(start, asked, value)

\* lrem returns, whatever is erased under its iterator.
Returns == <>(pc = "done")
=============================================================================
