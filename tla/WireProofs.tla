------------------------------ MODULE WireProofs -----------------------------
(***************************************************************************)
(* Theorems about Wire: the parsers on both sides read what the other side *)
(* writes, and the messages they read are the ones that were sent.         *)
(***************************************************************************)
EXTENDS Wire, FiniteSetTheorems, SequenceTheorems, WellFoundedInduction, TLAPS

-----------------------------------------------------------------------------
(* Induction, and sequences put one behind the other. *)

\* A set with 0 and with every successor of its members has every natural.
LEMMA SetInduction ==
    ASSUME NEW S, 0 \in S, \A n \in Nat : n \in S => n + 1 \in S
    PROVE  \A n \in Nat : n \in S
<1> DEFINE R == OpToRel(<, Nat)
           T == Nat \ S
<1>1. \A m, n \in Nat : m < n => <<m, n>> \in R
    BY DEF OpToRel
<1>2. IsWellFoundedOn(R, Nat)
    BY NatLessThanWellFounded, Zenon
<1> HIDE DEF R
<1>3. SUFFICES ASSUME T # {} PROVE FALSE
    OBVIOUS
<1>4. T \subseteq Nat
    OBVIOUS
<1>5. PICK n \in T : \A m \in T : ~ (<<m, n>> \in R)
    BY <1>2, <1>3, <1>4, WFMin, Zenon
<1>6. n # 0
    OBVIOUS
<1>7. n - 1 \in Nat /\ n - 1 < n /\ n = (n - 1) + 1
    BY <1>6
<1>8. n - 1 \in S
    BY <1>1, <1>5, <1>7
<1>9. n \in S
    BY <1>7, <1>8
<1>10. QED
    BY <1>9

\* f[i] is the first i sequences, one behind the other.
Concatenates(f, seqs, m) ==
    /\ f[0] = <<>>
    /\ \A i \in 1..m : f[i] = f[i-1] \o seqs[i]

\* FlattenSeq goes through the concatenations of the first i sequences.
LEMMA FlattenSteps ==
    ASSUME NEW n \in Nat, NEW S, NEW seqs \in [1..n -> Seq(S)]
    PROVE  \E flats \in [0..n -> Seq(S)] :
              Concatenates(flats, seqs, n) /\ FlattenSeq(seqs) = flats[n]
<1> USE DEF Concatenates
<1> DEFINE Steps(f, m) == f \in [0..m -> Seq(S)] /\ Concatenates(f, seqs, m)
           Good == {m \in Nat : m =< n => \E f : Steps(f, m)}
<1> HIDE DEF Steps
<1>0. \A m \in Nat : m \in Good <=> (m =< n => \E f : Steps(f, m))
    OBVIOUS
<1> HIDE DEF Good
<1>1. 0 \in Good
    <2> DEFINE f == [i \in 0..0 |-> <<>>]
    <2>1. Steps(f, 0)
        BY DEF Steps
    <2> HIDE DEF f
    <2>2. QED
        BY <1>0, <2>1
<1>2. ASSUME NEW m \in Nat, m \in Good PROVE m + 1 \in Good
    <2> SUFFICES ASSUME m + 1 =< n PROVE \E g : Steps(g, m + 1)
        BY <1>0
    <2>0. m =< n /\ m + 1 \in 1..n
        OBVIOUS
    <2>1. PICK f : Steps(f, m)
        BY <1>0, <1>2, <2>0
    <2> USE DEF Steps
    <2> DEFINE g == [i \in 0..(m + 1) |-> IF i = m + 1 THEN f[m] \o seqs[m + 1] ELSE f[i]]
    <2>2. seqs[m + 1] \in Seq(S) /\ f[m] \in Seq(S)
        BY <2>0, <2>1
    <2>3. \A i \in 0..m : g[i] = f[i] /\ f[i] \in Seq(S)
        BY <2>1
    <2>4. g[m + 1] = g[m] \o seqs[m + 1] /\ g[m + 1] \in Seq(S)
        <3>0. m + 1 \in 0..(m + 1) /\ m \in 0..m
            OBVIOUS
        <3>1. g[m + 1] = f[m] \o seqs[m + 1]
            BY <3>0
        <3>2. g[m] = f[m]
            BY <2>3, <3>0
        <3> HIDE DEF g
        <3>3. QED
            BY <2>2, <3>1, <3>2
    <2>5. \A i \in 1..m : g[i] = g[i - 1] \o seqs[i]
        <3>1. \A i \in 1..m : i \in 0..m /\ i - 1 \in 0..m
            OBVIOUS
        <3> HIDE DEF g
        <3>2. QED
            BY <2>1, <2>3, <3>1
    <2>6. g[0] = <<>>
        BY <2>1
    <2>7. \A i \in 0..(m + 1) : i \in 0..m \/ i = m + 1
        OBVIOUS
    <2>8. \A i \in 1..(m + 1) : i \in 1..m \/ i = m + 1
        OBVIOUS
    <2>9. g = [i \in 0..(m + 1) |-> g[i]]
        OBVIOUS
    <2> HIDE DEF g
    <2>10. g \in [0..(m + 1) -> Seq(S)]
        BY <2>3, <2>4, <2>7, <2>9
    <2>11. \A i \in 1..(m + 1) : g[i] = g[i - 1] \o seqs[i]
        <3>1. (m + 1) - 1 = m
            OBVIOUS
        <3>2. QED
            BY <2>4, <2>5, <2>8, <3>1
    <2>12. Steps(g, m + 1)
        BY <2>6, <2>10, <2>11
    <2> HIDE DEF Steps
    <2>13. QED
        BY <2>12
<1>3. \A m \in Nat : m \in Good
    BY <1>1, <1>2, SetInduction
<1>4. PICK f : Steps(f, n)
    BY <1>0, <1>3
<1> USE DEF Steps
<1>5. CASE n = 0
    <2>1. Len(seqs) = 0 /\ seqs = <<>>
        BY <1>5
    <2>2. FlattenSeq(seqs) = <<>>
        BY <2>1 DEF FlattenSeq
    <2>3. QED
        BY <1>4, <1>5, <2>2
<1>6. CASE n # 0
    <2> DEFINE F(h) == [i \in 1..n |-> IF i = 1 THEN seqs[i] ELSE h[i-1] \o seqs[i]]
               w == [i \in 1..n |-> f[i]]
               c == CHOOSE h : h = F(h)
    <2>1. w = F(w)
        <3>1. ASSUME NEW i \in 1..n
              PROVE  f[i] = IF i = 1 THEN seqs[i] ELSE w[i - 1] \o seqs[i]
            <4>1. CASE i = 1
                <5>0. 1 \in 1..n /\ 1 - 1 = 0
                    BY <4>1
                <5>1. f[1] = f[0] \o seqs[1] /\ f[0] = <<>> /\ seqs[1] \in Seq(S)
                    BY <1>4, <5>0
                <5>2. <<>> \o seqs[1] = seqs[1]
                    BY <5>1
                <5>3. QED
                    BY <4>1, <5>1, <5>2
            <4>2. CASE i # 1
                <5>1. i - 1 \in 1..n
                    BY <4>2
                <5>2. QED
                    BY <1>4, <4>2, <5>1
            <4>3. QED
                BY <4>1, <4>2
        <3>2. QED
            BY <3>1
    <2>2. c = F(c)
        BY <2>1
    <2>3. FlattenSeq(seqs) = c[n]
        <3>1. Len(seqs) = n
            OBVIOUS
        <3>2. QED
            BY <1>6, <3>1 DEF FlattenSeq
    <2> DEFINE Same == {m \in Nat : m + 1 \in 1..n => c[m + 1] = w[m + 1]}
    <2> HIDE DEF c
    <2>4. \A i \in 1..n : c[i] = IF i = 1 THEN seqs[i] ELSE c[i-1] \o seqs[i]
        BY <2>2
    <2>5. \A i \in 1..n : w[i] = IF i = 1 THEN seqs[i] ELSE w[i-1] \o seqs[i]
        BY <2>1
    <2> HIDE DEF w
    <2>6. 0 \in Same
        BY <2>4, <2>5
    <2>7. ASSUME NEW m \in Nat, m \in Same PROVE m + 1 \in Same
        <3> SUFFICES ASSUME (m + 1) + 1 \in 1..n PROVE c[(m + 1) + 1] = w[(m + 1) + 1]
            OBVIOUS
        <3>1. m + 1 \in 1..n /\ ((m + 1) + 1) - 1 = m + 1 /\ (m + 1) + 1 # 1
            OBVIOUS
        <3>2. c[m + 1] = w[m + 1]
            BY <2>7, <3>1
        <3>3. c[(m + 1) + 1] = c[m + 1] \o seqs[(m + 1) + 1]
            BY <2>4, <3>1
        <3>4. w[(m + 1) + 1] = w[m + 1] \o seqs[(m + 1) + 1]
            BY <2>5, <3>1
        <3>5. QED
            BY <3>2, <3>3, <3>4
    <2>8. \A m \in Nat : m \in Same
        <3> HIDE DEF Same
        <3>1. QED
            BY <2>6, <2>7, SetInduction
    <2>9. c[n] = w[n]
        <3>1. n - 1 \in Nat /\ (n - 1) + 1 = n /\ n \in 1..n
            BY <1>6
        <3>2. n - 1 \in Same
            BY <2>8, <3>1
        <3>3. QED
            BY <3>1, <3>2
    <2>10. w[n] = f[n]
        BY <1>6 DEF w
    <2>11. QED
        BY <1>4, <2>3, <2>9, <2>10
<1>7. QED
    BY <1>5, <1>6

\* Two sequences, one behind the other.
LEMMA ConcatShape ==
    ASSUME NEW S, NEW s \in Seq(S), NEW t \in Seq(S)
    PROVE  /\ s \o t \in Seq(S) /\ Len(s \o t) = Len(s) + Len(t)
           /\ \A i \in 1..Len(s) : (s \o t)[i] = s[i]
           /\ \A i \in 1..Len(t) : (s \o t)[Len(s) + i] = t[i]
OBVIOUS

\* The i-th sequence is in flat behind position at[i-1] and ends at at[i].
Segmented(flat, at, seqs, n) ==
    /\ at[0] = 0 /\ Len(flat) = at[n]
    /\ \A i \in 1..n :
          /\ at[i] = at[i-1] + Len(seqs[i]) /\ at[i] =< at[n]
          /\ \A p \in 1..Len(seqs[i]) : flat[at[i-1] + p] = seqs[i][p]

\* FlattenSeq leaves each sequence as it is.
LEMMA Segments ==
    ASSUME NEW n \in Nat, NEW S, NEW seqs \in [1..n -> Seq(S)]
    PROVE  /\ FlattenSeq(seqs) \in Seq(S)
           /\ \E at \in [0..n -> Nat] : Segmented(FlattenSeq(seqs), at, seqs, n)
<1>1. PICK flats \in [0..n -> Seq(S)] :
            Concatenates(flats, seqs, n) /\ FlattenSeq(seqs) = flats[n]
    BY FlattenSteps
<1> USE DEF Concatenates
<1> DEFINE at == [i \in 0..n |-> Len(flats[i])]
<1>2. at \in [0..n -> Nat] /\ at[0] = 0
    BY <1>1
<1>3. ASSUME NEW i \in 1..n
      PROVE  /\ i - 1 \in 0..n /\ i \in 0..n
             /\ at[i] = at[i-1] + Len(seqs[i])
             /\ \A p \in 1..Len(seqs[i]) : flats[i][at[i-1] + p] = seqs[i][p]
             /\ \A q \in 1..at[i-1] : flats[i][q] = flats[i-1][q]
    <2>1. i - 1 \in 0..n /\ i \in 0..n /\ seqs[i] \in Seq(S)
        OBVIOUS
    <2>2. flats[i] = flats[i-1] \o seqs[i] /\ flats[i-1] \in Seq(S)
        BY <1>1, <2>1
    <2>3. at[i] = Len(flats[i]) /\ at[i-1] = Len(flats[i-1])
        BY <2>1
    <2>4. QED
        BY <2>1, <2>2, <2>3
<1> DEFINE Kept(j) == \A i \in 1..j :
                         at[i] =< at[j] /\ \A q \in 1..at[i] : flats[j][q] = flats[i][q]
           Good == {j \in Nat : j =< n => Kept(j)}
<1> HIDE DEF at, Kept
<1>0. \A j \in Nat : j \in Good <=> (j =< n => Kept(j))
    OBVIOUS
<1> HIDE DEF Good
<1>4. 0 \in Good
    <2>1. Kept(0)
        BY 1..0 = {} DEF Kept
    <2>2. QED
        BY <1>0, <2>1
<1>5. ASSUME NEW j \in Nat, j \in Good PROVE j + 1 \in Good
    <2> SUFFICES ASSUME j + 1 =< n PROVE Kept(j + 1)
        BY <1>0
    <2> SUFFICES ASSUME NEW i \in 1..(j + 1)
                 PROVE  /\ at[i] =< at[j + 1]
                        /\ \A q \in 1..at[i] : flats[j + 1][q] = flats[i][q]
        BY DEF Kept
    <2>0. Kept(j)
        BY <1>0, <1>5
    <2>1. /\ j + 1 \in 1..n /\ (j + 1) - 1 = j /\ j \in 0..n
          /\ i \in 0..n /\ at[i] \in Nat /\ at[j] \in Nat /\ at[j + 1] \in Nat
          /\ Len(seqs[j + 1]) \in Nat
        <3>1. j + 1 \in 1..n /\ (j + 1) - 1 = j /\ j \in 0..n /\ i \in 0..n /\ j + 1 \in 0..n
            OBVIOUS
        <3>2. seqs[j + 1] \in Seq(S)
            BY <3>1
        <3>3. QED
            BY <1>2, <3>1, <3>2
    <2>2. CASE i = j + 1
        BY <2>1, <2>2
    <2>3. CASE i # j + 1
        <3>1. i \in 1..j
            BY <2>3
        <3>2. at[i] =< at[j] /\ \A q \in 1..at[i] : flats[j][q] = flats[i][q]
            BY <2>0, <3>1 DEF Kept
        <3>3. /\ at[j + 1] = at[j] + Len(seqs[j + 1])
              /\ \A q \in 1..at[j] : flats[j + 1][q] = flats[j][q]
            <4>1. /\ at[j + 1] = at[(j + 1) - 1] + Len(seqs[j + 1])
                  /\ \A q \in 1..at[(j + 1) - 1] : flats[j + 1][q] = flats[(j + 1) - 1][q]
                BY <1>3, <2>1, Zenon
            <4>2. QED
                BY <2>1, <4>1
        <3>4. at[i] =< at[j + 1]
            BY <2>1, <3>2, <3>3
        <3>5. \A q \in 1..at[i] : q \in 1..at[j]
            BY <2>1, <3>2
        <3>6. QED
            BY <3>2, <3>3, <3>4, <3>5
    <2>4. QED
        BY <2>2, <2>3
<1>6. Kept(n)
    <2>1. \A j \in Nat : j \in Good
        BY <1>4, <1>5, SetInduction
    <2>2. QED
        BY <1>0, <2>1
<1>7. FlattenSeq(seqs) \in Seq(S) /\ Len(FlattenSeq(seqs)) = at[n]
    BY <1>1 DEF at
<1>8. ASSUME NEW i \in 1..n
      PROVE  /\ at[i] = at[i-1] + Len(seqs[i]) /\ at[i] =< at[n]
             /\ \A p \in 1..Len(seqs[i]) : FlattenSeq(seqs)[at[i-1] + p] = seqs[i][p]
    <2>1. /\ i - 1 \in 0..n /\ i \in 0..n /\ at[i] \in Nat /\ at[i-1] \in Nat
          /\ Len(seqs[i]) \in Nat
        BY <1>2, <1>3
    <2>2. \A p \in 1..Len(seqs[i]) : at[i-1] + p \in 1..at[i]
        BY <1>3, <2>1
    <2>3. QED
        BY <1>1, <1>3, <1>6, <2>1, <2>2 DEF Kept
<1>9. QED
    BY <1>2, <1>7, <1>8 DEF Segmented
-----------------------------------------------------------------------------
(* What both parsers are made of. *)

\* The smaller of two numbers.
LEMMA LeastIsFirst ==
    ASSUME NEW a \in Int, NEW b \in Int, a =< b
    PROVE  Least(a, b) = a
BY DEF Least

Atoms == Marks \cup Letters \cup Int

\* The marks differ from each other and from every number.
LEMMA MarksDiffer ==
    /\ Eol # Star /\ Eol # Dollar /\ Eol # Plus /\ Eol # Minus /\ Eol # Colon
    /\ Star # Dollar /\ Plus # Dollar /\ Minus # Dollar /\ Colon # Dollar
    /\ Plus # Star /\ Minus # Star /\ Colon # Star /\ Eol # Space
    /\ {Star, Dollar, Plus, Minus, Colon, Space, Eol} \subseteq Atoms
    /\ {Star, Dollar, Plus, Minus, Colon, Space, Eol} \cap Int = {}
<1> DEFINE marks == <<Star, Dollar, Plus, Minus, Colon, Space, Eol>>
<1>1. \A i, j \in 1..7 : i # j => marks[i] # marks[j]
    <2>1. DOMAIN marks = 1..7
        OBVIOUS
    <2>2. \A i, j \in DOMAIN marks : marks[i] = marks[j] => i = j
        BY WireAssumption DEF IsInjective
    <2>3. QED
        BY <2>1, <2>2
<1>2. /\ marks[1] = Star /\ marks[2] = Dollar /\ marks[3] = Plus /\ marks[4] = Minus
      /\ marks[5] = Colon /\ marks[6] = Space /\ marks[7] = Eol
    OBVIOUS
<1> HIDE DEF marks
<1>3. /\ Eol # Star /\ Eol # Dollar /\ Eol # Plus /\ Eol # Minus /\ Eol # Colon
      /\ Star # Dollar /\ Plus # Dollar /\ Minus # Dollar /\ Colon # Dollar
      /\ Plus # Star /\ Minus # Star /\ Colon # Star /\ Eol # Space
    <2>1. {1, 2, 3, 4, 5, 6, 7} \subseteq 1..7
        OBVIOUS
    <2>2. QED
        BY <1>1, <1>2, <2>1
<1>4. QED
    BY <1>3, WireAssumption DEF Marks, Atoms

\* The words are made of atoms.
LEMMA WordsAreAtoms == Words \subseteq Seq(Atoms)
BY DEF Words, Atoms

\* Words as sequences of atoms.
LEMMA WordType ==
    ASSUME NEW word \in Words
    PROVE  word \in Seq(Atoms) /\ Len(word) \in Nat
<1>1. word \in Seq(Atoms)
    BY WordsAreAtoms
<1>2. QED
    BY <1>1

\* One atom of a stream.
LEMMA OneAtom ==
    ASSUME NEW S, NEW input \in Seq(S), NEW i \in 1..Len(input)
    PROVE  SubSeq(input, i, i) = <<input[i]>>
<1> DEFINE s == SubSeq(input, i, i)
           t == <<input[i]>>
<1>1. s \in Seq(S) /\ Len(s) = 1 /\ s[1] = input[i]
    OBVIOUS
<1>2. t \in Seq(S) /\ Len(t) = 1 /\ t[1] = input[i]
    OBVIOUS
<1> HIDE DEF s, t
<1>3. Len(s) = Len(t) /\ \A p \in 1..Len(s) : s[p] = t[p]
    BY <1>1, <1>2
<1>4. s = t
    BY <1>1, <1>2, <1>3, SeqEqual
<1>5. QED
    BY <1>4 DEF s, t

\* The first line end is found.
LEMMA EolFound ==
    ASSUME NEW input \in Seq(Atoms), NEW from \in Nat \ {0}, NEW e \in from..Len(input),
           input[e] = Eol, \A i \in from..(e - 1) : input[i] # Eol
    PROVE  FindEol(input, from) = e
<1> DEFINE ends == {i \in from..Len(input) : input[i] = Eol}
<1>1. e \in ends /\ \A i \in ends : e =< i
    OBVIOUS
<1>2. ends \subseteq Int
    OBVIOUS
<1>3. Min(ends) = e
    <2> HIDE DEF ends
    <2>1. \A x \in ends : (\A y \in ends : x =< y) <=> x = e
        BY <1>1, <1>2
    <2>2. (CHOOSE x \in ends : \A y \in ends : x =< y) = e
        BY <1>1, <2>1
    <2>3. QED
        BY <2>2 DEF Min
<1>4. QED
    BY <1>1, <1>3 DEF FindEol

\* Where there is none, none is found.
LEMMA NoEolFound ==
    ASSUME NEW input \in Seq(Atoms), NEW from \in Nat \ {0},
           \A i \in from..Len(input) : input[i] # Eol
    PROVE  FindEol(input, from) = 0
BY DEF FindEol

\* A number alone is read as that number.
LEMMA NumberRead ==
    ASSUME NEW number \in Int
    PROVE  ~StoiThrows(<<number>>) /\ Stoi(<<number>>) = number
<1> DEFINE text == <<number>>
           others == {i \in DOMAIN text : text[i] \notin {Space, Eol}}
<1>1. /\ text \in Seq(Int) /\ Len(text) = 1 /\ text[1] = number /\ DOMAIN text = {1}
      /\ text # <<>> /\ Head(text) = number
    OBVIOUS
<1>2. number \notin {Space, Eol}
    BY MarksDiffer
<1> HIDE DEF text
<1>3. others = {1}
    BY <1>1, <1>2
<1>4. Min(others) = 1
    <2> HIDE DEF others
    <2>1. Min({1}) = 1
        BY DEF Min
    <2>2. QED
        BY <1>3, <2>1
<1>5. SubSeq(text, 1, Len(text)) = text
    BY <1>1
<1>6. others # {}
    BY <1>3
<1>7. Unblanked(text) = SubSeq(text, Min(others), Len(text))
    BY <1>6, Zenon DEF Unblanked
<1>8. Unblanked(text) = text
    BY <1>4, <1>5, <1>7
<1>9. QED
    BY <1>1, <1>8 DEF StoiThrows, Stoi, text

\* The element that begins at a position of the input.
BulkAt(input, at, word) ==
    /\ at + 4 + Len(word) =< Len(input)
    /\ input[at + 1] = Dollar /\ input[at + 2] = Len(word) /\ input[at + 3] = Eol
    /\ \A p \in 1..Len(word) : input[at + 3 + p] = word[p]

\* What the parsers take out of it: the length and the word.
LEMMA BulkTaken ==
    ASSUME NEW input \in Seq(Atoms), NEW at \in Nat, NEW word \in Words,
           BulkAt(input, at, word)
    PROVE  /\ FindEol(input, at + 1) = at + 3 /\ FindEol(input, at + 2) = at + 3
           /\ SubSeq(input, at + 2, at + 2) = <<Len(word)>>
           /\ Substr(input, at + 4, Len(word)) = word
<1> DEFINE l == Len(word)
           m == Len(input)
<1>1. l \in Nat /\ m \in Nat /\ word \in Seq(Atoms)
    BY WordsAreAtoms
<1>2. at + 4 + l =< m /\ input[at + 1] = Dollar /\ input[at + 2] = l /\ input[at + 3] = Eol
    BY DEF BulkAt
<1>3. l # Eol /\ Dollar # Eol
    BY <1>1, MarksDiffer
<1>4. FindEol(input, at + 1) = at + 3
    <2>1. at + 3 \in (at + 1)..m /\ at + 1 \in Nat \ {0}
        BY <1>1, <1>2
    <2>2. \A i \in (at + 1)..((at + 3) - 1) : i = at + 1 \/ i = at + 2
        OBVIOUS
    <2> HIDE DEF l, m
    <2>3. QED
        BY <1>2, <1>3, <2>1, <2>2, EolFound DEF m
<1>5. FindEol(input, at + 2) = at + 3
    <2>1. at + 3 \in (at + 2)..m /\ at + 2 \in Nat \ {0}
        BY <1>1, <1>2
    <2>2. \A i \in (at + 2)..((at + 3) - 1) : i = at + 2
        OBVIOUS
    <2> HIDE DEF l, m
    <2>3. QED
        BY <1>2, <1>3, <2>1, <2>2, EolFound DEF m
<1>6. SubSeq(input, at + 2, at + 2) = <<l>>
    <2> DEFINE s == SubSeq(input, at + 2, at + 2)
               t == <<l>>
    <2>1. s \in Seq(Atoms) /\ Len(s) = 1 /\ s[1] = l
        BY <1>1, <1>2
    <2>2. t \in Seq(Atoms) /\ Len(t) = 1 /\ t[1] = l
        BY <1>1 DEF Atoms
    <2> HIDE DEF s, t
    <2>3. Len(s) = Len(t) /\ \A i \in 1..Len(s) : s[i] = t[i]
        BY <2>1, <2>2
    <2>4. s = t
        BY <2>1, <2>2, <2>3, SeqEqual
    <2>5. QED
        BY <2>4 DEF s, t
<1>7. \A p \in 1..l : input[at + 3 + p] = word[p]
    BY DEF BulkAt
<1>8. SubSeq(input, at + 4, at + 3 + l) = word
    <2> DEFINE s == SubSeq(input, at + 4, at + 3 + l)
    <2>1. s \in Seq(Atoms) /\ Len(s) = l /\ \A p \in 1..l : s[p] = input[at + 3 + p]
        BY <1>1, <1>2
    <2> HIDE DEF s
    <2>2. \A p \in 1..l : s[p] = word[p]
        BY <1>7, <2>1
    <2>3. QED
        BY <1>1, <2>1, <2>2, SeqEqual DEF s
<1>9. Substr(input, at + 4, l) = word
    <2>1. ~(l < 0) /\ at + 4 + l - 1 = at + 3 + l /\ at + 3 + l =< m
        BY <1>1, <1>2
    <2>2. Least(at + 3 + l, m) = at + 3 + l
        BY <1>1, <2>1, LeastIsFirst
    <2> HIDE DEF l
    <2>3. Substr(input, at + 4, l) = SubSeq(input, at + 4, Least(at + 4 + l - 1, m))
        BY <2>1 DEF Substr
    <2>4. QED
        BY <1>8, <2>1, <2>2, <2>3
<1>10. QED
    BY <1>4, <1>5, <1>6, <1>9
-----------------------------------------------------------------------------
(* Arrays. *)

\* An element as it is written.
LEMMA BulkStringShape ==
    ASSUME NEW word \in Words
    PROVE  LET b == BulkString(word)
           IN  /\ b \in Seq(Atoms) /\ Len(b) = Len(word) + 4
               /\ b[1] = Dollar /\ b[2] = Len(word) /\ b[3] = Eol
               /\ \A p \in 1..Len(word) : b[3 + p] = word[p]
<1> DEFINE head == <<Dollar, Len(word), Eol>>
           tail == <<Eol>>
<1>1. word \in Seq(Atoms) /\ Len(word) \in Nat
    BY WordsAreAtoms
<1>2. Dollar \in Atoms /\ Eol \in Atoms /\ Len(word) \in Atoms
    BY <1>1, MarksDiffer DEF Atoms
<1>3. /\ head \in Seq(Atoms) /\ Len(head) = 3
      /\ head[1] = Dollar /\ head[2] = Len(word) /\ head[3] = Eol
    BY <1>2
<1>4. tail \in Seq(Atoms) /\ Len(tail) = 1
    BY <1>2
<1>5. BulkString(word) = head \o word \o tail
    BY DEF BulkString
<1> DEFINE front == head \o word
<1> HIDE DEF head, tail
<1>6. /\ front \in Seq(Atoms) /\ Len(front) = Len(word) + 3
      /\ front[1] = Dollar /\ front[2] = Len(word) /\ front[3] = Eol
      /\ \A p \in 1..Len(word) : front[3 + p] = word[p]
    <2>1. 1 \in 1..Len(head) /\ 2 \in 1..Len(head) /\ 3 \in 1..Len(head)
        BY <1>3
    <2>2. /\ front \in Seq(Atoms) /\ Len(front) = Len(head) + Len(word)
          /\ \A i \in 1..Len(head) : front[i] = head[i]
          /\ \A i \in 1..Len(word) : front[Len(head) + i] = word[i]
        <3>1. head \in Seq(Atoms) /\ word \in Seq(Atoms)
            BY <1>1, <1>3
        <3>2. front \in Seq(Atoms) /\ Len(front) = Len(head) + Len(word)
            BY <3>1
        <3>3. \A i \in 1..Len(head) : front[i] = head[i]
            BY <3>1
        <3>4. \A i \in 1..Len(word) : front[Len(head) + i] = word[i]
            BY <3>1
        <3>5. QED
            BY <3>2, <3>3, <3>4
    <2> HIDE DEF front
    <2>3. QED
        BY <1>1, <1>3, <2>1, <2>2
<1> HIDE DEF front
<1> DEFINE b == front \o tail
<1>7. /\ b \in Seq(Atoms) /\ Len(b) = Len(front) + 1
      /\ \A i \in 1..Len(front) : b[i] = front[i]
    <2>1. /\ b \in Seq(Atoms) /\ Len(b) = Len(front) + Len(tail)
          /\ \A i \in 1..Len(front) : b[i] = front[i]
        BY <1>4, <1>6, ConcatShape
    <2> HIDE DEF b
    <2>2. QED
        BY <1>4, <2>1
<1> HIDE DEF b
<1>8. \A p \in 1..Len(word) : b[3 + p] = word[p]
    <2>1. \A p \in 1..Len(word) : 3 + p \in 1..Len(front)
        BY <1>1, <1>6
    <2>2. QED
        BY <1>6, <1>7, <2>1
<1>9. b[1] = Dollar /\ b[2] = Len(word) /\ b[3] = Eol
    <2>1. 1 \in 1..Len(front) /\ 2 \in 1..Len(front) /\ 3 \in 1..Len(front)
        BY <1>1, <1>6
    <2>2. QED
        BY <1>6, <1>7, <2>1
<1>10. Len(b) = Len(word) + 4
    BY <1>1, <1>6, <1>7
<1>11. BulkString(word) = b
    BY <1>5 DEF b, front
<1>12. QED
    BY <1>7, <1>8, <1>9, <1>10, <1>11

\* An array: behind three atoms its elements, each where the last one ends.
LEMMA ArrayLayout ==
    ASSUME NEW words \in Seq(Words), NEW announced \in Int
    PROVE  LET A == ArrayOf(announced, words)
           IN  /\ A \in Seq(Atoms) /\ A[1] = Star /\ A[2] = announced /\ A[3] = Eol
               /\ \E at \in [0..Len(words) -> Nat] :
                      /\ at[0] = 3 /\ Len(A) = at[Len(words)]
                      /\ \A i \in 1..Len(words) :
                            /\ at[i] = at[i-1] + Len(words[i]) + 4
                            /\ BulkAt(A, at[i-1], words[i])
<1> DEFINE n == Len(words)
           seqs == [i \in 1..n |-> BulkString(words[i])]
           flat == FlattenSeq(seqs)
           head == <<Star, announced, Eol>>
           A == head \o flat
<1>1. n \in Nat /\ DOMAIN words = 1..n /\ \A i \in 1..n : words[i] \in Words
    OBVIOUS
<1>2. seqs \in [1..n -> Seq(Atoms)]
    BY BulkStringShape
<1>3. /\ head \in Seq(Atoms) /\ Len(head) = 3
      /\ head[1] = Star /\ head[2] = announced /\ head[3] = Eol
    BY MarksDiffer DEF Atoms
<1>4. ArrayOf(announced, words) = A
    BY <1>1 DEF ArrayOf
<1>5. \A i \in 1..n : seqs[i] = BulkString(words[i])
    OBVIOUS
<1> HIDE DEF n, seqs, head
<1>6. PICK off \in [0..n -> Nat] : Segmented(flat, off, seqs, n)
    BY <1>1, <1>2, Segments
<1>60. flat \in Seq(Atoms)
    BY <1>1, <1>2, Segments
<1> USE DEF Segmented
<1> HIDE DEF flat
<1> DEFINE at == [i \in 0..n |-> off[i] + 3]
<1>7. /\ A \in Seq(Atoms) /\ Len(A) = Len(flat) + 3
      /\ A[1] = Star /\ A[2] = announced /\ A[3] = Eol
      /\ \A p \in 1..Len(flat) : A[3 + p] = flat[p]
    <2>1. 1 \in 1..Len(head) /\ 2 \in 1..Len(head) /\ 3 \in 1..Len(head)
        BY <1>3
    <2>2. Len(flat) \in Nat
        BY <1>60
    <2>3. /\ A \in Seq(Atoms) /\ Len(A) = Len(head) + Len(flat)
          /\ \A i \in 1..Len(head) : A[i] = head[i]
          /\ \A i \in 1..Len(flat) : A[Len(head) + i] = flat[i]
        <3>1. head \in Seq(Atoms) /\ flat \in Seq(Atoms)
            BY <1>3, <1>60
        <3>2. A \in Seq(Atoms) /\ Len(A) = Len(head) + Len(flat)
            BY <3>1
        <3>3. \A i \in 1..Len(head) : A[i] = head[i]
            BY <3>1
        <3>4. \A i \in 1..Len(flat) : A[Len(head) + i] = flat[i]
            BY <3>1
        <3>5. QED
            BY <3>2, <3>3, <3>4
    <2> HIDE DEF A
    <2>4. QED
        BY <1>3, <2>1, <2>2, <2>3
<1>8. at \in [0..n -> Nat] /\ at[0] = 3 /\ Len(A) = at[n]
    BY <1>1, <1>6, <1>7
<1> HIDE DEF A
<1>9. ASSUME NEW i \in 1..n
      PROVE  at[i] = at[i-1] + Len(words[i]) + 4 /\ BulkAt(A, at[i-1], words[i])
    <2> DEFINE l == Len(words[i])
               o == off[i-1]
    <2>1. /\ i \in 0..n /\ i - 1 \in 0..n /\ words[i] \in Words /\ o \in Nat /\ off[n] \in Nat
          /\ n \in 0..n /\ off[i] \in Nat
        BY <1>1, <1>6
    <2>2. /\ Len(seqs[i]) = l + 4 /\ l \in Nat
          /\ seqs[i][1] = Dollar /\ seqs[i][2] = l /\ seqs[i][3] = Eol
          /\ \A p \in 1..l : seqs[i][3 + p] = words[i][p]
        <3>1. seqs[i] = BulkString(words[i])
            BY <1>5
        <3>2. l \in Nat
            BY <2>1, WordsAreAtoms
        <3>3. QED
            BY <2>1, <3>1, <3>2, BulkStringShape
    <2>3. at[i] = off[i] + 3 /\ at[i-1] = o + 3
        BY <2>1
    <2>4. off[i] = o + l + 4 /\ off[i] =< off[n]
        BY <1>6, <2>1, <2>2
    <2>5. \A p \in 1..(l + 4) : A[o + 3 + p] = seqs[i][p]
        <3> SUFFICES ASSUME NEW p \in 1..(l + 4) PROVE A[o + 3 + p] = seqs[i][p]
            OBVIOUS
        <3> HIDE DEF l, o
        <3>1. o + p \in 1..Len(flat) /\ 3 + (o + p) = o + 3 + p
            BY <1>6, <2>1, <2>2, <2>4
        <3>2. flat[o + p] = seqs[i][p]
            BY <1>6, <2>2 DEF o
        <3>3. QED
            BY <1>7, <3>1, <3>2
    <2> HIDE DEF at, l, o
    <2>6. /\ (o + 3) + 1 = o + 3 + 1 /\ (o + 3) + 2 = o + 3 + 2 /\ (o + 3) + 3 = o + 3 + 3
          /\ 1 \in 1..(l + 4) /\ 2 \in 1..(l + 4) /\ 3 \in 1..(l + 4)
        BY <2>1, <2>2
    <2>7. A[at[i-1] + 1] = Dollar /\ A[at[i-1] + 2] = l /\ A[at[i-1] + 3] = Eol
        BY <2>2, <2>3, <2>5, <2>6
    <2>8. \A p \in 1..l : A[at[i-1] + 3 + p] = words[i][p]
        <3> SUFFICES ASSUME NEW p \in 1..l PROVE A[at[i-1] + 3 + p] = words[i][p]
            OBVIOUS
        <3>1. o \in Int /\ l \in Nat /\ p \in Int
            BY <2>1, <2>2
        <3>2. 3 + p \in 1..(l + 4) /\ o + 3 + 3 + p = o + 3 + (3 + p)
            BY <3>1
        <3>3. A[o + 3 + (3 + p)] = words[i][p]
            BY <2>2, <2>5, <3>2
        <3>4. QED
            BY <2>3, <3>2, <3>3
    <2>9. at[i-1] + 4 + l =< Len(A)
        BY <1>6, <1>7, <2>1, <2>2, <2>3, <2>4
    <2>10. at[i] = at[i-1] + l + 4
        BY <2>1, <2>2, <2>3, <2>4
    <2>11. QED
        BY <2>7, <2>8, <2>9, <2>10 DEF BulkAt, l
<1> HIDE DEF at
<1>10. QED
    BY <1>4, <1>7, <1>8, <1>9 DEF n
-----------------------------------------------------------------------------
(* The parser of the server. *)

\* A turn takes the element at its position.
LEMMA ParserTurn ==
    ASSUME NEW input \in Seq(Atoms), NEW at \in Nat, NEW word \in Words,
           BulkAt(input, at, word), NEW tokens
    PROVE  NextToken(input, Parsed(tokens, "reading", at + 1))
               = Parsed(Append(tokens, word), "reading", at + 4 + Len(word) + 1)
<1> DEFINE parser == Parsed(tokens, "reading", at + 1)
           l == Len(word)
<1>1. /\ FindEol(input, at + 2) = at + 3
      /\ SubSeq(input, at + 2, at + 2) = <<l>>
      /\ Substr(input, at + 4, l) = word
    BY BulkTaken
<1>2. /\ parser.state = "reading" /\ parser.position = at + 1 /\ parser.tokens = tokens
      /\ (at + 1) + 1 = at + 2 /\ (at + 3) - 1 = at + 2 /\ (at + 3) + 1 = at + 4
      /\ (at + 3) # 0
    BY DEF Parsed
<1>3. l \in Nat /\ Len(input) \in Nat /\ at + 4 + l =< Len(input) /\ input[at + 1] = Dollar
    BY WordsAreAtoms DEF BulkAt
<1>4. ~StoiThrows(<<l>>) /\ Stoi(<<l>>) = l
    BY <1>3, NumberRead
<1>5. ~(at + 1 > Len(input)) /\ (at + 3) + l \in 0..Len(input)
    BY <1>3
<1>6. NextToken(input, parser) =
        [parser EXCEPT !.tokens = Append(@, word), !.position = (at + 3) + l + 2]
    <2> HIDE DEF parser, l
    <2>1. FindEol(input, parser.position + 1) = at + 3
        BY <1>1, <1>2
    <2>2. SubSeq(input, parser.position + 1, (at + 3) - 1) = <<l>>
        BY <1>1, <1>2
    <2>3. Substr(input, (at + 3) + 1, l) = word
        BY <1>1, <1>2
    <2>4. ~(parser.position > Len(input)) /\ input[parser.position] = Dollar
        BY <1>2, <1>3, <1>5
    <2>5. QED
        BY <1>2, <1>4, <1>5, <2>1, <2>2, <2>3, <2>4, Zenon DEF NextToken
<1>7. (at + 3) + l + 2 = at + 4 + l + 1
    BY <1>3
<1>8. QED
    BY <1>6, <1>7 DEF Parsed

\* At an atom that begins no element nothing happens any more.
LEMMA ParserStops ==
    ASSUME NEW input, NEW tokens, NEW position, input[position] # Dollar
    PROVE  LET parser == Parsed(tokens, "reading", position)
           IN  NextToken(input, parser) = parser
BY DEF NextToken, Parsed

\* The first i elements of a sequence.
LEMMA PrefixStep ==
    ASSUME NEW S, NEW s \in Seq(S), NEW i \in 1..Len(s)
    PROVE  Append(SubSeq(s, 1, i - 1), s[i]) = SubSeq(s, 1, i)
<1> DEFINE x == SubSeq(s, 1, i - 1)
           y == SubSeq(s, 1, i)
           z == Append(x, s[i])
<1>1. /\ x \in Seq(S) /\ Len(x) = i - 1 /\ \A p \in 1..(i - 1) : x[p] = s[p]
      /\ y \in Seq(S) /\ Len(y) = i /\ \A p \in 1..i : y[p] = s[p]
      /\ s[i] \in S
    OBVIOUS
<1> HIDE DEF x, y
<1>2. /\ z \in Seq(S) /\ Len(z) = i /\ z[i] = s[i]
      /\ \A p \in 1..(i - 1) : z[p] = x[p]
    BY <1>1
<1> HIDE DEF z
<1>3. \A p \in 1..i : p \in 1..(i - 1) \/ p = i
    OBVIOUS
<1>4. Len(z) = Len(y) /\ \A p \in 1..Len(z) : z[p] = y[p]
    BY <1>1, <1>2, <1>3
<1>5. z = y
    BY <1>1, <1>2, <1>4, SeqEqual
<1>6. QED
    BY <1>5 DEF x, y, z

\* The places of an element that ends in a stream are in the stream.
LEMMA InsideElement ==
    ASSUME NEW o \in Nat, NEW l \in Nat, NEW m \in Nat, o + 4 + l =< m
    PROVE  /\ o + 1 \in 1..m /\ o + 2 \in 1..m /\ o + 3 \in 1..m
           /\ \A p \in 1..l : o + 3 + p \in 1..m
OBVIOUS

\* The place behind it.
LEMMA BehindTheElement ==
    ASSUME NEW o \in Nat, NEW l \in Nat, NEW e \in Nat, e = o + l + 4
    PROVE  o + 4 + l + 1 = e + 1
OBVIOUS

\* The parser reads the words of a request as it was sent.
LEMMA ParserReads ==
    ASSUME NEW c \in Seq(Words)
    PROVE  LET request == parseRespCommand(parseSendCommand(c) \o <<Eol>>)
           IN  request.state = "reading" /\ request.tokens = c
<1> DEFINE n == Len(c)
           A == ArrayOf(n, c)
           input == A \o <<Eol>>
<1>1. n \in Nat /\ n \in Int /\ \A i \in 1..n : c[i] \in Words
    OBVIOUS
<1>0. /\ SubSeq(c, 1, 0) = <<>> /\ SubSeq(c, 1, n) = c
      /\ \A i \in 1..n : Append(SubSeq(c, 1, i - 1), c[i]) = SubSeq(c, 1, i)
    <2>1. SubSeq(c, 1, 0) = <<>> /\ SubSeq(c, 1, n) = c
        OBVIOUS
    <2>2. \A i \in 1..n : Append(SubSeq(c, 1, i - 1), c[i]) = SubSeq(c, 1, i)
        <3>1. ASSUME NEW i \in 1..n
              PROVE  Append(SubSeq(c, 1, i - 1), c[i]) = SubSeq(c, 1, i)
            BY PrefixStep
        <3>2. QED
            BY <3>1
    <2>3. QED
        BY <2>1, <2>2
<1> HIDE DEF n
<1>2. PICK at \in [0..n -> Nat] :
            /\ at[0] = 3 /\ Len(A) = at[n]
            /\ \A i \in 1..n : /\ at[i] = at[i-1] + Len(c[i]) + 4
                               /\ BulkAt(A, at[i-1], c[i])
    BY <1>1, ArrayLayout DEF n
<1>3. A \in Seq(Atoms) /\ A[1] = Star /\ A[2] = n /\ A[3] = Eol
    BY <1>1, ArrayLayout
<1>4. at[n] >= 3
    <2> DEFINE Good == {i \in Nat : i =< n => at[i] >= 3}
    <2>1. 0 \in Good
        BY <1>2
    <2>2. ASSUME NEW i \in Nat, i \in Good PROVE i + 1 \in Good
        <3> SUFFICES ASSUME i + 1 =< n PROVE at[i + 1] >= 3
            OBVIOUS
        <3>1. /\ i + 1 \in 1..n /\ (i + 1) - 1 = i /\ i \in 0..n /\ i + 1 \in 0..n
              /\ at[i] >= 3
            BY <1>1, <2>2
        <3>2. at[i + 1] = at[i] + Len(c[i + 1]) + 4 /\ c[i + 1] \in Words
            BY <1>1, <1>2, <3>1
        <3>3. at[i] \in Nat /\ Len(c[i + 1]) \in Nat
            BY <1>2, <3>1, <3>2, WordType
        <3>4. QED
            BY <3>1, <3>2, <3>3
    <2>3. n \in Good
        <3> HIDE DEF Good
        <3>1. QED
            BY <1>1, <2>1, <2>2, SetInduction
    <2>4. QED
        BY <2>3
<1> HIDE DEF A
<1>5. /\ input \in Seq(Atoms) /\ Len(input) = at[n] + 1 /\ input[at[n] + 1] = Eol
      /\ \A p \in 1..at[n] : input[p] = A[p]
    <2>1. Eol \in Atoms
        BY MarksDiffer
    <2>2. QED
        BY <1>2, <1>3, <2>1
<1> HIDE DEF input
<1>6. at[n] \in Nat /\ 0 \in 0..n /\ n \in 0..n
    BY <1>1, <1>2
<1>7. input[1] = Star /\ input[2] = n /\ input[3] = Eol
    <2>1. 1 \in 1..at[n] /\ 2 \in 1..at[n] /\ 3 \in 1..at[n]
        BY <1>4, <1>6
    <2>2. QED
        BY <1>3, <1>5, <2>1
<1>8. ASSUME NEW i \in 1..n PROVE BulkAt(input, at[i-1], c[i]) /\ at[i-1] \in Nat
    <2>1. i - 1 \in 0..n /\ at[i-1] \in Nat /\ c[i] \in Seq(Atoms) /\ Len(c[i]) \in Nat
        BY <1>1, <1>2, WordType
    <2>2. at[i-1] + 4 + Len(c[i]) =< at[n]
        BY <1>2 DEF BulkAt
    <2>3. /\ at[i-1] + 1 \in 1..at[n] /\ at[i-1] + 2 \in 1..at[n] /\ at[i-1] + 3 \in 1..at[n]
          /\ \A p \in 1..Len(c[i]) : at[i-1] + 3 + p \in 1..at[n]
        BY <1>6, <2>1, <2>2, InsideElement
    <2>4. at[i-1] + 4 + Len(c[i]) =< Len(input)
        BY <1>5, <1>6, <2>1, <2>2
    <2>5. BulkAt(A, at[i-1], c[i])
        BY <1>2
    <2>6. QED
        BY <1>5, <2>1, <2>3, <2>4, <2>5 DEF BulkAt
<1>9. FindEol(input, 2) = 3
    <2>1. 3 \in 2..Len(input) /\ 2 \in Nat \ {0}
        BY <1>4, <1>5, <1>6
    <2>2. \A i \in 2..(3 - 1) : input[i] # Eol
        <3>1. \A i \in 2..(3 - 1) : i = 2
            OBVIOUS
        <3>2. n # Eol
            BY <1>1, MarksDiffer
        <3>3. QED
            BY <1>7, <3>1, <3>2
    <2>3. QED
        BY <1>5, <1>7, <2>1, <2>2, EolFound
<1>10. SubSeq(input, 2, 3 - 1) = <<n>>
    <2>0. 2 \in 1..Len(input) /\ 3 - 1 = 2
        BY <1>4, <1>5, <1>6
    <2>1. SubSeq(input, 2, 2) = <<input[2]>>
        BY <1>5, <2>0, OneAtom
    <2>2. QED
        BY <1>7, <2>0, <2>1
<1>11. ~StoiThrows(<<n>>) /\ Stoi(<<n>>) = n
    BY <1>1, NumberRead
<1> DEFINE P(i) == Parsed(SubSeq(c, 1, i), "reading", at[i] + 1)
           W == [i \in Nat |-> P(Least(i, n))]
           F(f) == [i \in Nat |-> IF i = 0 THEN Parsed(<<>>, "reading", FindEol(input, 2) + 1)
                                  ELSE NextToken(input, f[i-1])]
           turns == CHOOSE f : f = F(f)
<1>12. ASSUME NEW i \in 1..n PROVE NextToken(input, P(i-1)) = P(i)
    <2>1. i - 1 \in 0..n /\ at[i-1] \in Nat /\ c[i] \in Words /\ Len(c[i]) \in Nat
        BY <1>1, <1>2, WordsAreAtoms
    <2>2. NextToken(input, P(i-1))
            = Parsed(Append(SubSeq(c, 1, i-1), c[i]), "reading", at[i-1] + 4 + Len(c[i]) + 1)
        BY <1>5, <1>8, <2>1, ParserTurn
    <2>3. Append(SubSeq(c, 1, i-1), c[i]) = SubSeq(c, 1, i)
        BY <1>0
    <2>4. at[i-1] + 4 + Len(c[i]) + 1 = at[i] + 1
        <3>1. at[i] = at[i-1] + Len(c[i]) + 4 /\ at[i] \in Nat
            BY <1>1, <1>2
        <3>2. QED
            BY <2>1, <3>1, BehindTheElement
    <2>5. QED
        BY <2>2, <2>3, <2>4
<1>13. NextToken(input, P(n)) = P(n)
    <2>1. input[at[n] + 1] # Dollar
        BY <1>5, MarksDiffer
    <2>2. QED
        BY <2>1, ParserStops
<1>14. P(0) = Parsed(<<>>, "reading", 3 + 1)
    BY <1>0, <1>2
<1> HIDE DEF P
<1>15. W = F(W)
    <2>1. ASSUME NEW i \in Nat
          PROVE  W[i] = IF i = 0 THEN Parsed(<<>>, "reading", FindEol(input, 2) + 1)
                        ELSE NextToken(input, W[i-1])
        <3>1. CASE i = 0
            <4>1. Least(0, n) = 0
                BY <1>1 DEF Least
            <4>2. QED
                BY <1>9, <1>14, <3>1, <4>1
        <3>2. CASE i \in 1..n
            <4>1. i - 1 \in Nat /\ i - 1 =< n /\ i =< n /\ i - 1 \in Int /\ i \in Int /\ i # 0
                BY <1>1, <3>2
            <4>2. Least(i, n) = i /\ Least(i - 1, n) = i - 1
                BY <1>1, <4>1, LeastIsFirst
            <4>3. W[i] = P(i) /\ W[i-1] = P(i-1)
                BY <4>1, <4>2
            <4> HIDE DEF W
            <4>4. QED
                BY <1>12, <3>2, <4>1, <4>3
        <3>3. CASE i > n
            <4>1. i - 1 \in Nat /\ i # 0
                BY <1>1, <3>3
            <4>2. Least(i, n) = n /\ Least(i - 1, n) = n
                BY <1>1, <3>3, <4>1 DEF Least
            <4>3. W[i] = P(n) /\ W[i-1] = P(n)
                BY <4>1, <4>2
            <4> HIDE DEF W
            <4>4. QED
                BY <1>13, <4>1, <4>3
        <3>4. i = 0 \/ i \in 1..n \/ i > n
            BY <1>1
        <3>5. QED
            BY <3>1, <3>2, <3>3, <3>4
    <2>2. W = [i \in Nat |-> W[i]]
        OBVIOUS
    <2> HIDE DEF W
    <2>3. QED
        BY <2>1, <2>2
<1>16. turns = F(turns)
    <2>1. \E f : f = F(f)
        BY <1>15
    <2>2. QED
        BY <2>1
<1>17. parseRespCommand(parseSendCommand(c) \o <<Eol>>) = turns[n]
    <2>1. parseSendCommand(c) \o <<Eol>> = input
        BY DEF parseSendCommand, input, A, n
    <2> HIDE DEF turns
    <2>2. parseRespCommand(input) = turns[n]
        <3> DEFINE text == SubSeq(input, 2, FindEol(input, 2) - 1)
        <3>1. text = <<n>> /\ ~(FindEol(input, 2) = 0) /\ ~(input[1] # Star)
            BY <1>7, <1>9, <1>10
        <3>2. ~StoiThrows(text) /\ Stoi(text) = n
            BY <1>11, <3>1
        <3>3. parseRespCommand(input) = turns[Turns(Stoi(text))]
            BY <3>1, <3>2, Zenon DEF parseRespCommand, turns, F
        <3>4. Turns(n) = n
            BY <1>1 DEF Turns
        <3>5. QED
            BY <3>2, <3>3, <3>4
    <2>3. QED
        BY <2>1, <2>2
<1> HIDE DEF turns
<1>18. turns[n] = W[n]
    <2> DEFINE Same == {i \in Nat : turns[i] = W[i]}
    <2>1. \A i \in Nat : turns[i] = IF i = 0 THEN Parsed(<<>>, "reading", FindEol(input, 2) + 1)
                                    ELSE NextToken(input, turns[i-1])
        BY <1>16
    <2>2. \A i \in Nat : W[i] = IF i = 0 THEN Parsed(<<>>, "reading", FindEol(input, 2) + 1)
                                ELSE NextToken(input, W[i-1])
        BY <1>15
    <2> HIDE DEF W
    <2>3. 0 \in Same
        BY <2>1, <2>2
    <2>4. ASSUME NEW i \in Nat, i \in Same PROVE i + 1 \in Same
        <3>1. i + 1 \in Nat /\ (i + 1) - 1 = i /\ i + 1 # 0
            OBVIOUS
        <3>2. turns[i + 1] = NextToken(input, turns[i]) /\ W[i + 1] = NextToken(input, W[i])
            BY <2>1, <2>2, <3>1
        <3>3. QED
            BY <2>4, <3>1, <3>2
    <2>5. n \in Same
        <3> HIDE DEF Same
        <3>1. QED
            BY <1>1, <2>3, <2>4, SetInduction
    <2>6. QED
        BY <2>5
<1>19. W[n] = P(n)
    BY <1>1, LeastIsFirst
<1>20. P(n).state = "reading" /\ P(n).tokens = c
    BY <1>0 DEF P, Parsed
<1>21. QED
    BY <1>17, <1>18, <1>19, <1>20
-----------------------------------------------------------------------------
(* The parser of the client. *)

\* The text of a line, and whether a line end follows it.
HasLine(input, text) ==
    /\ input[1] # Eol
    /\ \A p \in 1..Len(text) : input[1 + p] = text[p] /\ text[p] # Eol
    /\ \/ Len(input) = Len(text) + 1
       \/ Len(input) = Len(text) + 2 /\ input[Len(text) + 2] = Eol

\* What a line says.
LEMMA LineRead ==
    ASSUME NEW input \in Seq(Atoms), NEW text \in Seq(Atoms), HasLine(input, text)
    PROVE  Line(input) = text
<1> DEFINE l == Len(text)
           m == Len(input)
           s == SubSeq(input, 2, l + 1)
<1>1. l \in Nat /\ m \in Nat /\ l + 1 =< m
    BY DEF HasLine
<1>2. s = text
    <2>1. s \in Seq(Atoms) /\ Len(s) = l /\ \A p \in 1..l : s[p] = input[1 + p]
        BY <1>1
    <2> HIDE DEF s
    <2>2. \A p \in 1..l : s[p] = text[p]
        BY <2>1 DEF HasLine
    <2>3. Len(s) = Len(text) /\ \A p \in 1..Len(s) : s[p] = text[p]
        BY <2>1, <2>2
    <2>4. QED
        BY <2>1, <2>3, SeqEqual
<1>3. \A i \in 1..(l + 1) : input[i] # Eol
    <2>1. ASSUME NEW i \in 1..(l + 1) PROVE input[i] # Eol
        <3>1. CASE i = 1
            BY <3>1 DEF HasLine
        <3>2. CASE i # 1
            <4>1. i - 1 \in 1..l /\ 1 + (i - 1) = i
                BY <1>1, <3>2
            <4>2. input[1 + (i - 1)] = text[i - 1] /\ text[i - 1] # Eol
                BY <4>1 DEF HasLine
            <4>3. QED
                BY <4>1, <4>2
        <3>3. QED
            BY <3>1, <3>2
    <2>2. QED
        BY <2>1
<1>4. CASE m = l + 1
    <2>1. \A i \in 1..Len(input) : input[i] # Eol
        BY <1>3, <1>4
    <2>2. FindEol(input, 1) = 0
        BY <2>1, NoEolFound
    <2>3. Line(input) = SubSeq(input, 2, m)
        BY <2>2 DEF Line
    <2>4. QED
        BY <1>2, <1>4, <2>3
<1>5. CASE m = l + 2 /\ input[l + 2] = Eol
    <2>1. l + 2 \in 1..m /\ (l + 2) - 1 = l + 1 /\ l + 2 # 0 /\ 1 \in Nat \ {0}
        BY <1>1, <1>5
    <2>2. \A i \in 1..((l + 2) - 1) : input[i] # Eol
        BY <1>3, <2>1
    <2>3. FindEol(input, 1) = l + 2
        <3> HIDE DEF l
        <3>1. QED
            BY <1>5, <2>1, <2>2, EolFound DEF m
    <2>4. Line(input) = SubSeq(input, 2, l + 1)
        BY <2>1, <2>3 DEF Line
    <2>5. QED
        BY <1>2, <2>4
<1>6. QED
    BY <1>4, <1>5 DEF HasLine

\* A reply on one line is shown as the line.
LEMMA LineShown ==
    ASSUME NEW input \in Seq(Atoms), NEW text \in Seq(Atoms), HasLine(input, text),
           input[1] \in {Plus, Minus, Colon}
    PROVE  parseResponse(input) = Read(<<text>>, "reading", 1)
<1>1. Line(input) = text
    BY LineRead
<1>2. ~(input[1] \in {Dollar, Star}) /\ input[1] # Dollar /\ input[1] # Star
    BY MarksDiffer
<1>3. parseResponse(input) = Read(<<Line(input)>>, "reading", 1)
    BY <1>2, Zenon DEF parseResponse
<1>4. QED
    BY <1>1, <1>3

\* A line with an end, and one without.
LEMMA LineShape ==
    ASSUME NEW mark \in {Plus, Minus, Colon}, NEW text \in Seq(Atoms), Eol \notin Range(text),
           NEW tail \in {<<>>, <<Eol>>}
    PROVE  LET input == <<mark>> \o text \o tail
           IN  input \in Seq(Atoms) /\ input[1] = mark /\ HasLine(input, text)
<1>1. mark \in Atoms /\ Eol \in Atoms /\ mark # Eol
    BY MarksDiffer
<1>2. <<mark>> \in Seq(Atoms) /\ tail \in Seq(Atoms)
    <2>1. <<>> \in Seq(Atoms) /\ <<Eol>> \in Seq(Atoms) /\ <<mark>> \in Seq(Atoms)
        BY <1>1
    <2>2. QED
        BY <2>1
<1> DEFINE front == <<mark>> \o text
<1>3. /\ front \in Seq(Atoms) /\ Len(front) = Len(text) + 1 /\ front[1] = mark
      /\ \A p \in 1..Len(text) : front[1 + p] = text[p]
    BY <1>1
<1> HIDE DEF front
<1> DEFINE input == front \o tail
<1>4. /\ input \in Seq(Atoms) /\ Len(input) = Len(front) + Len(tail)
      /\ \A i \in 1..Len(front) : input[i] = front[i]
    <2>1. front \in Seq(Atoms) /\ tail \in Seq(Atoms)
        BY <1>2, <1>3
    <2>2. input \in Seq(Atoms) /\ Len(input) = Len(front) + Len(tail)
        BY <2>1
    <2>3. \A i \in 1..Len(front) : input[i] = front[i]
        BY <2>1
    <2>4. QED
        BY <2>2, <2>3
<1>5. tail = <<Eol>> => Len(tail) = 1 /\ input[Len(front) + 1] = Eol
    BY <1>1, <1>3
<1>6. tail = <<>> => Len(tail) = 0
    OBVIOUS
<1>7. \A p \in 1..Len(text) : text[p] # Eol
    BY DEF Range
<1> HIDE DEF input
<1>8. 1 \in 1..Len(front) /\ \A p \in 1..Len(text) : 1 + p \in 1..Len(front)
    BY <1>3
<1>9. /\ input[1] = mark /\ input[1] # Eol
      /\ \A p \in 1..Len(text) : input[1 + p] = text[p] /\ text[p] # Eol
    BY <1>1, <1>3, <1>4, <1>7, <1>8
<1>10. \/ Len(input) = Len(text) + 1
       \/ Len(input) = Len(text) + 2 /\ input[Len(text) + 2] = Eol
    <2>1. CASE tail = <<>>
        BY <1>3, <1>4, <1>6, <2>1
    <2>2. CASE tail = <<Eol>>
        <3>1. Len(front) + 1 = Len(text) + 2
            BY <1>3
        <3>2. QED
            BY <1>4, <1>5, <2>2, <3>1
    <2>3. QED
        BY <2>1, <2>2
<1>11. QED
    BY <1>4, <1>9, <1>10 DEF HasLine, input, front

\* A turn takes the element at its position.
LEMMA ReaderTurn ==
    ASSUME NEW input \in Seq(Atoms), NEW at \in Nat, NEW word \in Words,
           BulkAt(input, at, word), NEW shown
    PROVE  NextElement(input, Read(shown, "reading", at + 1))
               = Read(Append(shown, word), "reading", at + 4 + Len(word) + 1)
<1> DEFINE reader == Read(shown, "reading", at + 1)
           l == Len(word)
<1>1. /\ FindEol(input, at + 1) = at + 3
      /\ SubSeq(input, at + 2, at + 2) = <<l>>
      /\ Substr(input, at + 4, l) = word
    BY BulkTaken
<1>2. /\ reader.state = "reading" /\ reader.position = at + 1 /\ reader.shown = shown
      /\ (at + 1) + 1 = at + 2 /\ (at + 3) - 1 = at + 2 /\ (at + 3) + 1 = at + 4
      /\ at + 3 > at + 1 /\ BehindEol(at + 3) = at + 4
    BY DEF Read, BehindEol
<1>3. l \in Nat /\ Len(input) \in Nat /\ at + 4 + l =< Len(input)
    BY WordType DEF BulkAt
<1>4. ~StoiThrows(<<l>>) /\ Stoi(<<l>>) = l
    BY <1>3, NumberRead
<1>5. at + 1 \in 1..Len(input) /\ ~(at + 4 > Len(input) + 1) /\ ~(l = -1)
    BY <1>3
<1>6. NextElement(input, reader) =
        [reader EXCEPT !.position = BehindElement(at + 4, l), !.shown = Append(@, word)]
    <2> HIDE DEF reader, l
    <2>1. FindEol(input, reader.position) = at + 3
        BY <1>1, <1>2
    <2>2. SubSeq(input, reader.position + 1, (at + 3) - 1) = <<l>>
        BY <1>1, <1>2
    <2>3. Substr(input, at + 4, l) = word
        BY <1>1
    <2>4. reader.position \in 1..Len(input) /\ at + 3 > reader.position
        BY <1>2, <1>5
    <2>5. QED
        BY <1>2, <1>4, <1>5, <2>1, <2>2, <2>3, <2>4, Zenon DEF NextElement
<1>7. BehindElement(at + 4, l) = at + 4 + l + 1
    BY DEF BehindElement
<1>8. QED
    BY <1>6, <1>7 DEF Read

\* A first line with a number.
LEMMA NumberLine ==
    ASSUME NEW input \in Seq(Atoms), NEW number \in Int, Len(input) >= 3,
           input[1] # Eol, input[2] = number, input[3] = Eol
    PROVE  /\ FindEol(input, 1) = 3 /\ SubSeq(input, 2, 3 - 1) = <<number>>
           /\ Line(input) = <<number>>
           /\ ~StoiThrows(Line(input)) /\ Stoi(Line(input)) = number
<1>1. FindEol(input, 1) = 3
    <2>1. 3 \in 1..Len(input) /\ 1 \in Nat \ {0}
        OBVIOUS
    <2>2. \A i \in 1..(3 - 1) : i = 1 \/ i = 2
        OBVIOUS
    <2>3. number # Eol
        BY MarksDiffer
    <2>4. QED
        BY <2>1, <2>2, <2>3, EolFound
<1>2. SubSeq(input, 2, 3 - 1) = <<number>>
    <2>1. 2 \in 1..Len(input) /\ 3 - 1 = 2
        OBVIOUS
    <2>2. SubSeq(input, 2, 2) = <<input[2]>>
        BY <2>1, OneAtom
    <2>3. QED
        BY <2>1, <2>2
<1>3. Line(input) = <<number>>
    BY <1>1, <1>2 DEF Line
<1>4. QED
    BY <1>1, <1>2, <1>3, NumberRead

\* No value.
LEMMA NilShown ==
    LET input == <<Dollar, -1, Eol>>
    IN  /\ input \in Seq(Atoms) /\ Len(input) = 3
        /\ parseResponse(input).state = "reading"
        /\ parseResponse(input).shown = << <<-1>> >>
<1> DEFINE input == <<Dollar, -1, Eol>>
           reader == Read(<<>>, "reading", 1)
<1>1. /\ input \in Seq(Atoms) /\ Len(input) = 3
      /\ input[1] = Dollar /\ input[2] = -1 /\ input[3] = Eol
    BY MarksDiffer DEF Atoms
<1> HIDE DEF input
<1>2. /\ FindEol(input, 1) = 3 /\ SubSeq(input, 2, 3 - 1) = <<-1>>
      /\ ~StoiThrows(Line(input)) /\ -1 \in Int
    <2>1. -1 \in Int /\ Dollar # Eol /\ Len(input) >= 3
        BY <1>1, MarksDiffer
    <2>2. QED
        BY <1>1, <2>1, NumberLine
<1>3. parseResponse(input) = NextElement(input, reader)
    <2>1. /\ ~(input[1] \in {Plus, Minus, Colon}) /\ input[1] = Dollar /\ input[1] # Star
          /\ input[1] \in {Dollar, Star}
        BY <1>1, MarksDiffer
    <2>2. QED
        BY <1>2, <2>1, Zenon DEF parseResponse
<1>4. NextElement(input, reader)
        = [reader EXCEPT !.position = 3 + 1, !.shown = Append(@, <<-1>>)]
    <2>1. reader.state = "reading" /\ reader.position = 1
        BY DEF Read
    <2> HIDE DEF reader
    <2>2. FindEol(input, reader.position) = 3
        BY <1>2, <2>1
    <2>3. SubSeq(input, reader.position + 1, 3 - 1) = <<-1>>
        BY <1>2, <2>1
    <2>4. /\ reader.position \in 1..Len(input) /\ ~(3 + 1 > Len(input) + 1)
          /\ 3 > reader.position /\ BehindEol(3) = 3 + 1
        BY <1>1, <2>1 DEF BehindEol
    <2>5. ~StoiThrows(<<-1>>) /\ Stoi(<<-1>>) = -1
        BY <1>2, NumberRead
    <2>6. QED
        BY <2>1, <2>2, <2>3, <2>4, <2>5, Zenon DEF NextElement
<1>5. parseResponse(input).state = "reading" /\ parseResponse(input).shown = << <<-1>> >>
    <2>1. Append(<<>>, <<-1>>) = << <<-1>> >>
        OBVIOUS
    <2>2. /\ reader = [shown |-> <<>>, state |-> "reading", position |-> 1]
        BY DEF Read
    <2> HIDE DEF reader
    <2> DEFINE v == [reader EXCEPT !.position = 3 + 1, !.shown = Append(@, <<-1>>)]
    <2>3. v.state = "reading" /\ v.shown = Append(<<>>, <<-1>>)
        BY <2>2
    <2>4. QED
        BY <1>3, <1>4, <2>1, <2>3, Zenon
<1>6. QED
    BY <1>1, <1>5 DEF input

\* A value of any content.
LEMMA BulkShown ==
    ASSUME NEW word \in Words
    PROVE  LET input == BulkString(word)
           IN  /\ input \in Seq(Atoms) /\ Len(input) > 0
               /\ parseResponse(input).state = "reading"
               /\ parseResponse(input).shown = <<word>>
<1> DEFINE input == BulkString(word)
           l == Len(word)
<1>1. /\ input \in Seq(Atoms) /\ Len(input) = l + 4
      /\ input[1] = Dollar /\ input[2] = l /\ input[3] = Eol
      /\ \A p \in 1..l : input[3 + p] = word[p]
    BY BulkStringShape
<1>2. l \in Nat /\ l \in Int
    BY WordType
<1> HIDE DEF input
<1>3. BulkAt(input, 0, word)
    <2>1. /\ 0 + 4 + l =< Len(input) /\ 0 + 1 = 1 /\ 0 + 2 = 2 /\ 0 + 3 = 3
          /\ \A p \in 1..l : 0 + 3 + p = 3 + p
        BY <1>1, <1>2
    <2>2. QED
        BY <1>1, <2>1 DEF BulkAt
<1>4. /\ ~StoiThrows(Line(input)) /\ ~(input[1] \in {Plus, Minus, Colon}) /\ input[1] # Star
      /\ input[1] \in {Dollar, Star}
    <2>1. Dollar # Eol /\ Len(input) >= 3
        BY <1>1, <1>2, MarksDiffer
    <2>2. ~StoiThrows(Line(input))
        BY <1>1, <1>2, <2>1, NumberLine
    <2>3. QED
        BY <1>1, <2>2, MarksDiffer
<1>5. parseResponse(input) = NextElement(input, Read(<<>>, "reading", 1))
    BY <1>1, <1>4, Zenon DEF parseResponse
<1>6. NextElement(input, Read(<<>>, "reading", 1))
        = Read(Append(<<>>, word), "reading", 0 + 4 + l + 1)
    <2>1. NextElement(input, Read(<<>>, "reading", 0 + 1))
            = Read(Append(<<>>, word), "reading", 0 + 4 + l + 1)
        BY <1>1, <1>3, ReaderTurn
    <2>2. 0 + 1 = 1
        OBVIOUS
    <2>3. QED
        BY <2>1, <2>2
<1>7. Append(<<>>, word) = <<word>>
    OBVIOUS
<1>8. parseResponse(input).state = "reading" /\ parseResponse(input).shown = <<word>>
    BY <1>5, <1>6, <1>7 DEF Read
<1>9. Len(input) > 0
    BY <1>1, <1>2
<1>10. QED
    BY <1>1, <1>8, <1>9 DEF input

\* Behind the last element a search throws, and nothing happens any more.
LEMMA ReaderThrows ==
    ASSUME NEW input \in Seq(Atoms), NEW shown, NEW position \in Int, position > Len(input)
    PROVE  LET thrown == Read(shown, "thrown", position)
           IN  /\ NextElement(input, Read(shown, "reading", position)) = thrown
               /\ NextElement(input, thrown) = thrown
<1> DEFINE reader == Read(shown, "reading", position)
           thrown == Read(shown, "thrown", position)
<1>1. reader.state = "reading" /\ reader.position = position /\ thrown.state = "thrown"
    BY DEF Read
<1>2. [reader EXCEPT !.state = "thrown"] = thrown
    BY DEF Read
<1>3. ~("thrown" = "reading") /\ position \notin 1..Len(input)
    OBVIOUS
<1> HIDE DEF reader, thrown
<1>4. NextElement(input, reader) = [reader EXCEPT !.state = "thrown"]
    BY <1>1, <1>3, Zenon DEF NextElement
<1>5. NextElement(input, thrown) = thrown
    BY <1>1, <1>3, Zenon DEF NextElement
<1>6. QED
    BY <1>2, <1>4, <1>5 DEF reader, thrown

\* The elements of an array that are announced, each of any content.
LEMMA ArrayShown ==
    ASSUME NEW c \in Seq(Words), NEW k \in 0..Len(c)
    PROVE  LET input == ArrayOf(k, c)
           IN  /\ input \in Seq(Atoms) /\ Len(input) > 0
               /\ parseResponse(input).state = "reading"
               /\ parseResponse(input).shown = SubSeq(c, 1, k)
<1> DEFINE n == Len(c)
           input == ArrayOf(k, c)
<1>1. /\ n \in Nat /\ n \in Int /\ k \in Nat /\ k \in Int /\ k =< n
      /\ \A i \in 1..n : c[i] \in Words
    OBVIOUS
<1>2. /\ SubSeq(c, 1, 0) = <<>>
      /\ \A i \in 1..n : Append(SubSeq(c, 1, i - 1), c[i]) = SubSeq(c, 1, i)
    <2>1. SubSeq(c, 1, 0) = <<>>
        OBVIOUS
    <2>2. ASSUME NEW i \in 1..n
          PROVE  Append(SubSeq(c, 1, i - 1), c[i]) = SubSeq(c, 1, i)
        BY PrefixStep
    <2>3. QED
        BY <2>1, <2>2
<1> HIDE DEF n
<1>3. PICK at \in [0..n -> Nat] :
            /\ at[0] = 3 /\ Len(input) = at[n]
            /\ \A i \in 1..n : /\ at[i] = at[i-1] + Len(c[i]) + 4
                               /\ BulkAt(input, at[i-1], c[i])
    BY <1>1, ArrayLayout DEF n
<1>4. input \in Seq(Atoms) /\ input[1] = Star /\ input[2] = k /\ input[3] = Eol
    BY <1>1, ArrayLayout
<1>5. at[n] \in Nat /\ 0 \in 0..n /\ n \in 0..n
    BY <1>1, <1>3
<1>6. Len(input) >= 3
    <2>1. CASE n = 0
        BY <1>3, <2>1
    <2>2. CASE n # 0
        <3>1. n \in 1..n /\ n - 1 \in 0..n
            BY <1>1, <2>2
        <3>2. BulkAt(input, at[n-1], c[n]) /\ at[n-1] \in Nat /\ Len(c[n]) \in Nat
            BY <1>1, <1>3, <3>1, WordType
        <3>3. at[n-1] + 4 + Len(c[n]) =< Len(input)
            BY <3>2 DEF BulkAt
        <3>4. QED
            BY <1>3, <1>5, <3>2, <3>3
    <2>3. QED
        BY <2>1, <2>2
<1> HIDE DEF input
<1>7. /\ BehindEol(FindEol(input, 1)) = 4
      /\ ~StoiThrows(Line(input)) /\ Stoi(Line(input)) = k
    <2>1. Star # Eol
        BY MarksDiffer
    <2>2. QED
        BY <1>1, <1>4, <1>6, <2>1, NumberLine DEF BehindEol
<1> DEFINE P(i) == Read(SubSeq(c, 1, i), "reading", at[i] + 1)
           T == Read(SubSeq(c, 1, n), "thrown", at[n] + 1)
           W == [i \in Nat |-> IF i > n THEN T ELSE P(i)]
           F(f) == [i \in Nat |-> IF i = 0 THEN Read(<<>>, "reading", BehindEol(FindEol(input, 1)))
                                  ELSE NextElement(input, f[i-1])]
           turns == CHOOSE f : f = F(f)
<1>8. ASSUME NEW i \in 1..n PROVE NextElement(input, P(i-1)) = P(i)
    <2>1. /\ i - 1 \in 0..n /\ at[i-1] \in Nat /\ c[i] \in Words /\ Len(c[i]) \in Nat
          /\ BulkAt(input, at[i-1], c[i])
        BY <1>1, <1>3, WordType
    <2>2. NextElement(input, P(i-1))
            = Read(Append(SubSeq(c, 1, i-1), c[i]), "reading", at[i-1] + 4 + Len(c[i]) + 1)
        BY <1>4, <2>1, ReaderTurn
    <2>3. Append(SubSeq(c, 1, i-1), c[i]) = SubSeq(c, 1, i)
        BY <1>2
    <2>4. at[i-1] + 4 + Len(c[i]) + 1 = at[i] + 1
        <3>1. at[i] = at[i-1] + Len(c[i]) + 4 /\ at[i] \in Nat
            BY <1>1, <1>3
        <3>2. QED
            BY <2>1, <3>1, BehindTheElement
    <2>5. QED
        BY <2>2, <2>3, <2>4
<1>9. NextElement(input, P(n)) = T /\ NextElement(input, T) = T
    <2>1. at[n] + 1 \in Int /\ at[n] + 1 > Len(input)
        BY <1>3, <1>5
    <2>2. QED
        BY <1>4, <2>1, ReaderThrows
<1>10. P(0) = Read(<<>>, "reading", BehindEol(FindEol(input, 1)))
    <2>1. at[0] + 1 = 4
        BY <1>3
    <2>2. QED
        BY <1>2, <1>7, <2>1
<1> HIDE DEF P, T
<1>11. W = F(W)
    <2>1. ASSUME NEW i \in Nat
          PROVE  W[i] = IF i = 0 THEN Read(<<>>, "reading", BehindEol(FindEol(input, 1)))
                        ELSE NextElement(input, W[i-1])
        <3>1. CASE i = 0
            <4>1. ~(0 > n)
                BY <1>1
            <4>2. QED
                BY <1>10, <3>1, <4>1
        <3>2. CASE i \in 1..n
            <4>1. i - 1 \in Nat /\ ~(i - 1 > n) /\ ~(i > n) /\ i # 0
                BY <1>1, <3>2
            <4>2. W[i] = P(i) /\ W[i-1] = P(i-1)
                BY <4>1
            <4> HIDE DEF W
            <4>3. QED
                BY <1>8, <3>2, <4>1, <4>2
        <3>3. CASE i > n
            <4>1. i - 1 \in Nat /\ i # 0 /\ (i - 1 = n \/ i - 1 > n) /\ ~(n > n)
                BY <1>1, <3>3
            <4>2. W[i] = T /\ (W[i-1] = P(n) \/ W[i-1] = T)
                BY <3>3, <4>1
            <4> HIDE DEF W
            <4>3. QED
                BY <1>9, <4>1, <4>2
        <3>4. i = 0 \/ i \in 1..n \/ i > n
            BY <1>1
        <3>5. QED
            BY <3>1, <3>2, <3>3, <3>4
    <2>2. W = [i \in Nat |-> W[i]]
        OBVIOUS
    <2> HIDE DEF W
    <2>3. QED
        BY <2>1, <2>2
<1>12. turns = F(turns)
    <2>1. \E f : f = F(f)
        BY <1>11
    <2>2. QED
        BY <2>1
<1>13. parseResponse(input) = turns[k]
    <2>1. /\ ~(input[1] \in {Plus, Minus, Colon}) /\ input[1] = Star /\ input[1] # Dollar
          /\ input[1] \in {Dollar, Star}
        BY <1>4, MarksDiffer
    <2> DEFINE number == Stoi(Line(input))
    <2>2. parseResponse(input) = turns[Turns(number)]
        BY <1>7, <2>1, Zenon DEF parseResponse, turns, F
    <2> HIDE DEF turns
    <2>3. Turns(number) = k
        BY <1>1, <1>7 DEF Turns
    <2>4. QED
        BY <2>2, <2>3, Zenon
<1> HIDE DEF turns
<1>14. turns[k] = W[k]
    <2> DEFINE Same == {i \in Nat : turns[i] = W[i]}
    <2>1. \A i \in Nat : turns[i] = IF i = 0 THEN Read(<<>>, "reading", BehindEol(FindEol(input, 1)))
                                    ELSE NextElement(input, turns[i-1])
        BY <1>12
    <2>2. \A i \in Nat : W[i] = IF i = 0 THEN Read(<<>>, "reading", BehindEol(FindEol(input, 1)))
                                ELSE NextElement(input, W[i-1])
        BY <1>11
    <2> HIDE DEF W
    <2>3. 0 \in Same
        BY <2>1, <2>2
    <2>4. ASSUME NEW i \in Nat, i \in Same PROVE i + 1 \in Same
        <3>1. i + 1 \in Nat /\ (i + 1) - 1 = i /\ i + 1 # 0
            OBVIOUS
        <3>2. turns[i + 1] = NextElement(input, turns[i]) /\ W[i + 1] = NextElement(input, W[i])
            BY <2>1, <2>2, <3>1
        <3>3. QED
            BY <2>4, <3>1, <3>2
    <2>5. k \in Same
        <3> HIDE DEF Same
        <3>1. QED
            BY <1>1, <2>3, <2>4, SetInduction
    <2>6. QED
        BY <2>5
<1>15. W[k] = P(k)
    <2>1. ~(k > n)
        BY <1>1
    <2>2. QED
        BY <1>1, <2>1
<1>16. P(k).state = "reading" /\ P(k).shown = SubSeq(c, 1, k)
    BY DEF P, Read
<1>17. parseResponse(input).state = "reading" /\ parseResponse(input).shown = SubSeq(c, 1, k)
    BY <1>13, <1>14, <1>15, <1>16
<1>18. Len(input) > 0
    BY <1>4, <1>6
<1>19. QED
    BY <1>4, <1>17, <1>18 DEF input

\* A reply that is written so and means this is shown as it is meant.
Shows(input, meaning) ==
    /\ input \in Seq(Atoms) /\ Len(input) > 0
    /\ parseResponse(input).state = "reading"
    /\ parseResponse(input).shown = meaning

\* What a reply on one line is written as and read as.
LEMMA LineReply ==
    ASSUME NEW mark \in {Plus, Minus, Colon}, NEW text \in Seq(Atoms), Eol \notin Range(text),
           NEW tail \in {<<>>, <<Eol>>}
    PROVE  Shows(<<mark>> \o text \o tail, <<text>>)
<1> DEFINE input == <<mark>> \o text \o tail
<1>1. input \in Seq(Atoms) /\ input[1] = mark /\ HasLine(input, text)
    BY LineShape
<1> HIDE DEF input
<1>2. parseResponse(input) = Read(<<text>>, "reading", 1)
    BY <1>1, LineShown
<1>3. Len(input) > 0
    BY <1>1 DEF HasLine
<1>4. QED
    BY <1>1, <1>2, <1>3 DEF Read, Shows, input

\* A line of one atom.
LEMMA ThreeAtoms ==
    ASSUME NEW S, NEW x \in S, NEW y \in S, NEW z \in S
    PROVE  <<x, y, z>> = <<x>> \o <<y>> \o <<z>>
<1> DEFINE s == <<x, y, z>>
           xy == <<x>> \o <<y>>
           zz == <<z>>
           t == xy \o zz
<1>1. s \in Seq(S) /\ Len(s) = 3 /\ s[1] = x /\ s[2] = y /\ s[3] = z
    OBVIOUS
<1>2. /\ xy \in Seq(S) /\ Len(xy) = 2 /\ xy[1] = x /\ xy[2] = y
      /\ zz \in Seq(S) /\ Len(zz) = 1 /\ zz[1] = z
    OBVIOUS
<1> HIDE DEF s, xy, zz
<1>3. t \in Seq(S) /\ Len(t) = 3 /\ t[1] = x /\ t[2] = y /\ t[3] = z
    <2>0. xy \in Seq(S) /\ zz \in Seq(S) /\ 1 \in 1..Len(zz)
        BY <1>2
    <2>1. t \in Seq(S) /\ Len(t) = Len(xy) + Len(zz)
        BY <2>0
    <2>2. \A i \in 1..Len(xy) : t[i] = xy[i]
        BY <2>0
    <2>3. t[Len(xy) + 1] = zz[1]
        BY <2>0
    <2>4. 1 \in 1..Len(xy) /\ 2 \in 1..Len(xy) /\ Len(xy) + 1 = 3
        BY <1>2
    <2>5. QED
        BY <1>2, <2>1, <2>2, <2>3, <2>4
<1> HIDE DEF t
<1>4. Len(s) = Len(t) /\ \A i \in 1..Len(s) : s[i] = t[i]
    <2>1. \A i \in 1..3 : i = 1 \/ i = 2 \/ i = 3
        OBVIOUS
    <2>2. QED
        BY <1>1, <1>3, <2>1
<1>5. s = t
    BY <1>1, <1>3, <1>4, SeqEqual
<1>6. QED
    BY <1>5 DEF s, t, xy, zz

\* The replies, kind by kind.
LEMMA ReplyKinds ==
    ASSUME NEW r \in AnyReply
    PROVE  \/ r.type \in {"status", "error", "unterminated_error"} /\ r.text \in Words
           \/ r.type = "integer" /\ r.number \in Int
           \/ r.type = "nil"
           \/ r.type = "bulk" /\ r.text \in Words
           \/ r.type = "bulk_without_length"
           \/ /\ r.type = "array" /\ r.elements \in Seq(Words)
              /\ r.announced \in 0..Len(r.elements)
<1>1. CASE r \in [type : {"status", "error", "unterminated_error", "bulk"}, text : Words]
    BY <1>1
<1>2. CASE r \in [type : {"integer"}, number : Int]
    BY <1>2
<1>3. CASE r \in [type : {"nil", "bulk_without_length"}]
    BY <1>3
<1>4. CASE /\ r \in [type : {"array"}, announced : Nat, elements : Seq(Words)]
           /\ r.announced =< Len(r.elements)
    BY <1>4
<1>5. QED
    BY <1>1, <1>2, <1>3, <1>4 DEF AnyReply

\* A line is written as its mark, its text and perhaps a line end.
LEMMA LineWritten ==
    ASSUME NEW r \in AnyReply,
           r.type \in {"status", "error", "unterminated_error", "integer"}
    PROVE  \E mark \in {Plus, Minus, Colon}, text \in Seq(Atoms), tail \in {<<>>, <<Eol>>} :
              /\ Encode(r) = <<mark>> \o text \o tail
              /\ Meaning(r) = <<text>>
              /\ FollowsProtocol(r) => Eol \notin Range(text)
<1>1. CASE r.type \in {"status", "error", "unterminated_error"} /\ r.text \in Words
    <2>1. r.text \in Seq(Atoms) /\ <<Eol>> \in {<<>>, <<Eol>>} /\ <<>> \in {<<>>, <<Eol>>}
        BY <1>1, WordType
    <2>2. /\ Meaning(r) = <<r.text>>
          /\ FollowsProtocol(r) => Eol \notin Range(r.text)
        BY <1>1 DEF Meaning, FollowsProtocol
    <2>3. CASE r.type = "status"
        <3>1. Encode(r) = <<Plus>> \o r.text \o <<Eol>>
            BY <2>3 DEF Encode
        <3>2. QED
            BY <2>1, <2>2, <3>1
    <2>4. CASE r.type = "error"
        <3>1. Encode(r) = <<Minus>> \o r.text \o <<Eol>>
            BY <2>4 DEF Encode
        <3>2. QED
            BY <2>1, <2>2, <3>1
    <2>5. CASE r.type = "unterminated_error"
        <3>1. Encode(r) = <<Minus>> \o r.text
            BY <2>5 DEF Encode
        <3>2. <<Minus>> \o r.text = <<Minus>> \o r.text \o <<>>
            BY <2>1, MarksDiffer
        <3>3. QED
            BY <2>1, <2>2, <3>1, <3>2
    <2>6. QED
        BY <1>1, <2>3, <2>4, <2>5
<1>2. CASE r.type = "integer" /\ r.number \in Int
    <2> DEFINE text == <<r.number>>
    <2>1. Encode(r) = <<Colon, r.number, Eol>> /\ Meaning(r) = <<text>>
        BY <1>2 DEF Encode, Meaning
    <2>2. text \in Seq(Atoms) /\ Eol \notin Range(text)
        BY <1>2, MarksDiffer DEF Atoms, Range
    <2>3. <<Colon, r.number, Eol>> = <<Colon>> \o text \o <<Eol>>
        <3>1. Colon \in Atoms /\ r.number \in Atoms /\ Eol \in Atoms
            BY <1>2, MarksDiffer DEF Atoms
        <3>2. QED
            BY <3>1, ThreeAtoms
    <2> HIDE DEF text
    <2>4. Encode(r) = <<Colon>> \o text \o <<Eol>> /\ <<Eol>> \in {<<>>, <<Eol>>}
        BY <2>1, <2>3
    <2>5. QED
        BY <2>1, <2>2, <2>4
<1>3. QED
    BY <1>1, <1>2, ReplyKinds

\* A text between a mark and perhaps a line end.
LEMMA MarkedText ==
    ASSUME NEW mark \in {Plus, Minus, Colon}, NEW text \in Seq(Atoms),
           NEW tail \in {<<>>, <<Eol>>}
    PROVE  LET input == <<mark>> \o text \o tail
           IN  input \in Seq(Atoms) /\ Len(input) > 0 /\ input[1] = mark
<1>1. mark \in Atoms /\ Eol \in Atoms
    BY MarksDiffer
<1>2. tail \in Seq(Atoms)
    <2>1. <<>> \in Seq(Atoms) /\ <<Eol>> \in Seq(Atoms)
        BY <1>1
    <2>2. QED
        BY <2>1
<1> DEFINE front == <<mark>> \o text
<1>3. front \in Seq(Atoms) /\ Len(front) = Len(text) + 1 /\ front[1] = mark
    BY <1>1
<1> HIDE DEF front
<1>4. /\ front \o tail \in Seq(Atoms) /\ Len(front \o tail) = Len(front) + Len(tail)
      /\ \A i \in 1..Len(front) : (front \o tail)[i] = front[i]
    BY <1>2, <1>3, ConcatShape
<1>5. 1 \in 1..Len(front) /\ Len(tail) \in Nat
    BY <1>2, <1>3
<1>6. QED
    BY <1>3, <1>4, <1>5 DEF front

\* A text is read whatever follows its mark.
LEMMA LineNeverThrows ==
    ASSUME NEW input, input[1] \in {Plus, Minus, Colon}
    PROVE  parseResponse(input).state = "reading"
<1>1. ~(input[1] \in {Dollar, Star}) /\ input[1] # Dollar /\ input[1] # Star
    BY MarksDiffer
<1>2. parseResponse(input) = Read(<<Line(input)>>, "reading", 1)
    BY <1>1, Zenon DEF parseResponse
<1>3. QED
    BY <1>2 DEF Read

\* What a client gets of a line.
LEMMA LineTaken ==
    ASSUME NEW r \in AnyReply,
           r.type \in {"status", "error", "unterminated_error", "integer"}
    PROVE  /\ Encode(r) \in Seq(Atoms) /\ Len(Encode(r)) > 0
           /\ Encode(r)[1] \in {Plus, Minus, Colon}
           /\ FollowsProtocol(r) => Shows(Encode(r), Meaning(r))
<1>1. PICK mark \in {Plus, Minus, Colon}, text \in Seq(Atoms), tail \in {<<>>, <<Eol>>} :
            /\ Encode(r) = <<mark>> \o text \o tail
            /\ Meaning(r) = <<text>>
            /\ FollowsProtocol(r) => Eol \notin Range(text)
    BY LineWritten
<1> DEFINE input == <<mark>> \o text \o tail
<1>2. input \in Seq(Atoms) /\ Len(input) > 0 /\ input[1] = mark
    BY MarkedText
<1>3. ASSUME FollowsProtocol(r) PROVE Shows(input, <<text>>)
    <2>1. Eol \notin Range(text)
        BY <1>1, <1>3
    <2>2. QED
        BY <2>1, LineReply
<1> HIDE DEF input
<1>4. Encode(r) = input
    BY <1>1 DEF input
<1>5. QED
    BY <1>1, <1>2, <1>3, <1>4

\* What a client gets of the other replies, when they are whole.
LEMMA LengthTaken ==
    ASSUME NEW r \in AnyReply, r.type \in {"nil", "bulk", "array"}
    PROVE  /\ Encode(r) \in Seq(Atoms) /\ Len(Encode(r)) > 0
           /\ parseResponse(Encode(r)).state = "reading"
           /\ FollowsProtocol(r) => parseResponse(Encode(r)).shown = Meaning(r)
<1>1. CASE r.type = "nil"
    <2>1. Encode(r) = <<Dollar, -1, Eol>> /\ Meaning(r) = << <<-1>> >>
        BY <1>1 DEF Encode, Meaning
    <2>2. QED
        BY <2>1, NilShown
<1>2. CASE r.type = "bulk" /\ r.text \in Words
    <2>1. Encode(r) = BulkString(r.text) /\ Meaning(r) = <<r.text>>
        BY <1>2 DEF Encode, Meaning
    <2>2. QED
        BY <1>2, <2>1, BulkShown
<1>3. CASE r.type = "array" /\ r.elements \in Seq(Words) /\ r.announced \in 0..Len(r.elements)
    <2>1. /\ Encode(r) = ArrayOf(r.announced, r.elements) /\ Meaning(r) = r.elements
          /\ FollowsProtocol(r) => r.announced = Len(r.elements)
        BY <1>3 DEF Encode, Meaning, FollowsProtocol
    <2> DEFINE input == ArrayOf(r.announced, r.elements)
    <2>2. /\ input \in Seq(Atoms) /\ Len(input) > 0
          /\ parseResponse(input).state = "reading"
          /\ parseResponse(input).shown = SubSeq(r.elements, 1, r.announced)
        BY <1>3, ArrayShown
    <2>3. SubSeq(r.elements, 1, Len(r.elements)) = r.elements
        BY <1>3
    <2> HIDE DEF input
    <2>4. Encode(r) = input
        BY <2>1 DEF input
    <2>5. QED
        BY <2>1, <2>2, <2>3, <2>4
<1>4. QED
    BY <1>1, <1>2, <1>3, ReplyKinds

\* The first n atoms of a stream.
LEMMA FirstShape ==
    ASSUME NEW data \in Seq(Atoms), Len(data) > 0, NEW n \in Nat \ {0}
    PROVE  LET first == FirstOf(data, n)
           IN  first \in Seq(Atoms) /\ Len(first) > 0 /\ first[1] = data[1]
<1> DEFINE k == Least(n, Len(data))
<1>1. k \in 1..Len(data)
    BY DEF Least
<1>2. FirstOf(data, n) = SubSeq(data, 1, k)
    BY DEF FirstOf
<1> HIDE DEF k
<1>3. /\ SubSeq(data, 1, k) \in Seq(Atoms) /\ Len(SubSeq(data, 1, k)) = k
      /\ SubSeq(data, 1, k)[1] = data[1]
    BY <1>1
<1>4. QED
    BY <1>1, <1>2, <1>3

\* A message that fits is taken whole.
LEMMA TakenWhole ==
    ASSUME NEW S, NEW data \in Seq(S), NEW n \in Nat, Len(data) =< n
    PROVE  FirstOf(data, n) = data /\ RestOf(data, n) = <<>>
<1>1. Len(data) \in Nat
    OBVIOUS
<1>2. Least(n, Len(data)) = Len(data)
    BY <1>1 DEF Least
<1>3. SubSeq(data, 1, Len(data)) = data
    OBVIOUS
<1>4. SubSeq(data, n + 1, Len(data)) = <<>>
    BY <1>1
<1>5. QED
    BY <1>2, <1>3, <1>4 DEF FirstOf, RestOf

\* What reaches the client of a reply ends it only if the reply is one that
\* kills, and is shown as it is meant if it is whole and in RESP.
LEMMA ReplyTaken ==
    ASSUME NEW r \in AnyReply
    PROVE  LET input == FirstOf(Encode(r), SendRoom)
           IN  /\ input \in Seq(Atoms) /\ Len(input) > 0
               /\ parseResponse(input).state = "thrown" => Kills(r)
               /\ FollowsProtocol(r) /\ Whole(r) => parseResponse(input).shown = Meaning(r)
<1> DEFINE input == FirstOf(Encode(r), SendRoom)
<1>1. SendRoom \in Nat \ {0} /\ SendRoom \in Nat /\ "reading" # "thrown"
    BY WireAssumption
<1>2. ASSUME Encode(r) \in Seq(Atoms), Len(Encode(r)) > 0
      PROVE  /\ input \in Seq(Atoms) /\ Len(input) > 0 /\ input[1] = Encode(r)[1]
             /\ Whole(r) => input = Encode(r)
    <2>1. input \in Seq(Atoms) /\ Len(input) > 0 /\ input[1] = Encode(r)[1]
        BY <1>1, <1>2, FirstShape
    <2>2. Whole(r) => input = Encode(r)
        BY <1>1, <1>2, TakenWhole DEF Whole
    <2>3. QED
        BY <2>1, <2>2
<1> HIDE DEF input
<1>3. CASE r.type \in {"status", "error", "unterminated_error", "integer"}
    <2>1. /\ Encode(r) \in Seq(Atoms) /\ Len(Encode(r)) > 0
          /\ Encode(r)[1] \in {Plus, Minus, Colon}
          /\ FollowsProtocol(r) => Shows(Encode(r), Meaning(r))
        BY <1>3, LineTaken
    <2>2. parseResponse(input).state = "reading"
        BY <1>2, <2>1, LineNeverThrows
    <2>3. FollowsProtocol(r) /\ Whole(r) => parseResponse(input).shown = Meaning(r)
        BY <1>2, <2>1 DEF Shows
    <2>4. QED
        BY <1>1, <1>2, <2>1, <2>2, <2>3 DEF input
<1>4. CASE r.type \in {"nil", "bulk", "array"}
    <2>1. /\ Encode(r) \in Seq(Atoms) /\ Len(Encode(r)) > 0
          /\ parseResponse(Encode(r)).state = "reading"
          /\ FollowsProtocol(r) => parseResponse(Encode(r)).shown = Meaning(r)
        BY <1>4, LengthTaken
    <2>2. ~Whole(r) => Kills(r)
        BY <1>4 DEF Kills
    <2>3. QED
        BY <1>1, <1>2, <2>1, <2>2 DEF input
<1>5. CASE r.type = "bulk_without_length"
    <2>1. Encode(r) = <<Dollar, Minus, Eol>>
        BY <1>5 DEF Encode
    <2>2. Encode(r) \in Seq(Atoms) /\ Len(Encode(r)) > 0
        BY <2>1, MarksDiffer
    <2>3. Kills(r) /\ ~FollowsProtocol(r)
        BY <1>5 DEF Kills, FollowsProtocol
    <2>4. QED
        BY <1>2, <2>2, <2>3 DEF input
<1>6. QED
    BY <1>3, <1>4, <1>5, ReplyKinds
-----------------------------------------------------------------------------
(* Requests typed at a terminal. *)

\* Numbers in increasing order.
Ascending(f, n) == \A i, j \in 1..n : i < j => f[i] < f[j]

\* An ascending choice of all of 1..n leaves nothing out.
LEMMA AscendingIsAll ==
    ASSUME NEW n \in Nat, NEW g \in [1..n -> 1..n], Ascending(g, n)
    PROVE  \A i \in 1..n : g[i] = i
<1> DEFINE Up == {k \in Nat : k + 1 \in 1..n => g[k + 1] >= k + 1}
           Down == {k \in Nat : n - k \in 1..n => g[n - k] =< n - k}
<1>1. 0 \in Up
    OBVIOUS
<1>2. ASSUME NEW k \in Nat, k \in Up PROVE k + 1 \in Up
    <2> SUFFICES ASSUME (k + 1) + 1 \in 1..n PROVE g[(k + 1) + 1] >= (k + 1) + 1
        OBVIOUS
    <2>1. k + 1 \in 1..n /\ k + 1 < (k + 1) + 1
        OBVIOUS
    <2>2. g[k + 1] < g[(k + 1) + 1] /\ g[k + 1] >= k + 1
        BY <1>2, <2>1 DEF Ascending
    <2>3. g[k + 1] \in Int /\ g[(k + 1) + 1] \in Int
        BY <2>1
    <2>4. QED
        BY <2>2, <2>3
<1>3. 0 \in Down
    OBVIOUS
<1>4. ASSUME NEW k \in Nat, k \in Down PROVE k + 1 \in Down
    <2> SUFFICES ASSUME n - (k + 1) \in 1..n PROVE g[n - (k + 1)] =< n - (k + 1)
        OBVIOUS
    <2>1. n - k \in 1..n /\ n - (k + 1) < n - k
        OBVIOUS
    <2>2. g[n - (k + 1)] < g[n - k] /\ g[n - k] =< n - k
        BY <1>4, <2>1 DEF Ascending
    <2>3. g[n - k] \in Int /\ g[n - (k + 1)] \in Int
        BY <2>1
    <2>4. QED
        BY <2>2, <2>3
<1>5. (\A k \in Nat : k \in Up) /\ \A k \in Nat : k \in Down
    <2> HIDE DEF Up, Down
    <2>1. \A k \in Nat : k \in Up
        BY <1>1, <1>2, SetInduction
    <2>2. \A k \in Nat : k \in Down
        BY <1>3, <1>4, SetInduction
    <2>3. QED
        BY <2>1, <2>2
<1>6. ASSUME NEW i \in 1..n PROVE g[i] = i
    <2>1. i - 1 \in Nat /\ (i - 1) + 1 = i /\ n - i \in Nat /\ n - (n - i) = i /\ g[i] \in Int
        OBVIOUS
    <2>2. i - 1 \in Up /\ n - i \in Down
        BY <1>5, <2>1
    <2>3. g[i] >= i /\ g[i] =< i
        BY <2>1, <2>2
    <2>4. QED
        BY <2>1, <2>3
<1>7. QED
    BY <1>6

\* The listing of ascending numbers is the one that lists them.
LEMMA AscendingListing ==
    ASSUME NEW n \in Nat, NEW f \in [1..n -> Nat], Ascending(f, n),
           NEW S, S = {f[i] : i \in 1..n}
    PROVE  Increasing(S) = {f}
<1>1. f \in [1..n -> S]
    OBVIOUS
<1>2. Cardinality(S) = n
    <2>1. \A i, j \in 1..n : f[i] = f[j] => i = j
        BY DEF Ascending
    <2>2. f \in Bijection(1..n, S)
        <3>1. f \in Injection(1..n, S)
            BY <1>1, <2>1 DEF Injection, IsInjective
        <3>2. f \in Surjection(1..n, S)
            BY <1>1 DEF Surjection
        <3>3. QED
            BY <3>1, <3>2 DEF Bijection
    <2>3. ExistsBijection(1..n, S)
        BY <2>2 DEF ExistsBijection
    <2>4. IsFiniteSet(1..n) /\ Cardinality(1..n) = n
        <3>1. 1 \in Int /\ n \in Int
            OBVIOUS
        <3>2. IsFiniteSet(1..n) /\ Cardinality(1..n) = IF 1 > n THEN 0 ELSE n - 1 + 1
            BY <3>1, FS_Interval, Zenon
        <3>3. QED
            BY <3>2
    <2>5. QED
        BY <2>3, <2>4, FS_Bijection
<1>3. f \in Increasing(S)
    BY <1>1, <1>2 DEF Increasing, Ascending
<1>4. ASSUME NEW e \in Increasing(S) PROVE e = f
    <2>1. e \in [1..n -> S] /\ \A i, j \in 1..n : i < j => e[i] < e[j]
        BY <1>2 DEF Increasing
    <2> DEFINE g == [i \in 1..n |-> CHOOSE k \in 1..n : f[k] = e[i]]
    <2>2. ASSUME NEW i \in 1..n PROVE g[i] \in 1..n /\ f[g[i]] = e[i]
        <3>1. \E k \in 1..n : f[k] = e[i]
            BY <2>1
        <3>2. QED
            BY <3>1
    <2>3. g \in [1..n -> 1..n]
        <3>1. g = [i \in 1..n |-> g[i]]
            OBVIOUS
        <3> HIDE DEF g
        <3>2. QED
            BY <2>2, <3>1
    <2> HIDE DEF g
    <2>4. Ascending(g, n)
        <3> SUFFICES ASSUME NEW i \in 1..n, NEW j \in 1..n, i < j PROVE g[i] < g[j]
            BY DEF Ascending
        <3>1. f[g[i]] < f[g[j]] /\ g[i] \in 1..n /\ g[j] \in 1..n
            BY <2>1, <2>2
        <3>2. g[j] < g[i] => f[g[j]] < f[g[i]]
            BY <3>1 DEF Ascending
        <3>3. f[g[i]] \in Nat /\ f[g[j]] \in Nat
            BY <3>1
        <3>4. g[i] # g[j] /\ ~(g[j] < g[i])
            BY <3>1, <3>2, <3>3
        <3>5. QED
            BY <3>1, <3>4
    <2>5. \A i \in 1..n : g[i] = i
        BY <2>3, <2>4, AscendingIsAll
    <2>6. \A i \in 1..n : e[i] = f[i]
        BY <2>2, <2>5
    <2>7. QED
        BY <1>1, <2>1, <2>6
<1>5. QED
    BY <1>3, <1>4

\* What input >> token takes for the gaps between words.
Blank(atom) == atom \in {Space, Eol}

\* Where the words are in what was typed: a word is from first to last, blanks
\* before and behind it, and there are no others.
WordsAt(input, c, first, last) ==
    /\ Ascending(first, Len(c))
    /\ \A i \in 1..Len(c) :
          /\ first[i] \in 1..Len(input) /\ last[i] \in 1..Len(input)
          /\ last[i] + 1 \in 1..Len(input) /\ first[i] =< last[i]
          /\ last[i] = first[i] - 1 + Len(c[i])
          /\ \A p \in 1..Len(c[i]) : input[first[i] - 1 + p] = c[i][p]
          /\ \A q \in first[i]..last[i] : ~Blank(input[q])
          /\ first[i] > 1 => Blank(input[first[i] - 1])
          /\ Blank(input[last[i] + 1])
    /\ \A q \in 1..Len(input) :
          ~Blank(input[q]) => \E i \in 1..Len(c) : q \in first[i]..last[i]

\* Segments cover what they are segments of.
LEMMA SegmentsCover ==
    ASSUME NEW n \in Nat, NEW at \in [0..n -> Nat], at[0] = 0,
           \A i \in 1..n : at[i-1] =< at[i]
    PROVE  /\ \A q \in 1..at[n] : \E i \in 1..n : q > at[i-1] /\ q =< at[i]
           /\ \A i, j \in 0..n : i =< j => at[i] =< at[j]
<1> DEFINE Held(q, j) == \E i \in 1..j : q > at[i-1] /\ q =< at[i]
           Good == {j \in Nat : j =< n =>
                      /\ \A q \in 1..at[j] : Held(q, j)
                      /\ \A i \in 0..j : at[i] =< at[j]}
<1>1. 0 \in Good
    BY 1..0 = {}
<1>2. ASSUME NEW j \in Nat, j \in Good PROVE j + 1 \in Good
    <2> SUFFICES ASSUME j + 1 =< n
                 PROVE  /\ \A q \in 1..at[j + 1] : Held(q, j + 1)
                        /\ \A i \in 0..(j + 1) : at[i] =< at[j + 1]
        OBVIOUS
    <2>1. /\ j + 1 \in 1..n /\ (j + 1) - 1 = j /\ j \in 0..n /\ j + 1 \in 0..n
          /\ at[j] \in Nat /\ at[j + 1] \in Nat /\ at[j] =< at[j + 1] /\ j + 1 \in 1..(j + 1)
        <3>1. j + 1 \in 1..n /\ (j + 1) - 1 = j /\ j \in 0..n /\ j + 1 \in 0..n
              /\ j + 1 \in 1..(j + 1)
            OBVIOUS
        <3>2. at[(j + 1) - 1] =< at[j + 1]
            BY <3>1
        <3>3. QED
            BY <3>1, <3>2
    <2>2. /\ \A q \in 1..at[j] : Held(q, j)
          /\ \A i \in 0..j : at[i] =< at[j]
        BY <1>2
    <2>3. ASSUME NEW q \in 1..at[j + 1] PROVE Held(q, j + 1)
        <3>1. CASE q =< at[j]
            <4>1. q \in 1..at[j]
                BY <2>1, <3>1
            <4>2. PICK i \in 1..j : q > at[i-1] /\ q =< at[i]
                BY <2>2, <4>1
            <4>3. i \in 1..(j + 1)
                OBVIOUS
            <4>4. QED
                BY <4>2, <4>3
        <3>2. CASE ~(q =< at[j])
            <4>1. q > at[(j + 1) - 1] /\ q =< at[j + 1]
                BY <2>1, <3>2
            <4>2. QED
                BY <2>1, <4>1
        <3>3. QED
            BY <3>1, <3>2
    <2>4. ASSUME NEW i \in 0..(j + 1) PROVE at[i] =< at[j + 1]
        <3>1. i \in 0..j \/ i = j + 1
            OBVIOUS
        <3>2. i \in 0..n
            OBVIOUS
        <3>3. at[i] \in Nat
            BY <3>2
        <3>4. QED
            BY <2>1, <2>2, <3>1, <3>3
    <2>5. QED
        BY <2>3, <2>4
<1>3. \A j \in Nat : j \in Good
    <2> HIDE DEF Good
    <2>1. QED
        BY <1>1, <1>2, SetInduction
<1>4. \A q \in 1..at[n] : Held(q, n)
    BY <1>3
<1>5. ASSUME NEW i \in 0..n, NEW j \in 0..n, i =< j PROVE at[i] =< at[j]
    <2>1. j \in Nat /\ j =< n /\ i \in 0..j
        BY <1>5
    <2>2. QED
        BY <1>3, <2>1
<1>6. QED
    BY <1>4, <1>5

\* The words of what was typed are found between the blanks.
LEMMA WordsFound ==
    ASSUME NEW c \in Seq(Words), NEW input \in Seq(Atoms),
           NEW first \in [1..Len(c) -> Nat], NEW last \in [1..Len(c) -> Nat],
           WordsAt(input, c, first, last)
    PROVE  WordsOf(input) = c
<1> DEFINE n == Len(c)
           m == Len(input)
           blank(i) == input[i] \in {Space, Eol}
           starts == {i \in DOMAIN input : ~blank(i) /\ (i > 1 => blank(i - 1))}
           end(i) == Max({j \in i..Len(input) : \A k \in i..j : ~blank(k)})
           listed(e) == [w \in DOMAIN e |-> SubSeq(input, e[w], end(e[w]))]
<1>1. n \in Nat /\ m \in Nat /\ DOMAIN input = 1..m
    OBVIOUS
<1>2. ASSUME NEW i \in 1..n
      PROVE  /\ first[i] \in 1..m /\ last[i] \in 1..m /\ last[i] + 1 \in 1..m
             /\ first[i] =< last[i] /\ last[i] = first[i] - 1 + Len(c[i])
             /\ \A p \in 1..Len(c[i]) : input[first[i] - 1 + p] = c[i][p]
             /\ \A q \in first[i]..last[i] : ~blank(q)
             /\ first[i] > 1 => blank(first[i] - 1)
             /\ blank(last[i] + 1)
    BY DEF WordsAt, Blank
<1>3. \A q \in 1..m : ~blank(q) => \E i \in 1..n : q \in first[i]..last[i]
    BY DEF WordsAt, Blank
<1>4. starts = {first[i] : i \in 1..n}
    <2>1. ASSUME NEW i \in 1..n PROVE first[i] \in starts
        <3>1. first[i] \in first[i]..last[i]
            BY <1>2
        <3> HIDE DEF blank
        <3>2. QED
            BY <1>1, <1>2, <3>1
    <2>2. ASSUME NEW q \in starts PROVE \E i \in 1..n : q = first[i]
        <3>1. q \in 1..m /\ ~blank(q) /\ (q > 1 => blank(q - 1))
            BY <1>1
        <3>2. PICK i \in 1..n : q \in first[i]..last[i]
            BY <1>3, <3>1
        <3>3. first[i] \in 1..m /\ last[i] \in 1..m
            BY <1>2
        <3>4. ~(q > first[i])
            <4> SUFFICES ASSUME q > first[i] PROVE FALSE
                OBVIOUS
            <4>1. q - 1 \in first[i]..last[i] /\ q > 1
                BY <3>1, <3>2, <3>3
            <4>2. ~blank(q - 1)
                BY <1>2, <4>1
            <4>3. QED
                BY <3>1, <4>1, <4>2
        <3>5. QED
            BY <3>2, <3>3, <3>4
    <2> HIDE DEF starts
    <2>3. QED
        BY <2>1, <2>2
<1>5. Increasing(starts) = {first}
    <2>1. Ascending(first, n)
        BY DEF WordsAt
    <2> HIDE DEF n, starts
    <2>2. first \in [1..n -> Nat]
        BY DEF n
    <2>3. QED
        BY <1>1, <1>4, <2>1, <2>2, AscendingListing
<1>6. ASSUME NEW i \in 1..n PROVE end(first[i]) = last[i]
    <2> DEFINE ends == {j \in first[i]..Len(input) : \A k \in first[i]..j : ~blank(k)}
    <2>1. last[i] \in ends
        BY <1>2
    <2>2. ASSUME NEW j \in ends PROVE last[i] >= j
        <3> SUFFICES ASSUME ~(last[i] >= j) PROVE FALSE
            OBVIOUS
        <3>1. first[i] \in Int /\ last[i] \in Int /\ j \in Int /\ first[i] =< last[i]
            BY <1>2
        <3>2. last[i] + 1 \in first[i]..j
            BY <3>1
        <3>3. ~blank(last[i] + 1)
            BY <3>2
        <3>4. QED
            BY <1>2, <3>3
    <2>3. ends \subseteq Int
        OBVIOUS
    <2> HIDE DEF ends
    <2>4. \A x \in ends : (\A y \in ends : x >= y) <=> x = last[i]
        BY <2>1, <2>2, <2>3
    <2>5. (CHOOSE x \in ends : \A y \in ends : x >= y) = last[i]
        BY <2>1, <2>4
    <2>6. Max(ends) = last[i]
        BY <2>5 DEF Max
    <2>7. QED
        BY <2>6 DEF ends
<1>7. ASSUME NEW i \in 1..n PROVE SubSeq(input, first[i], last[i]) = c[i]
    <2> DEFINE x == SubSeq(input, first[i], last[i])
               f == first[i]
               l == Len(c[i])
    <2>1. /\ f \in 1..m /\ last[i] \in 1..m /\ last[i] = f - 1 + l /\ c[i] \in Seq(Atoms)
          /\ l \in Nat /\ f =< last[i]
          /\ \A p \in 1..l : input[f - 1 + p] = c[i][p]
        <3>1. c[i] \in Words
            OBVIOUS
        <3>2. c[i] \in Seq(Atoms) /\ l \in Nat
            BY <3>1, WordType
        <3>3. QED
            BY <1>2, <3>2
    <2>2. x \in Seq(Atoms) /\ Len(x) = l /\ \A p \in 1..l : x[p] = input[f - 1 + p]
        BY <1>1, <2>1
    <2> HIDE DEF x
    <2>3. Len(x) = Len(c[i]) /\ \A p \in 1..Len(x) : x[p] = c[i][p]
        BY <2>1, <2>2
    <2>4. x = c[i]
        BY <2>1, <2>2, <2>3, SeqEqual
    <2>5. QED
        BY <2>4 DEF x
<1>8. listed(first) = c
    <2>1. DOMAIN first = 1..n /\ c = [w \in 1..n |-> c[w]]
        OBVIOUS
    <2>2. \A w \in 1..n : SubSeq(input, first[w], end(first[w])) = c[w]
        <3> HIDE DEF end
        <3>1. QED
            BY <1>6, <1>7
    <2> HIDE DEF end, n
    <2>3. QED
        BY <2>1, <2>2
<1>9. WordsOf(input) = CHOOSE words \in {listed(e) : e \in Increasing(starts)} : TRUE
    BY Zenon DEF WordsOf
<1> HIDE DEF listed, starts
<1>10. {listed(e) : e \in Increasing(starts)} = {c}
    BY <1>5, <1>8
<1>11. QED
    BY <1>9, <1>10

\* What was typed: words with a blank between two of them.
LEMMA TypedLayout ==
    ASSUME NEW c \in Seq(Words) \ {<<>>}, CanBeTyped(c)
    PROVE  LET input == Typed(c) \o <<Eol>>
           IN  /\ input \in Seq(Atoms) /\ Len(input) > 0 /\ input[1] # Star
               /\ \E first, last \in [1..Len(c) -> Nat] : WordsAt(input, c, first, last)
<1> DEFINE n == Len(c)
           segs == [i \in 1..n |-> IF i = 1 THEN c[i] ELSE <<Space>> \o c[i]]
           flat == FlattenSeq(segs)
           gap(i) == IF i = 1 THEN 0 ELSE 1
           input == flat \o <<Eol>>
<1>1. n \in Nat /\ n >= 1 /\ DOMAIN c = 1..n
    OBVIOUS
<1>2. ASSUME NEW i \in 1..n
      PROVE  /\ c[i] \in Seq(Atoms) /\ Len(c[i]) \in Nat /\ Len(c[i]) >= 1
             /\ \A p \in 1..Len(c[i]) : ~Blank(c[i][p])
    <2>1. c[i] \in Words /\ c[i] # <<>> /\ Range(c[i]) \cap {Space, Eol} = {}
        BY <1>1 DEF CanBeTyped
    <2>2. c[i] \in Seq(Atoms) /\ Len(c[i]) \in Nat
        BY <2>1, WordType
    <2>3. Len(c[i]) >= 1
        BY <2>1, <2>2
    <2>4. \A p \in 1..Len(c[i]) : c[i][p] \in Range(c[i])
        BY <2>2 DEF Range
    <2>5. QED
        BY <2>1, <2>2, <2>3, <2>4 DEF Blank
<1>3. Typed(c) = flat
    BY <1>1 DEF Typed
<1>4. ASSUME NEW i \in 1..n
      PROVE  /\ segs[i] \in Seq(Atoms) /\ Len(segs[i]) = gap(i) + Len(c[i])
             /\ \A p \in 1..Len(c[i]) : segs[i][gap(i) + p] = c[i][p]
             /\ i # 1 => segs[i][1] = Space
    <2>1. Space \in Atoms
        BY MarksDiffer
    <2>2. CASE i = 1
        <3>1. segs[i] = c[i] /\ gap(i) = 0
            BY <2>2
        <3> HIDE DEF segs, gap
        <3>2. QED
            BY <1>2, <2>2, <3>1
    <2>3. CASE i # 1
        <3> DEFINE s == <<Space>>
                   t == c[i]
        <3>1. segs[i] = s \o t /\ gap(i) = 1
            BY <2>3
        <3>2. s \in Seq(Atoms) /\ t \in Seq(Atoms) /\ Len(s) = 1 /\ s[1] = Space
            BY <1>2, <2>1
        <3> HIDE DEF segs, gap, s, t
        <3>3. s \in Seq(Atoms) /\ t \in Seq(Atoms) /\ 1 \in 1..Len(s)
            BY <3>2
        <3>4. s \o t \in Seq(Atoms) /\ Len(s \o t) = Len(s) + Len(t)
            BY <3>3
        <3>5. (s \o t)[1] = s[1]
            BY <3>3
        <3>6. \A p \in 1..Len(t) : (s \o t)[Len(s) + p] = t[p]
            BY <3>3
        <3>7. QED
            BY <3>1, <3>2, <3>4, <3>5, <3>6 DEF t
    <2>4. QED
        BY <2>2, <2>3
<1>5. segs \in [1..n -> Seq(Atoms)]
    <2>1. segs = [i \in 1..n |-> segs[i]]
        OBVIOUS
    <2> HIDE DEF segs
    <2>2. QED
        BY <1>4, <2>1
<1> HIDE DEF n, segs
<1>6. PICK off \in [0..n -> Nat] : Segmented(flat, off, segs, n)
    BY <1>1, <1>5, Segments
<1>7. flat \in Seq(Atoms) /\ Len(flat) = off[n]
    BY <1>1, <1>5, <1>6, Segments DEF Segmented
<1> HIDE DEF flat
<1>8. /\ input \in Seq(Atoms) /\ Len(input) = off[n] + 1 /\ input[off[n] + 1] = Eol
      /\ \A q \in 1..off[n] : input[q] = flat[q]
    <2>1. Eol \in Atoms
        BY MarksDiffer
    <2>2. QED
        BY <1>7, <2>1
<1> HIDE DEF input
<1>9. ASSUME NEW i \in 1..n
      PROVE  /\ i \in 0..n /\ i - 1 \in 0..n /\ off[i] \in Nat /\ off[i-1] \in Nat
             /\ off[n] \in Nat /\ gap(i) \in 0..1
             /\ off[i] = off[i-1] + (gap(i) + Len(c[i])) /\ off[i] =< off[n]
             /\ \A p \in 1..(gap(i) + Len(c[i])) : input[off[i-1] + p] = segs[i][p]
    <2>1. i \in 0..n /\ i - 1 \in 0..n /\ n \in 0..n /\ gap(i) \in 0..1
        BY <1>1
    <2>2. off[i] \in Nat /\ off[i-1] \in Nat /\ off[n] \in Nat
        BY <1>6, <2>1
    <2> HIDE DEF gap
    <2> DEFINE l == gap(i) + Len(c[i])
    <2>3. Len(segs[i]) = l /\ l \in Nat
        <3>1. Len(segs[i]) = l
            BY <1>4
        <3>2. gap(i) \in Nat /\ Len(c[i]) \in Nat
            BY <1>2, <2>1
        <3>3. QED
            BY <3>1, <3>2
    <2>4. /\ off[i] = off[i-1] + l /\ off[i] =< off[n]
          /\ \A p \in 1..l : flat[off[i-1] + p] = segs[i][p]
        BY <1>6, <2>3 DEF Segmented
    <2> HIDE DEF l
    <2>5. \A p \in 1..l : off[i-1] + p \in 1..off[n]
        BY <2>2, <2>3, <2>4
    <2>6. \A p \in 1..l : input[off[i-1] + p] = segs[i][p]
        BY <1>8, <2>4, <2>5
    <2>7. QED
        BY <2>1, <2>2, <2>4, <2>6 DEF l
<1> DEFINE first == [i \in 1..n |-> off[i-1] + gap(i) + 1]
           last == [i \in 1..n |-> off[i]]
<1> HIDE DEF gap
<1>10. ASSUME NEW i \in 1..n
       PROVE  /\ first[i] = off[i-1] + gap(i) + 1 /\ last[i] = off[i]
              /\ off[i-1] \in Nat /\ gap(i) \in Nat /\ off[i] \in Nat
              /\ first[i] \in Nat /\ last[i] \in Nat
    <2>1. first[i] = off[i-1] + gap(i) + 1 /\ last[i] = off[i]
        OBVIOUS
    <2> HIDE DEF first, last
    <2>2. off[i-1] \in Nat /\ gap(i) \in 0..1 /\ off[i] \in Nat
        BY <1>9, Zenon
    <2>3. QED
        BY <2>1, <2>2
<1>11. first \in [1..n -> Nat] /\ last \in [1..n -> Nat]
    BY <1>9
<1> HIDE DEF first, last
<1>12. ASSUME NEW i \in 1..n
       PROVE  /\ first[i] \in 1..Len(input) /\ last[i] \in 1..Len(input)
              /\ last[i] + 1 \in 1..Len(input) /\ first[i] =< last[i]
              /\ last[i] = first[i] - 1 + Len(c[i])
              /\ \A p \in 1..Len(c[i]) : /\ first[i] - 1 + p = off[i-1] + (gap(i) + p)
                                         /\ gap(i) + p \in 1..(gap(i) + Len(c[i]))
              /\ \A q \in first[i]..last[i] : /\ q - (first[i] - 1) \in 1..Len(c[i])
                                              /\ first[i] - 1 + (q - (first[i] - 1)) = q
              /\ gap(i) = 1 => first[i] - 1 = off[i-1] + 1
    <2>1. /\ off[i-1] \in Nat /\ gap(i) \in 0..1 /\ Len(c[i]) \in Nat \ {0} /\ off[n] \in Nat
          /\ first[i] = off[i-1] + gap(i) + 1 /\ last[i] = off[i-1] + (gap(i) + Len(c[i]))
          /\ last[i] =< off[n] /\ Len(input) = off[n] + 1
        <3>1. /\ off[i-1] \in Nat /\ gap(i) \in 0..1 /\ off[n] \in Nat
              /\ off[i] = off[i-1] + (gap(i) + Len(c[i])) /\ off[i] =< off[n]
            BY <1>9, Zenon
        <3>2. Len(c[i]) \in Nat \ {0}
            BY <1>2
        <3>3. first[i] = off[i-1] + gap(i) + 1 /\ last[i] = off[i]
            BY <1>10, Zenon
        <3>4. QED
            BY <1>8, <3>1, <3>2, <3>3, Zenon
    <2> DEFINE o == off[i-1]
               g == gap(i)
               l == Len(c[i])
               m == off[n]
               f == first[i]
               e == last[i]
               size == Len(input)
    <2>2. /\ o \in Nat /\ g \in 0..1 /\ l \in Nat \ {0} /\ m \in Nat
          /\ f = o + g + 1 /\ e = o + (g + l) /\ e =< m /\ size = m + 1
        BY <2>1
    <2> HIDE DEF o, g, l, m, f, e, size
    <2>3. /\ f \in 1..size /\ e \in 1..size /\ e + 1 \in 1..size /\ f =< e
          /\ e = f - 1 + l
          /\ \A p \in 1..l : f - 1 + p = o + (g + p) /\ g + p \in 1..(g + l)
          /\ \A q \in f..e : q - (f - 1) \in 1..l /\ f - 1 + (q - (f - 1)) = q
          /\ g = 1 => f - 1 = o + 1
        BY <2>2
    <2>4. QED
        BY <2>3 DEF o, g, l, m, f, e, size
<1>13. ASSUME NEW i \in 1..n, NEW p \in 1..Len(c[i])
       PROVE  input[first[i] - 1 + p] = c[i][p]
    <2>1. first[i] - 1 + p = off[i-1] + (gap(i) + p) /\ gap(i) + p \in 1..(gap(i) + Len(c[i]))
        BY <1>12
    <2>2. input[off[i-1] + (gap(i) + p)] = segs[i][gap(i) + p]
        BY <1>9, <2>1
    <2>3. QED
        BY <1>4, <2>1, <2>2
<1>14. ASSUME NEW i \in 1..n, NEW q \in first[i]..last[i] PROVE ~Blank(input[q])
    <2>1. /\ q - (first[i] - 1) \in 1..Len(c[i])
          /\ first[i] - 1 + (q - (first[i] - 1)) = q
        BY <1>12
    <2>2. input[q] = c[i][q - (first[i] - 1)]
        BY <1>13, <2>1
    <2>3. QED
        BY <1>2, <2>1, <2>2
<1>15. ASSUME NEW i \in 1..n, i # 1 PROVE Blank(input[off[i-1] + 1])
    <2>1. gap(i) = 1 /\ 1 \in 1..(gap(i) + Len(c[i]))
        BY <1>2, <1>15 DEF gap
    <2>2. input[off[i-1] + 1] = segs[i][1] /\ segs[i][1] = Space
        BY <1>4, <1>9, <1>15, <2>1
    <2>3. QED
        BY <2>2 DEF Blank
<1>16. ASSUME NEW i \in 1..n, first[i] > 1 PROVE Blank(input[first[i] - 1])
    <2>1. CASE i = 1
        <3>1. gap(i) = 0 /\ off[i-1] = 0
            BY <1>6, <2>1 DEF gap, Segmented
        <3>2. first[i] = 1
            BY <1>10, <3>1
        <3>3. QED
            BY <1>16, <3>2
    <2>2. CASE i # 1
        <3>1. gap(i) = 1
            BY <2>2 DEF gap
        <3>2. first[i] - 1 = off[i-1] + 1
            BY <1>12, <3>1
        <3>3. QED
            BY <1>15, <2>2, <3>2
    <2>3. QED
        BY <2>1, <2>2
<1>17. ASSUME NEW i \in 1..n PROVE Blank(input[last[i] + 1])
    <2>1. CASE i = n
        BY <1>8, <1>10, <2>1 DEF Blank
    <2>2. CASE i # n
        <3>1. i + 1 \in 1..n /\ (i + 1) - 1 = i /\ i + 1 # 1
            BY <1>1, <2>2
        <3>2. Blank(input[off[(i + 1) - 1] + 1])
            BY <1>15, <3>1
        <3>3. QED
            BY <1>10, <3>1, <3>2
    <2>3. QED
        BY <2>1, <2>2
<1>18. \A i \in 1..n : off[i-1] =< off[i]
    <2>1. ASSUME NEW i \in 1..n PROVE off[i-1] =< off[i]
        <3> DEFINE o == off[i-1]
                   g == gap(i)
                   l == Len(c[i])
                   e == off[i]
        <3>1. o \in Nat /\ g \in 0..1 /\ e = o + (g + l)
            BY <1>9, Zenon
        <3>2. l \in Nat
            BY <1>2
        <3> HIDE DEF o, g, l, e
        <3>3. o =< e
            BY <3>1, <3>2
        <3>4. QED
            BY <3>3 DEF o, e
    <2>2. QED
        BY <2>1
<1>19. /\ \A q \in 1..off[n] : \E i \in 1..n : q > off[i-1] /\ q =< off[i]
       /\ \A i, j \in 0..n : i =< j => off[i] =< off[j]
    <2>1. off[0] = 0
        BY <1>6 DEF Segmented
    <2>2. QED
        BY <1>1, <1>6, <1>18, <2>1, SegmentsCover
<1>20. ASSUME NEW q \in 1..Len(input), ~Blank(input[q])
       PROVE  \E i \in 1..n : q \in first[i]..last[i]
    <2>1. q # off[n] + 1
        BY <1>8, <1>20 DEF Blank
    <2>2. n \in 1..n
        BY <1>1
    <2>3. q \in 1..off[n]
        BY <1>8, <1>9, <2>1, <2>2
    <2>4. PICK i \in 1..n : q > off[i-1] /\ q =< off[i]
        BY <1>19, <2>3
    <2>5. q >= first[i]
        <3>1. CASE i = 1
            <4>1. gap(i) = 0
                BY <3>1 DEF gap
            <4>2. QED
                BY <1>9, <1>10, <2>4, <4>1
        <3>2. CASE i # 1
            <4>1. gap(i) = 1
                BY <3>2 DEF gap
            <4>2. q # off[i-1] + 1
                BY <1>15, <1>20, <3>2
            <4>3. QED
                BY <1>9, <1>10, <2>4, <4>1, <4>2
        <3>3. QED
            BY <3>1, <3>2
    <2>6. q \in first[i]..last[i]
        BY <1>10, <2>4, <2>5
    <2>7. QED
        BY <2>6
<1>21. Ascending(first, n)
    <2> SUFFICES ASSUME NEW i \in 1..n, NEW j \in 1..n, i < j PROVE first[i] < first[j]
        BY DEF Ascending
    <2>1. i \in 0..n /\ j - 1 \in 0..n /\ i =< j - 1
        BY <1>1
    <2>2. off[i] =< off[j-1]
        BY <1>19, <2>1
    <2>3. first[i] =< last[i]
        BY <1>12
    <2>4. /\ off[i] \in Nat /\ off[j-1] \in Nat /\ gap(j) \in Nat /\ first[i] \in Nat
          /\ last[i] = off[i] /\ first[j] = off[j-1] + gap(j) + 1
        BY <1>10, Zenon
    <2>5. QED
        BY <2>2, <2>3, <2>4
<1>22. WordsAt(input, c, first, last)
    BY <1>12, <1>13, <1>14, <1>16, <1>17, <1>20, <1>21 DEF WordsAt, n
<1>23. input[1] # Star
    <2>1. 1 \in 1..n /\ 1 \in 1..Len(c[1])
        BY <1>1, <1>2
    <2>2. gap(1) = 0 /\ off[0] = 0 /\ 1 - 1 = 0
        BY <1>6 DEF gap, Segmented
    <2>3. first[1] - 1 + 1 = 1
        BY <1>10, <2>1, <2>2
    <2>4. input[1] = c[1][1]
        BY <1>13, <2>1, <2>3
    <2>5. QED
        BY <2>4 DEF CanBeTyped
<1>24. Len(input) > 0
    <2>1. n \in 1..n
        BY <1>1
    <2>2. QED
        BY <1>8, <1>9, <2>1
<1>25. QED
    BY <1>3, <1>8, <1>11, <1>22, <1>23, <1>24 DEF input, n

\* The server reads the words as they were typed.
LEMMA TypedReads ==
    ASSUME NEW c \in Seq(Words) \ {<<>>}, CanBeTyped(c)
    PROVE  LET request == parseRespCommand(Typed(c) \o <<Eol>>)
           IN  request.state # "thrown" /\ request.tokens = c
<1> DEFINE input == Typed(c) \o <<Eol>>
<1>1. /\ input \in Seq(Atoms) /\ input[1] # Star
      /\ \E first, last \in [1..Len(c) -> Nat] : WordsAt(input, c, first, last)
    BY TypedLayout
<1> HIDE DEF input
<1>2. WordsOf(input) = c
    BY <1>1, WordsFound
<1>3. parseRespCommand(input) = Parsed(WordsOf(input), "stopped", 1)
    BY <1>1, Zenon DEF parseRespCommand
<1>4. QED
    BY <1>2, <1>3 DEF Parsed, input
-----------------------------------------------------------------------------
(* Requests and replies in turn. *)

\* What is on the wire when command c was asked for.
AsksFor(c, data) ==
    \/ data = parseSendCommand(c) \o <<Eol>>
    \/ CanBeTyped(c) /\ data = Typed(c) \o <<Eol>>

\* One recv is enough for every request, and for what send passes on of a reply.
ShortMessages ==
    \A c \in Commands :
        /\ Len(parseSendCommand(c) \o <<Eol>>) =< RecvSize
        /\ CanBeTyped(c) => Len(Typed(c) \o <<Eol>>) =< RecvSize
        /\ \A r \in RepliesTo(c) : Len(FirstOf(Encode(r), SendRoom)) =< RecvSize

\* A request is read as it was asked.
LEMMA RequestRead ==
    ASSUME ShortMessages, NEW c \in Commands, NEW data, AsksFor(c, data)
    PROVE  /\ data \in Seq(Atoms) /\ Len(data) > 0
           /\ FirstOf(data, RecvSize) = data /\ RestOf(data, RecvSize) = <<>>
           /\ parseRespCommand(data).state # "thrown" /\ parseRespCommand(data).tokens = c
<1>1. c \in Seq(Words) \ {<<>>} /\ RecvSize \in Nat
    BY WireAssumption
<1>2. Len(data) =< RecvSize
    BY DEF ShortMessages, AsksFor
<1>3. /\ data \in Seq(Atoms) /\ Len(data) > 0
      /\ parseRespCommand(data).state # "thrown" /\ parseRespCommand(data).tokens = c
    <2>1. CASE data = parseSendCommand(c) \o <<Eol>>
        <3> DEFINE A == parseSendCommand(c)
        <3>1. A \in Seq(Atoms) /\ Eol \in Atoms
            <4>1. Len(c) \in Int /\ c \in Seq(Words)
                BY <1>1
            <4>2. QED
                BY <4>1, ArrayLayout, MarksDiffer DEF parseSendCommand
        <3>2. "reading" # "thrown"
            OBVIOUS
        <3>3. parseRespCommand(data).state = "reading" /\ parseRespCommand(data).tokens = c
            BY <1>1, <2>1, ParserReads
        <3> HIDE DEF A
        <3>4. A \o <<Eol>> \in Seq(Atoms) /\ Len(A \o <<Eol>>) > 0
            BY <3>1
        <3>5. QED
            BY <2>1, <3>2, <3>3, <3>4 DEF A
    <2>2. CASE CanBeTyped(c) /\ data = Typed(c) \o <<Eol>>
        BY <1>1, <2>2, TypedLayout, TypedReads
    <2>3. QED
        BY <2>1, <2>2 DEF AsksFor
<1>4. QED
    BY <1>1, <1>2, <1>3, TakenWhole

\* Every branch of processCommand answers with a reply of a known kind.
LEMMA RepliesKnown ==
    ASSUME NEW c \in Commands, NEW r \in RepliesTo(c)
    PROVE  r \in AnyReply
<1>1. c \in Seq(Words) /\ c # <<>> /\ c[1] \in Words
    BY WireAssumption
<1>2. CASE c[1] \in DOMAIN Replies
    BY <1>1, <1>2, WireAssumption DEF RepliesTo
<1>3. CASE c[1] \notin DOMAIN Replies /\ c[1] = Echo /\ Len(c) > 1
    <2>1. c[2] \in Words
        BY <1>1, <1>3
    <2>2. r = [type |-> "status", text |-> c[2]]
        BY <1>1, <1>3 DEF RepliesTo
    <2>3. QED
        BY <2>1, <2>2 DEF AnyReply
<1>4. CASE c[1] \notin DOMAIN Replies /\ ~(c[1] = Echo /\ Len(c) > 1)
    <2>1. r = [type |-> "error", text |-> c[1]]
        BY <1>1, <1>4 DEF RepliesTo, AnError
    <2>2. QED
        BY <1>1, <2>1 DEF AnyReply
<1>5. QED
    BY <1>2, <1>3, <1>4

\* Nothing is on the wire.
Idle ==
    /\ client = "idle" /\ server = "up" /\ toServer = <<>> /\ toClient = <<>>
    /\ executed = sent /\ Len(answers) = Len(sent) /\ Len(results) = Len(sent)

\* The last request is on the wire.
Asked ==
    /\ client = "waiting" /\ server = "up" /\ toClient = <<>>
    /\ Len(answers) = Len(executed) /\ Len(results) = Len(executed)
    /\ \E c \in Commands : sent = Append(executed, c) /\ AsksFor(c, toServer)

\* The reply to it, or what send took of it, is on the wire.
Answered ==
    /\ client = "waiting" /\ server = "up" /\ toServer = <<>>
    /\ executed = sent /\ Len(answers) = Len(sent) /\ Len(sent) = Len(results) + 1
    /\ \E c \in Commands : Latest(answers) \in RepliesTo(c)
    /\ toClient = FirstOf(Encode(Latest(answers)), SendRoom)

\* The client died of the reply.
ClientDead ==
    /\ client = "dead" /\ server = "up" /\ toServer = <<>>
    /\ executed = sent /\ Len(answers) = Len(sent) /\ Len(sent) = Len(results) + 1
    /\ Kills(Latest(answers))

\* The server died of the request.
ServerDead ==
    /\ client \in {"waiting", "lost"} /\ server = "dead" /\ toServer = <<>> /\ toClient = <<>>
    /\ executed = sent /\ Len(answers) = Len(results) /\ Len(sent) = Len(results) + 1
    /\ Throws(Latest(executed))

\* What the client showed so far.
ShownSoFar ==
    /\ \E S : results \in Seq(S)
    /\ \A i \in 1..Len(results) :
          FollowsProtocol(answers[i]) /\ Whole(answers[i]) => results[i] = Meaning(answers[i])

WireInv ==
    /\ sent \in Seq(Commands) /\ executed \in Seq(Commands) /\ answers \in Seq(AnyReply)
    /\ ShownSoFar
    /\ Idle \/ Asked \/ Answered \/ ClientDead \/ ServerDead

\* Before the first request nothing is on the wire.
LEMMA WireInit == Init => WireInv
<1> SUFFICES ASSUME Init PROVE WireInv
    OBVIOUS
<1>1. /\ sent \in Seq(Commands) /\ executed \in Seq(Commands) /\ answers \in Seq(AnyReply)
      /\ results \in Seq({}) /\ Len(results) = 0 /\ Len(sent) = 0 /\ Len(answers) = 0
    BY DEF Init
<1>2. ShownSoFar
    BY <1>1, 1..0 = {} DEF ShownSoFar
<1>3. Idle
    BY <1>1 DEF Init, Idle
<1>4. QED
    BY <1>1, <1>2, <1>3 DEF WireInv

\* A request is made when nothing is on the wire.
LEMMA RequestKeepsInv ==
    ASSUME WireInv, NEW c \in Commands, NEW data, AsksFor(c, data), data \in Seq(Atoms),
           Request(c, data)
    PROVE  WireInv'
<1>1. Idle
    BY DEF WireInv, Request, Idle, Asked, Answered, ClientDead, ServerDead
<1>2. toServer' = data
    BY <1>1 DEF Request, Idle
<1>3. sent' = Append(executed', c) /\ sent' \in Seq(Commands)
    BY <1>1 DEF Request, Idle, WireInv
<1>4. Asked'
    BY <1>1, <1>2, <1>3 DEF Request, Idle, Asked, AsksFor
<1>5. ShownSoFar'
    BY DEF Request, WireInv, ShownSoFar
<1>6. QED
    BY <1>3, <1>4, <1>5 DEF WireInv, Request

\* The server answers the request that is on the wire, or dies of it.
LEMMA ServeKeepsInv ==
    ASSUME ShortMessages, WireInv, Serve
    PROVE  WireInv'
<1>1. Asked
    BY DEF WireInv, Serve, Idle, Asked, Answered, ClientDead, ServerDead
<1>2. PICK c \in Commands : sent = Append(executed, c) /\ AsksFor(c, toServer)
    BY <1>1 DEF Asked
<1>3. /\ FirstOf(toServer, RecvSize) = toServer /\ RestOf(toServer, RecvSize) = <<>>
      /\ parseRespCommand(toServer).state # "thrown" /\ parseRespCommand(toServer).tokens = c
    BY <1>2, RequestRead
<1>4. processCommand(c)
    BY <1>3 DEF Serve
<1>5. c # <<>>
    BY WireAssumption
<1>6. executed' = Append(executed, c)
    BY <1>4, <1>5 DEF processCommand
<1>7. client' = client /\ sent' = sent /\ results' = results /\ toServer' = <<>>
    BY <1>3 DEF Serve
<1>8. /\ sent \in Seq(Commands) /\ executed \in Seq(Commands) /\ answers \in Seq(AnyReply)
      /\ ShownSoFar /\ Len(answers) = Len(executed) /\ Len(results) = Len(executed)
    BY <1>1 DEF WireInv, Asked
<1>9. /\ executed' \in Seq(Commands) /\ executed' = sent' /\ sent' \in Seq(Commands)
      /\ Len(executed') = Len(executed) + 1 /\ Latest(executed') = c
    BY <1>2, <1>6, <1>7, <1>8 DEF Latest
<1>10. Len(executed) \in Nat /\ Len(answers) \in Nat /\ Len(results) \in Nat
    BY <1>8
<1>11. CASE Throws(c) /\ server' = "dead" /\ UNCHANGED <<toClient, answers>>
    <2>1. ServerDead'
        BY <1>1, <1>7, <1>8, <1>9, <1>10, <1>11 DEF Asked, ServerDead, Latest
    <2>2. ShownSoFar'
        BY <1>7, <1>8, <1>11 DEF ShownSoFar
    <2>3. QED
        BY <1>8, <1>9, <1>11, <2>1, <2>2 DEF WireInv
<1>12. CASE /\ \E reply \in RepliesTo(c) :
                  /\ answers' = Append(answers, reply)
                  /\ toClient' = toClient \o FirstOf(Encode(reply), SendRoom)
            /\ UNCHANGED server
    <2>1. PICK reply \in RepliesTo(c) :
                /\ answers' = Append(answers, reply)
                /\ toClient' = toClient \o FirstOf(Encode(reply), SendRoom)
        BY <1>12
    <2>2. reply \in AnyReply
        BY RepliesKnown
    <2>3. toClient' = FirstOf(Encode(reply), SendRoom)
        <3>1. FirstOf(Encode(reply), SendRoom) \in Seq(Atoms)
            BY <2>2, ReplyTaken
        <3>2. toClient = <<>>
            BY <1>1 DEF Asked
        <3>3. QED
            BY <2>1, <3>1, <3>2
    <2>4. /\ answers' \in Seq(AnyReply) /\ Len(answers') = Len(answers) + 1
          /\ Latest(answers') = reply
          /\ \A i \in 1..Len(answers) : answers'[i] = answers[i]
        BY <1>8, <2>1, <2>2 DEF Latest
    <2>5. ShownSoFar'
        BY <1>7, <1>8, <2>4 DEF ShownSoFar
    <2>6. Answered'
        BY <1>1, <1>7, <1>8, <1>9, <1>10, <1>12, <2>3, <2>4 DEF Asked, Answered, Latest
    <2>7. QED
        BY <1>8, <1>9, <2>4, <2>5, <2>6 DEF WireInv
<1>13. QED
    BY <1>4, <1>11, <1>12 DEF processCommand

\* The client shows the reply that is on the wire, or dies of it.
LEMMA ReceiveKeepsInv ==
    ASSUME ShortMessages, WireInv, Receive
    PROVE  WireInv'
<1> DEFINE reply == Latest(answers)
<1>0. toClient # <<>> /\ client = "waiting"
    BY DEF Receive
<1>1. Answered
    BY <1>0 DEF WireInv, Idle, Asked, Answered, ClientDead, ServerDead
<1>2. /\ sent \in Seq(Commands) /\ executed \in Seq(Commands) /\ answers \in Seq(AnyReply)
      /\ ShownSoFar /\ Len(answers) = Len(sent) /\ Len(sent) = Len(results) + 1
    BY <1>1 DEF WireInv, Answered
<1>3. PICK S : results \in Seq(S)
    BY <1>2 DEF ShownSoFar
<1>4. Len(results) \in Nat /\ Len(answers) = Len(results) + 1
    BY <1>2, <1>3
<1>5. reply \in AnyReply /\ reply = answers[Len(results) + 1]
    BY <1>2, <1>4 DEF Latest
<1>6. toClient = FirstOf(Encode(reply), SendRoom) /\ Len(toClient) =< RecvSize
    BY <1>1 DEF Answered, ShortMessages
<1> HIDE DEF reply
<1>7. /\ toClient \in Seq(Atoms)
      /\ parseResponse(toClient).state = "thrown" => Kills(reply)
      /\ FollowsProtocol(reply) /\ Whole(reply)
             => parseResponse(toClient).shown = Meaning(reply)
    BY <1>5, <1>6, ReplyTaken
<1>8. FirstOf(toClient, RecvSize) = toClient /\ RestOf(toClient, RecvSize) = <<>>
    BY <1>6, <1>7, TakenWhole, WireAssumption
<1>9. UNCHANGED <<server, toServer, sent, executed, answers>> /\ toClient' = <<>>
    BY <1>8 DEF Receive
<1>10. CASE /\ parseResponse(toClient).state = "thrown"
            /\ client' = "dead" /\ UNCHANGED results
    <2>1. ClientDead'
        BY <1>1, <1>7, <1>9, <1>10 DEF Answered, ClientDead, reply, Latest
    <2>2. ShownSoFar'
        BY <1>2, <1>9, <1>10 DEF ShownSoFar
    <2>3. QED
        BY <1>2, <1>9, <2>1, <2>2 DEF WireInv
<1>11. CASE client' = "idle" /\ results' = Append(results, parseResponse(toClient).shown)
    <2> DEFINE shown == parseResponse(toClient).shown
               all == S \cup {shown}
    <2>1. shown \in all /\ results \in Seq(all)
        BY <1>3
    <2>2. results' = Append(results, shown)
        BY <1>11
    <2>3. FollowsProtocol(reply) /\ Whole(reply) => shown = Meaning(reply)
        BY <1>7
    <2> HIDE DEF shown, all
    <2>4. /\ results' \in Seq(all) /\ Len(results') = Len(results) + 1
          /\ results'[Len(results) + 1] = shown
          /\ \A i \in 1..Len(results) : results'[i] = results[i]
        <3>1. /\ Append(results, shown) \in Seq(all)
              /\ Len(Append(results, shown)) = Len(results) + 1
            BY <2>1
        <3>2. Append(results, shown)[Len(results) + 1] = shown
            BY <2>1
        <3>3. \A i \in 1..Len(results) : Append(results, shown)[i] = results[i]
            BY <2>1
        <3>4. QED
            BY <2>2, <3>1, <3>2, <3>3
    <2>5. ASSUME NEW i \in 1..Len(results'), FollowsProtocol(answers'[i]), Whole(answers'[i])
          PROVE  results'[i] = Meaning(answers'[i])
        <3>1. answers' = answers
            BY <1>9
        <3>2. CASE i \in 1..Len(results)
            BY <1>2, <2>4, <2>5, <3>1, <3>2 DEF ShownSoFar
        <3>3. CASE i = Len(results) + 1
            BY <1>5, <2>3, <2>4, <2>5, <3>1, <3>3
        <3>4. i \in 1..Len(results) \/ i = Len(results) + 1
            BY <1>4, <2>4
        <3>5. QED
            BY <3>2, <3>3, <3>4
    <2>6. ShownSoFar'
        BY <2>4, <2>5 DEF ShownSoFar
    <2>7. Idle'
        BY <1>1, <1>2, <1>4, <1>9, <1>11, <2>4 DEF Answered, Idle
    <2>8. QED
        BY <1>2, <1>9, <2>6, <2>7 DEF WireInv
<1>12. QED
    BY <1>8, <1>10, <1>11 DEF Receive

\* Client and server take turns.
LEMMA WireStep ==
    ASSUME ShortMessages, WireInv, [Next]_vars
    PROVE  WireInv'
<1>1. CASE sendCommand
    <2>1. PICK c \in Commands : Request(c, parseSendCommand(c) \o <<Eol>>)
        BY <1>1 DEF sendCommand
    <2> DEFINE data == parseSendCommand(c) \o <<Eol>>
    <2>2. AsksFor(c, data)
        BY DEF AsksFor
    <2> HIDE DEF data
    <2>3. data \in Seq(Atoms)
        BY <2>2, RequestRead
    <2>4. QED
        BY <2>1, <2>2, <2>3, RequestKeepsInv DEF data
<1>2. CASE Type
    <2>1. PICK c \in Commands : CanBeTyped(c) /\ Request(c, Typed(c) \o <<Eol>>)
        BY <1>2 DEF Type
    <2> DEFINE data == Typed(c) \o <<Eol>>
    <2>2. AsksFor(c, data)
        BY <2>1 DEF AsksFor
    <2> HIDE DEF data
    <2>3. data \in Seq(Atoms)
        BY <2>2, RequestRead
    <2>4. QED
        BY <2>1, <2>2, <2>3, RequestKeepsInv DEF data
<1>3. CASE Serve
    BY <1>3, ServeKeepsInv
<1>4. CASE Receive
    BY <1>4, ReceiveKeepsInv
<1>5. CASE EndOfStream
    <2>1. ServerDead
        BY <1>5 DEF EndOfStream, WireInv, Idle, Asked, Answered, ClientDead, ServerDead
    <2>2. ServerDead' /\ ShownSoFar'
        BY <1>5, <2>1 DEF EndOfStream, WireInv, ServerDead, ShownSoFar, Latest
    <2>3. QED
        BY <1>5, <2>2 DEF EndOfStream, WireInv
<1>6. CASE UNCHANGED vars
    <2>1. ShownSoFar'
        BY <1>6 DEF vars, WireInv, ShownSoFar
    <2>2. (Idle \/ Asked \/ Answered \/ ClientDead \/ ServerDead)'
        BY <1>6 DEF vars, WireInv, Idle, Asked, Answered, ClientDead, ServerDead, Latest
    <2>3. QED
        BY <1>6, <2>1, <2>2 DEF vars, WireInv
<1>7. QED
    BY <1>1, <1>2, <1>3, <1>4, <1>5, <1>6 DEF Next

\* The invariant of short messages.
LEMMA WireInductive == ASSUME ShortMessages PROVE Spec => []WireInv
<1>1. Init => WireInv
    BY WireInit
<1>2. WireInv /\ [Next]_vars => WireInv'
    BY WireStep
<1>3. QED
    BY <1>1, <1>2, PTL DEF Spec

\* README.md: "supports both inline and array formats".  While messages are
\* short, processCommand gets the requests that were sent or typed, in order,
\* with the words they had.
THEOREM RequestsExecuted == ASSUME ShortMessages PROVE Spec => []ExecutedIsSent
<1>1. WireInv => ExecutedIsSent
    <2> SUFFICES ASSUME WireInv PROVE ExecutedIsSent
        OBVIOUS
    <2>1. executed \in Seq(Commands) /\ sent \in Seq(Commands)
        BY DEF WireInv
    <2>2. CASE executed = sent
        BY <2>1, <2>2 DEF ExecutedIsSent, IsPrefix
    <2>3. CASE Asked
        <3>1. PICK c \in Commands : sent = Append(executed, c)
            BY <2>3 DEF Asked
        <3>2. QED
            BY <2>1, <3>1 DEF ExecutedIsSent, IsPrefix
    <2>4. QED
        BY <2>2, <2>3 DEF WireInv, Idle, Answered, ClientDead, ServerDead
<1>2. QED
    BY <1>1, WireInductive, PTL

\* parseResponse shows the replies in the order of the requests, and each one
\* that reached it whole and in RESP as what it says, whatever came before.
THEOREM RepliesShown == ASSUME ShortMessages PROVE Spec => []RepliesAreShown
<1>1. WireInv => RepliesAreShown
    <2> SUFFICES ASSUME WireInv PROVE RepliesAreShown
        OBVIOUS
    <2>1. ShownSoFar /\ executed \in Seq(Commands) /\ answers \in Seq(AnyReply)
        BY DEF WireInv
    <2>2. PICK S : results \in Seq(S)
        BY <2>1 DEF ShownSoFar
    <2>3. /\ DOMAIN results = 1..Len(results) /\ Len(results) \in Nat /\ Len(executed) \in Nat
          /\ Len(answers) \in Nat
        BY <2>1, <2>2
    <2>4. Len(answers) =< Len(sent) /\ Len(results) =< Len(answers)
        <3>1. CASE Idle
            BY <2>3, <3>1 DEF Idle
        <3>2. CASE Asked
            <4>1. PICK c \in Commands : sent = Append(executed, c)
                BY <3>2 DEF Asked
            <4>2. Len(sent) = Len(executed) + 1
                BY <2>1, <4>1
            <4>3. QED
                BY <2>3, <3>2, <4>2 DEF Asked
        <3>3. CASE Answered
            BY <2>3, <3>3 DEF Answered
        <3>4. CASE ClientDead
            BY <2>3, <3>4 DEF ClientDead
        <3>5. CASE ServerDead
            BY <2>3, <3>5 DEF ServerDead
        <3>6. QED
            BY <3>1, <3>2, <3>3, <3>4, <3>5 DEF WireInv
    <2>5. QED
        BY <2>1, <2>3, <2>4 DEF RepliesAreShown, ShownSoFar
<1>2. QED
    BY <1>1, WireInductive, PTL

\* Client.cpp: "SERVER SENDS RESPONSE FOR EVERY REQUEST".  While messages are
\* short, a client that waits has a reply to read, or a server that has its
\* request or died of it; and who died did so of one of the messages of which
\* Kills and Throws tell: no framing, no word with marks or line ends in it and
\* no reply before it has that effect.
THEOREM NobodyWaitsInVain == ASSUME ShortMessages PROVE Spec => []WaitingIsAnswered
<1>1. ShortMessages /\ WireInv => WaitingIsAnswered
    <2> SUFFICES ASSUME ShortMessages, WireInv PROVE WaitingIsAnswered
        OBVIOUS
    <2>1. CASE Idle
        BY <2>1 DEF Idle, WaitingIsAnswered
    <2>2. CASE Asked
        <3>1. PICK c \in Commands : AsksFor(c, toServer)
            BY <2>2 DEF Asked
        <3>2. toServer \in Seq(Atoms) /\ Len(toServer) > 0
            BY <3>1, RequestRead
        <3>3. toServer # <<>>
            BY <3>2
        <3>4. QED
            BY <2>2, <3>3 DEF Asked, WaitingIsAnswered
    <2>3. CASE Answered
        <3>1. PICK c \in Commands : Latest(answers) \in RepliesTo(c)
            BY <2>3 DEF Answered
        <3>2. Latest(answers) \in AnyReply
            BY <3>1, RepliesKnown
        <3>3. toClient \in Seq(Atoms) /\ Len(toClient) > 0
            BY <2>3, <3>2, ReplyTaken DEF Answered
        <3>4. toClient # <<>>
            BY <3>3
        <3>5. QED
            BY <2>3, <3>4 DEF Answered, WaitingIsAnswered
    <2>4. CASE ClientDead
        <3>1. PICK S : results \in Seq(S)
            BY DEF WireInv, ShownSoFar
        <3>2. answers # <<>>
            BY <2>4, <3>1 DEF ClientDead
        <3>3. QED
            BY <2>4, <3>2 DEF ClientDead, WaitingIsAnswered
    <2>5. CASE ServerDead
        <3>1. PICK S : results \in Seq(S)
            BY DEF WireInv, ShownSoFar
        <3>2. executed # <<>>
            BY <2>5, <3>1 DEF ServerDead
        <3>3. QED
            BY <2>5, <3>2 DEF ServerDead, WaitingIsAnswered
    <2>6. QED
        BY <2>1, <2>2, <2>3, <2>4, <2>5 DEF WireInv
<1>2. QED
    BY <1>1, WireInductive, PTL
=============================================================================
