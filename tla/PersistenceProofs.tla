-------------------------- MODULE PersistenceProofs --------------------------
(***************************************************************************)
(* Theorems about Persistence, for strings that the format of the dump can *)
(* hold.                                                                   *)
(***************************************************************************)
EXTENDS Persistence, DatabaseProofs

\* Strings of one word, and the empty string; a field has no colon.
Plain == {<<word>> : word \in Word}
Optional == Plain \cup {<<>>}
FieldTexts == {<<<<part>>>> : part \in DOMAIN Shorter} \cup {<<>>}

\* What the clients may send: keys and values of one word each, and fields
\* without a colon.
PlainStrings ==
    /\ Keys \subseteq Plain
    /\ Values \subseteq Plain
    /\ Fields \subseteq FieldTexts

HashMaps ==
    UNION {[D -> Optional] : D \in {D \in SUBSET FieldTexts : IsFiniteSet(D)}}

Tags == {"K", "L", "H"}
Lines == Tags \X Seq(Word)

\* The content that an entry of each type may have.
ContentOf(tag) ==
    CASE tag = "K" -> Optional
      [] tag = "L" -> Seq(Plain)
      [] tag = "H" -> HashMaps
\* Strings, lists and hash tables that are empty.
NoContent(tag) == IF tag = "H" THEN EmptyMap ELSE <<>>

\* A table of one type: an entry with an empty key has an empty content.
Table(m, tag) ==
    /\ IsMap(m, Optional, ContentOf(tag))
    /\ <<>> \in DOMAIN m => m[<<>>] = NoContent(tag)
-----------------------------------------------------------------------------
(* Sequences. *)

\* Sequences of one element each, one after the other, are the sequence of
\* their elements.
LEMMA FlattenSingletons ==
    ASSUME NEW n \in Nat, NEW S, NEW word \in [1..n -> S]
    PROVE  FlattenSeq([i \in 1..n |-> <<word[i]>>]) = word
<1> DEFINE seqs == [i \in 1..n |-> <<word[i]>>]
           F(f) == [i \in 1..n |-> IF i = 1 THEN seqs[i] ELSE f[i-1] \o seqs[i]]
           W == [i \in 1..n |-> [j \in 1..i |-> word[j]]]
<1>1. seqs \in Seq({<<x>> : x \in S}) /\ Len(seqs) = n
    OBVIOUS
<1>2. CASE n = 0
    BY <1>1, <1>2 DEF FlattenSeq
<1>3. CASE n # 0
    <2>1. ASSUME NEW i \in 1..n
          PROVE  W[i] = IF i = 1 THEN seqs[i] ELSE W[i-1] \o seqs[i]
        <3>1. CASE i = 1
            <4>1. 1..1 = {1}
                OBVIOUS
            <4>2. QED
                BY <3>1, <4>1
        <3>2. CASE i # 1
            <4>1. i - 1 \in 1..n /\ i \in Nat /\ i - 1 \in Nat
                BY <3>2
            <4>2. W[i-1] \in Seq(S) /\ Len(W[i-1]) = i - 1
                BY <4>1
            <4>3. QED
                BY <3>2, <4>1, <4>2
        <3>3. QED
            BY <3>1, <3>2
    <2>2. W = F(W)
        BY <2>1
    <2>3. ASSUME NEW f, f = F(f) PROVE f = W
        <3> DEFINE R == OpToRel(<, Nat)
                   T == {i \in 1..n : f[i] # W[i]}
        <3>1. \A i, j \in Nat : i < j => <<i, j>> \in R
            BY DEF OpToRel
        <3>2. IsWellFoundedOn(R, Nat)
            BY NatLessThanWellFounded, Zenon
        <3> HIDE DEF R
        <3>3. T = {}
            <4> SUFFICES ASSUME T # {} PROVE FALSE
                OBVIOUS
            <4>1. T \subseteq Nat
                OBVIOUS
            <4>2. PICK i \in T : \A j \in T : ~ (<<j, i>> \in R)
                BY <3>2, <4>1, WFMin, Zenon
            <4>3. ASSUME i # 1 PROVE i - 1 \in 1..n /\ f[i - 1] = W[i - 1]
                <5>1. i \in Nat /\ i - 1 \in 1..n /\ i - 1 \in Nat /\ i - 1 < i
                    BY <4>3
                <5>2. i - 1 \notin T
                    BY <3>1, <4>2, <5>1
                <5>3. QED
                    BY <5>1, <5>2
            <4>4. f[i] = IF i = 1 THEN seqs[i] ELSE f[i-1] \o seqs[i]
                BY <2>3
            <4>5. QED
                BY <2>1, <4>2, <4>3, <4>4
        <3>4. f = [i \in 1..n |-> f[i]]
            BY <2>3
        <3>5. QED
            BY <3>3, <3>4
    <2>4. (CHOOSE f : f = F(f)) = W
        BY <2>2, <2>3
    <2>5. FlattenSeq(seqs) = (CHOOSE f : f = F(f))[n]
        BY <1>1, <1>3 DEF FlattenSeq
    <2>6. W[n] = word
        BY <1>3
    <2>7. QED
        BY <2>4, <2>5, <2>6
<1>4. QED
    BY <1>2, <1>3
-----------------------------------------------------------------------------
(* The three types of entries. *)

\* The type of the content of each.
LEMMA ContentTypes ==
    /\ ContentOf("K") = Optional /\ ContentOf("L") = Seq(Plain) /\ ContentOf("H") = HashMaps
    /\ NoContent("K") = <<>> /\ NoContent("L") = <<>> /\ NoContent("H") = EmptyMap
BY Zenon DEF ContentOf, NoContent

\* What each loads.
LEMMA LoadContents ==
    ASSUME NEW words
    PROVE  /\ LoadContent("K", words) = WordAt(words, 2)
           /\ LoadContent("L", words) = [i \in 1..(Len(words) - 1) |-> <<words[i + 1]>>]
           /\ LoadContent("H", words) = LoadHash(SubSeq(words, 2, Len(words)))
BY Zenon DEF LoadContent

\* Nothing is empty in each type.
LEMMA NoContentType == \A tag \in Tags : NoContent(tag) \in ContentOf(tag)
<1>1. EmptyMap \in HashMaps
    BY FS_EmptySet DEF EmptyMap, HashMaps
<1>2. <<>> \in Optional /\ <<>> \in Seq(Plain)
    BY DEF Optional
<1>3. QED
    BY <1>1, <1>2, ContentTypes DEF Tags
-----------------------------------------------------------------------------
(* What a line loads. *)

\* The parts of a field or a value.
LEMMA PartsTextType ==
    /\ \A part \in Parts : PartsText(<<part>>) \in FieldTexts
    /\ \A parts \in Seq(Parts) \ {<<>>} : PartsText(parts) \in Optional
<1>1. ASSUME NEW part \in Parts PROVE PartsText(<<part>>) \in FieldTexts
    <2>1. CASE part = Empty
        BY <2>1 DEF PartsText, FieldTexts
    <2>2. CASE part # Empty
        <3>1. part \in DOMAIN Shorter /\ <<part>> # <<Empty>>
            BY <2>2 DEF Parts
        <3>2. QED
            BY <3>1 DEF PartsText, FieldTexts
    <2>3. QED
        BY <2>1, <2>2
<1>2. ASSUME NEW parts \in Seq(Parts) \ {<<>>} PROVE PartsText(parts) \in Optional
    BY DEF PartsText, Optional, Plain, Word
<1>3. QED
    BY <1>1, <1>2

\* What is before and behind the first colon of a word that has one.
LEMMA ColonParts ==
    ASSUME NEW w \in Seq(Parts), Len(w) > 1
    PROVE  Head(w) \in Parts /\ Tail(w) \in Seq(Parts) \ {<<>>}
<1>1. w # <<>>
    OBVIOUS
<1>2. Head(w) \in Parts /\ Tail(w) \in Seq(Parts) /\ Len(Tail(w)) = Len(w) - 1
    BY <1>1, HeadTailProperties
<1>3. Tail(w) # <<>>
    BY <1>2
<1>4. QED
    BY <1>2, <1>3

\* The words with a colon give a table of fields.
LEMMA LoadHashType ==
    ASSUME NEW words \in Seq(Word)
    PROVE  LoadHash(words) \in HashMaps
<1> DEFINE own == {i \in DOMAIN words : Len(words[i]) > 1}
           pairs == [i \in own |->
                        <<PartsText(<<Head(words[i])>>), PartsText(Tail(words[i]))>>]
           n == Len(words)
           h == Assigned(EmptyMap, pairs)
<1>1. n \in Nat /\ DOMAIN pairs \subseteq 1..n
    OBVIOUS
<1>2. ASSUME NEW i \in DOMAIN pairs PROVE pairs[i] \in FieldTexts \X Optional
    <2>1. words[i] \in Seq(Parts) /\ Len(words[i]) > 1
        <3>1. i \in DOMAIN words /\ Len(words[i]) > 1
            OBVIOUS
        <3>2. words[i] \in Word
            BY <3>1
        <3>3. QED
            BY <3>1, <3>2 DEF Word
    <2>2. Head(words[i]) \in Parts /\ Tail(words[i]) \in Seq(Parts) \ {<<>>}
        BY <2>1, ColonParts
    <2>3. QED
        BY <2>2, PartsTextType
<1>3. IsMap(h, FieldTexts, Optional)
    <2>1. IsMap(EmptyMap, FieldTexts, Optional)
        BY EmptyMapType
    <2> HIDE DEF pairs, n
    <2>2. QED
        BY <1>1, <1>2, <2>1, AssignedType
<1>4. IsFiniteSet(DOMAIN h)
    <2>1. IsFiniteSet(DOMAIN pairs)
        <3>1. DOMAIN pairs \in SUBSET Nat /\ \A i \in DOMAIN pairs : i =< n
            BY <1>1
        <3> HIDE DEF pairs, n
        <3>2. QED
            BY <1>1, <3>1, FS_BoundedSetOfNaturals
    <2> DEFINE first == [i \in DOMAIN pairs |-> pairs[i][1]]
               firsts == {pairs[i][1] : i \in DOMAIN pairs}
    <2>2. first \in Surjection(DOMAIN pairs, firsts)
        BY DEF Surjection
    <2> HIDE DEF pairs, n
    <2>3. IsFiniteSet(firsts)
        BY <2>1, <2>2, FS_Surjection
    <2>4. DOMAIN h = firsts
        BY <1>1, AssignedLast
    <2>5. QED
        BY <2>3, <2>4
<1>5. LoadHash(words) = h
    BY DEF LoadHash
<1>6. QED
    BY <1>3, <1>4, <1>5 DEF IsMap, HashMaps

\* Whatever words a line has, what it loads is of the type of its tag, and a
\* line without a key has no content.
LEMMA LineType ==
    ASSUME NEW tag \in Tags, NEW words \in Seq(Word)
    PROVE  /\ WordAt(words, 1) \in Optional
           /\ LoadContent(tag, words) \in ContentOf(tag)
           /\ WordAt(words, 1) = <<>> => LoadContent(tag, words) = NoContent(tag)
<1>1. \A i \in Nat : WordAt(words, i) \in Optional
    BY DEF WordAt, Optional, Plain
<1>2. CASE words = <<>>
    <2>1. SubSeq(words, 2, Len(words)) = <<>>
        BY <1>2
    <2>2. LoadHash(<<>>) = EmptyMap
        BY DEF LoadHash, Assigned, EmptyMap
    <2>3. [i \in 1..(Len(words) - 1) |-> <<words[i + 1]>>] = <<>>
        BY <1>2
    <2>4. WordAt(words, 2) = <<>>
        BY <1>2 DEF WordAt
    <2>5. LoadContent(tag, words) = NoContent(tag)
        BY <2>1, <2>2, <2>3, <2>4, LoadContents, ContentTypes DEF Tags
    <2>6. QED
        BY <1>1, <2>5, NoContentType
<1>3. CASE words # <<>>
    <2>1. WordAt(words, 1) # <<>>
        BY <1>3 DEF WordAt
    <2>2. CASE tag = "K"
        BY <1>1, <2>1, <2>2, LoadContents, ContentTypes
    <2>3. CASE tag = "L"
        <3>1. Len(words) - 1 \in Nat
            BY <1>3
        <3>2. \A i \in 1..(Len(words) - 1) : <<words[i + 1]>> \in Plain
            BY <3>1 DEF Plain
        <3>3. [i \in 1..(Len(words) - 1) |-> <<words[i + 1]>>] \in Seq(Plain)
            BY <3>1, <3>2
        <3>4. QED
            BY <1>1, <2>1, <2>3, <3>3, LoadContents, ContentTypes
    <2>4. CASE tag = "H"
        <3>1. SubSeq(words, 2, Len(words)) \in Seq(Word)
            OBVIOUS
        <3>2. QED
            BY <1>1, <2>1, <2>4, <3>1, LoadHashType, LoadContents, ContentTypes
    <2>5. QED
        BY <1>1, <2>1, <2>2, <2>3, <2>4 DEF Tags
<1>4. QED
    BY <1>2, <1>3
-----------------------------------------------------------------------------
(* What a file loads. *)

\* The entry that a line gives: tag, key and content.
Read(line) == <<line[1], WordAt(line[2], 1), LoadContent(line[1], line[2])>>

\* No later line of the file has the tag and the key of line i.
IsLast(lines, i) ==
    \A j \in DOMAIN lines :
        lines[j][1] = lines[i][1] /\ Read(lines[j])[2] = Read(lines[i])[2] => j =< i

\* The lines of a file, each with its tag and its words.
LEMMA LinesType ==
    ASSUME NEW lines \in Seq(Lines), NEW i \in DOMAIN lines
    PROVE  /\ i \in Nat /\ lines[i] \in Lines
           /\ lines[i][1] \in Tags /\ lines[i][2] \in Seq(Word)
           /\ lines[i] = <<lines[i][1], lines[i][2]>>
BY DEF Lines

\* The table of a type: what a key holds is what the last of its lines says.
LEMMA LoadedTable ==
    ASSUME NEW lines \in Seq(Lines), NEW tag \in Tags
    PROVE  /\ Table(LoadTable(lines, tag), tag)
           /\ \A k, c :
                  (k \in DOMAIN LoadTable(lines, tag) /\ LoadTable(lines, tag)[k] = c)
                      <=> \E i \in DOMAIN lines :
                              Read(lines[i]) = <<tag, k, c>> /\ IsLast(lines, i)
<1> DEFINE own == Own(lines, tag)
           pairs == [i \in own |->
                        <<WordAt(lines[i][2], 1), LoadContent(tag, lines[i][2])>>]
           m == Assigned(EmptyMap, pairs)
           n == Len(lines)
<1>1. n \in Nat /\ own \subseteq 1..n /\ DOMAIN lines = 1..n /\ DOMAIN pairs = own
    BY DEF Own
<1>2. LoadTable(lines, tag) = m
    BY DEF LoadTable
<1>3. ASSUME NEW i \in own
      PROVE  /\ lines[i][1] = tag
             /\ pairs[i] = <<Read(lines[i])[2], Read(lines[i])[3]>>
             /\ Read(lines[i]) = <<tag, pairs[i][1], pairs[i][2]>>
             /\ pairs[i] \in Optional \X ContentOf(tag)
             /\ pairs[i][1] = <<>> => pairs[i][2] = NoContent(tag)
    <2>1. lines[i][1] = tag /\ lines[i][2] \in Seq(Word)
        BY <1>1, LinesType DEF Own
    <2>2. /\ WordAt(lines[i][2], 1) \in Optional
          /\ LoadContent(tag, lines[i][2]) \in ContentOf(tag)
          /\ WordAt(lines[i][2], 1) = <<>>
                => LoadContent(tag, lines[i][2]) = NoContent(tag)
        BY <2>1, LineType
    <2>3. pairs[i] = <<WordAt(lines[i][2], 1), LoadContent(tag, lines[i][2])>>
        OBVIOUS
    <2> HIDE DEF pairs
    <2>4. QED
        BY <2>1, <2>2, <2>3 DEF Read
<1>4. \A i \in DOMAIN lines : i \notin own => lines[i][1] # tag
    BY DEF Own
<1> HIDE DEF own, pairs, n
<1>5. IsMap(m, Optional, ContentOf(tag))
    <2>1. IsMap(EmptyMap, Optional, ContentOf(tag))
        BY EmptyMapType
    <2>2. QED
        BY <1>1, <1>3, <2>1, AssignedType
<1>6. /\ DOMAIN m = {pairs[i][1] : i \in own}
      /\ \A k \in DOMAIN m : \E i \in own :
            /\ pairs[i][1] = k /\ m[k] = pairs[i][2]
            /\ \A j \in own : pairs[j][1] = k => j =< i
    BY <1>1, AssignedLast
<1> HIDE DEF m
<1>7. \A i \in own : IsLast(lines, i) <=> \A j \in own : pairs[j][1] = pairs[i][1] => j =< i
    BY <1>1, <1>3, <1>4 DEF IsLast
<1>8. Table(m, tag)
    BY <1>3, <1>5, <1>6 DEF Table
<1>9. ASSUME NEW k, NEW c
      PROVE  (k \in DOMAIN m /\ m[k] = c)
                <=> \E i \in DOMAIN lines :
                        Read(lines[i]) = <<tag, k, c>> /\ IsLast(lines, i)
    <2>1. ASSUME k \in DOMAIN m, m[k] = c
          PROVE  \E i \in DOMAIN lines : Read(lines[i]) = <<tag, k, c>> /\ IsLast(lines, i)
        <3>1. PICK i \in own : /\ pairs[i][1] = k /\ m[k] = pairs[i][2]
                               /\ \A j \in own : pairs[j][1] = k => j =< i
            BY <1>6, <2>1
        <3>2. Read(lines[i]) = <<tag, k, c>> /\ IsLast(lines, i)
            BY <1>3, <1>7, <2>1, <3>1
        <3>3. QED
            BY <1>1, <3>2
    <2>2. ASSUME NEW i \in DOMAIN lines, Read(lines[i]) = <<tag, k, c>>, IsLast(lines, i)
          PROVE  k \in DOMAIN m /\ m[k] = c
        <3>1. i \in own
            BY <1>4, <2>2 DEF Read
        <3>2. pairs[i][1] = k /\ pairs[i][2] = c
            BY <1>3, <2>2, <3>1
        <3>3. k \in DOMAIN m
            BY <1>6, <3>1, <3>2
        <3>4. PICK j \in own : /\ pairs[j][1] = k /\ m[k] = pairs[j][2]
                               /\ \A l \in own : pairs[l][1] = k => l =< j
            BY <1>6, <3>3
        <3>5. i =< j /\ j =< i
            BY <1>7, <2>2, <3>1, <3>2, <3>4
        <3>6. i = j
            BY <1>1, <3>1, <3>4, <3>5
        <3>7. QED
            BY <3>2, <3>3, <3>4, <3>6
    <2>3. QED
        BY <2>1, <2>2
<1>10. QED
    BY <1>2, <1>8, <1>9

\* The entries that a file gives are those of the last lines of their keys.
LEMMA LoadedEntries ==
    ASSUME NEW lines \in Seq(Lines), NEW e
    PROVE  e \in EntriesLoaded(lines)
              <=> \E i \in DOMAIN lines : Read(lines[i]) = e /\ IsLast(lines, i)
<1> DEFINE Held(tag) == {<<tag, k, LoadTable(lines, tag)[k]>> :
                            k \in DOMAIN LoadTable(lines, tag)}
<1>1. EntriesLoaded(lines) = Held("K") \cup Held("L") \cup Held("H")
    BY DEF EntriesLoaded, EntriesOf
<1>2. ASSUME NEW tag \in Tags
      PROVE  e \in Held(tag) <=> \E i \in DOMAIN lines :
                Read(lines[i]) = e /\ IsLast(lines, i) /\ lines[i][1] = tag
    <2>1. ASSUME e \in Held(tag)
          PROVE  \E i \in DOMAIN lines :
                    Read(lines[i]) = e /\ IsLast(lines, i) /\ lines[i][1] = tag
        <3>1. PICK k \in DOMAIN LoadTable(lines, tag) :
                e = <<tag, k, LoadTable(lines, tag)[k]>>
            BY <2>1
        <3>2. PICK i \in DOMAIN lines : Read(lines[i]) = e /\ IsLast(lines, i)
            BY <3>1, LoadedTable
        <3>3. lines[i][1] = tag
            BY <3>1, <3>2 DEF Read
        <3>4. QED
            BY <3>2, <3>3
    <2>2. ASSUME NEW i \in DOMAIN lines, Read(lines[i]) = e, IsLast(lines, i),
                 lines[i][1] = tag
          PROVE  e \in Held(tag)
        <3> DEFINE k == WordAt(lines[i][2], 1)
                   c == LoadContent(tag, lines[i][2])
        <3>0. Read(lines[i]) = <<tag, k, c>>
            BY <2>2 DEF Read
        <3> HIDE DEF k, c
        <3>1. e = <<tag, k, c>>
            BY <2>2, <3>0
        <3>2. k \in DOMAIN LoadTable(lines, tag) /\ LoadTable(lines, tag)[k] = c
            BY <2>2, <3>1, LoadedTable
        <3>3. QED
            BY <3>1, <3>2
    <2>3. QED
        BY <2>1, <2>2
<1>3. \A i \in DOMAIN lines : lines[i][1] \in Tags
    BY LinesType
<1> HIDE DEF Held
<1>4. QED
    BY <1>1, <1>2, <1>3 DEF Tags
-----------------------------------------------------------------------------
(* What a line of an entry gives back. *)

\* An entry of the store, or of a file.
Sound(e) ==
    /\ e = <<e[1], e[2], e[3]>>
    /\ e[1] \in Tags /\ e[2] \in Optional /\ e[3] \in ContentOf(e[1])
    /\ e[2] = <<>> => e[3] = NoContent(e[1])

\* A line of a key and further words: the key is its first word.
LEMMA KeyFirst ==
    ASSUME NEW k \in Optional, NEW rest \in Seq(Word), k = <<>> => rest = <<>>
    PROVE  LET words == k \o rest
           IN  /\ words \in Seq(Word)
               /\ WordAt(words, 1) = k
               /\ WordAt(words, 2) = WordAt(rest, 1)
               /\ SubSeq(words, 2, Len(words)) = rest
               /\ Len(words) - 1 = IF k = <<>> THEN -1 ELSE Len(rest)
               /\ \A i \in 1..(Len(words) - 1) : words[i + 1] = rest[i]
<1> DEFINE words == k \o rest
<1>1. CASE k = <<>>
    <2>1. rest = <<>> /\ words = <<>>
        BY <1>1
    <2>2. QED
        BY <1>1, <2>1 DEF WordAt
<1>2. CASE k # <<>>
    <2>1. PICK w \in Word : k = <<w>>
        BY <1>2 DEF Optional, Plain
    <2>2. /\ words \in Seq(Word) /\ Len(words) = Len(rest) + 1 /\ words[1] = w
          /\ \A i \in 1..Len(rest) : words[i + 1] = rest[i]
        BY <2>1
    <2>3. SubSeq(words, 2, Len(words)) = rest
        BY <2>1
    <2>4. WordAt(words, 1) = k
        BY <2>1, <2>2 DEF WordAt
    <2>5. WordAt(words, 2) = WordAt(rest, 1)
        BY <2>2 DEF WordAt
    <2>6. QED
        BY <1>2, <2>2, <2>3, <2>4, <2>5
<1>3. QED
    BY <1>1, <1>2

\* The elements of a list are words of its line.
LEMMA ListWords ==
    ASSUME NEW content \in Seq(Plain)
    PROVE  /\ FlattenSeq(content) \in Seq(Word)
           /\ Len(FlattenSeq(content)) = Len(content)
           /\ \A i \in DOMAIN content : content[i] = <<FlattenSeq(content)[i]>>
<1> DEFINE n == Len(content)
           word == [i \in 1..n |-> content[i][1]]
<1>1. \A i \in 1..n : content[i][1] \in Word /\ content[i] = <<content[i][1]>>
    <2> SUFFICES ASSUME NEW i \in 1..n
                 PROVE  content[i][1] \in Word /\ content[i] = <<content[i][1]>>
        OBVIOUS
    <2>1. content[i] \in Plain
        OBVIOUS
    <2>2. PICK w \in Word : content[i] = <<w>>
        BY <2>1 DEF Plain
    <2>3. QED
        BY <2>2
<1>2. n \in Nat /\ word \in [1..n -> Word]
    BY <1>1
<1>3. content = [i \in 1..n |-> <<word[i]>>]
    <2>1. content = [i \in 1..n |-> content[i]]
        OBVIOUS
    <2>2. \A i \in 1..n : content[i] = <<word[i]>>
        BY <1>1
    <2> HIDE DEF word, n
    <2>3. QED
        BY <2>1, <2>2
<1> HIDE DEF word, n
<1>4. FlattenSeq(content) = word
    BY <1>2, <1>3, FlattenSingletons
<1>5. QED
    BY <1>2, <1>3, <1>4

\* A field and its value are one word with a colon, which gives them back.
LEMMA PairWord ==
    ASSUME NEW f \in FieldTexts, NEW v \in Optional
    PROVE  \E word \in Word :
              /\ PairWords(f, v) = <<word>> /\ Len(word) > 1
              /\ PartsText(<<Head(word)>>) = f /\ PartsText(Tail(word)) = v
<1>1. \E part \in Parts : /\ (IF f = <<>> THEN <<Empty>> ELSE Last(f)) = <<part>>
                          /\ (IF f = <<>> THEN <<>> ELSE Front(f)) = <<>>
                          /\ PartsText(<<part>>) = f
    <2>1. CASE f = <<>>
        BY <2>1 DEF Parts, PartsText
    <2>2. CASE f # <<>>
        <3>1. PICK part \in DOMAIN Shorter : f = <<<<part>>>>
            BY <2>2 DEF FieldTexts
        <3>2. Last(f) = <<part>> /\ Front(f) = <<>>
            BY <3>1 DEF Last, Front
        <3>3. part # Empty
            BY DumpFileAssumption
        <3>4. PartsText(<<part>>) = f
            BY <3>1, <3>3 DEF PartsText
        <3>5. QED
            BY <2>2, <3>2, <3>4 DEF Parts
    <2>3. QED
        BY <2>1, <2>2
<1>2. \E right \in Seq(Parts) : /\ (IF v = <<>> THEN <<Empty>> ELSE Head(v)) = right
                                /\ (IF v = <<>> THEN <<>> ELSE Tail(v)) = <<>>
                                /\ right # <<>> /\ PartsText(right) = v
    <2>1. CASE v = <<>>
        <3>1. <<Empty>> \in Seq(Parts) /\ <<Empty>> # <<>>
            BY DEF Parts
        <3>2. PartsText(<<Empty>>) = <<>>
            BY DEF PartsText
        <3>3. QED
            BY <2>1, <3>1, <3>2
    <2>2. CASE v # <<>>
        <3>1. PICK w \in Word : v = <<w>>
            BY <2>2 DEF Optional, Plain
        <3>2. w \in Seq(Parts) /\ w # <<>> /\ w # <<Empty>>
            BY DEF Word
        <3>3. QED
            BY <2>2, <3>1, <3>2 DEF PartsText
    <2>3. QED
        BY <2>1, <2>2
<1>3. PICK part \in Parts : /\ (IF f = <<>> THEN <<Empty>> ELSE Last(f)) = <<part>>
                            /\ (IF f = <<>> THEN <<>> ELSE Front(f)) = <<>>
                            /\ PartsText(<<part>>) = f
    BY <1>1
<1>4. PICK right \in Seq(Parts) : /\ (IF v = <<>> THEN <<Empty>> ELSE Head(v)) = right
                                  /\ (IF v = <<>> THEN <<>> ELSE Tail(v)) = <<>>
                                  /\ right # <<>> /\ PartsText(right) = v
    BY <1>2
<1> DEFINE word == <<part>> \o right
<1>5. PairWords(f, v) = <<word>>
    <2>1. \A x : <<>> \o <<x>> \o <<>> = <<x>>
        OBVIOUS
    <2>2. PairWords(f, v) = <<>> \o <<<<part>> \o right>> \o <<>>
        BY <1>3, <1>4, Zenon DEF PairWords
    <2>3. QED
        BY <2>1, <2>2
<1>6. Head(word) = part /\ Tail(word) = right /\ word \in Seq(Parts) /\ Len(word) > 1
    BY <1>4
<1>7. word \in Word
    BY <1>6 DEF Word
<1>8. QED
    BY <1>3, <1>4, <1>5, <1>6, <1>7

\* A listing of a finite set has every element of it.
LEMMA ListingIsOnto ==
    ASSUME NEW S, IsFiniteSet(S), NEW f \in SetToSeqs(S)
    PROVE  /\ Cardinality(S) \in Nat /\ f \in [1..Cardinality(S) -> S]
           /\ \A x \in S : \E i \in 1..Cardinality(S) : f[i] = x
<1> DEFINE n == Cardinality(S)
<1>1. n \in Nat
    BY FS_CardinalityType
<1>2. f \in [1..n -> S] /\ \A i, j \in 1..n : i # j => f[i] # f[j]
    BY DEF SetToSeqs
<1>3. f \in Injection(1..n, S)
    BY <1>2 DEF Injection, IsInjective
<1>4. Cardinality(1..n) = n
    <2>1. 1 \in Int /\ n \in Int
        BY <1>1
    <2> HIDE DEF n
    <2>2. Cardinality(1..n) = IF 1 > n THEN 0 ELSE n - 1 + 1
        BY <2>1, FS_Interval, Zenon
    <2>3. QED
        BY <1>1, <2>2
<1> HIDE DEF n
<1>5. Cardinality(1..n) = Cardinality(S)
    BY <1>4 DEF n
<1>6. f \in Surjection(1..n, S)
    BY <1>3, <1>5, FS_Injection
<1>7. QED
    BY <1>1, <1>2, <1>6 DEF n, Surjection

\* The words of a hash table, in any order of its fields, load the same table.
LEMMA HashWords ==
    ASSUME NEW c \in HashMaps, NEW fields \in SetToSeqs(DOMAIN c)
    PROVE  LET words == FlattenSeq([i \in DOMAIN fields |->
                                        PairWords(fields[i], c[fields[i]])])
           IN  words \in Seq(Word) /\ LoadHash(words) = c /\ (c = EmptyMap => words = <<>>)
<1> DEFINE n == Cardinality(DOMAIN c)
           Pair(i) == PairWords(fields[i], c[fields[i]])
           word == [i \in 1..n |-> Pair(i)[1]]
<1>1. IsFiniteSet(DOMAIN c) /\ DOMAIN c \subseteq FieldTexts /\ c \in [DOMAIN c -> Optional]
    BY DEF HashMaps
<1>2. /\ n \in Nat /\ fields \in [1..n -> DOMAIN c] /\ DOMAIN fields = 1..n
      /\ \A f \in DOMAIN c : \E i \in 1..n : fields[i] = f
    BY <1>1, ListingIsOnto
<1>3. ASSUME NEW i \in 1..n
      PROVE  /\ word[i] \in Word /\ Pair(i) = <<word[i]>> /\ Len(word[i]) > 1
             /\ PartsText(<<Head(word[i])>>) = fields[i]
             /\ PartsText(Tail(word[i])) = c[fields[i]]
    <2>1. fields[i] \in FieldTexts /\ c[fields[i]] \in Optional
        BY <1>1, <1>2
    <2>2. PICK w \in Word : /\ Pair(i) = <<w>> /\ Len(w) > 1
                            /\ PartsText(<<Head(w)>>) = fields[i]
                            /\ PartsText(Tail(w)) = c[fields[i]]
        BY <2>1, PairWord
    <2>3. word[i] = Pair(i)[1]
        OBVIOUS
    <2> HIDE DEF word, Pair
    <2>4. word[i] = w
        BY <2>2, <2>3
    <2>5. QED
        BY <2>2, <2>4
<1>4. [i \in DOMAIN fields |-> Pair(i)] = [i \in 1..n |-> <<word[i]>>]
    <2> HIDE DEF word, Pair, n
    <2>1. QED
        BY <1>2, <1>3
<1>5. word \in [1..n -> Word]
    <2>1. \A i \in 1..n : Pair(i)[1] \in Word
        BY <1>3
    <2> HIDE DEF Pair, n
    <2>2. QED
        BY <2>1
<1>6. FlattenSeq([i \in DOMAIN fields |-> Pair(i)]) = word
    <2> HIDE DEF word, Pair, n
    <2>1. FlattenSeq([i \in 1..n |-> <<word[i]>>]) = word
        BY <1>2, <1>5, FlattenSingletons
    <2>2. QED
        BY <1>4, <2>1
<1>7. DOMAIN word = 1..n /\ word \in Seq(Word)
    BY <1>2, <1>5
<1> DEFINE pairs == [i \in 1..n |-> <<fields[i], c[fields[i]]>>]
<1>8. LoadHash(word) = Assigned(EmptyMap, pairs)
    <2>1. {i \in DOMAIN word : Len(word[i]) > 1} = 1..n
        BY <1>3, <1>7
    <2>2. [i \in {i \in DOMAIN word : Len(word[i]) > 1} |->
                <<PartsText(<<Head(word[i])>>), PartsText(Tail(word[i]))>>] = pairs
        <3>1. \A i \in 1..n :
                <<PartsText(<<Head(word[i])>>), PartsText(Tail(word[i]))>>
                    = <<fields[i], c[fields[i]]>>
            BY <1>3
        <3> HIDE DEF word, n
        <3>2. QED
            BY <2>1, <3>1
    <2> HIDE DEF word, n, pairs
    <2>3. QED
        BY <2>2 DEF LoadHash
<1>9. DOMAIN pairs = 1..n /\ \A i \in 1..n : pairs[i] = <<fields[i], c[fields[i]]>>
    OBVIOUS
<1> HIDE DEF word, Pair, pairs
<1>10. Assigned(EmptyMap, pairs) = c
    <2> DEFINE m == Assigned(EmptyMap, pairs)
    <2>0. n \in Nat /\ DOMAIN pairs \subseteq 1..n
        BY <1>2, <1>9
    <2> HIDE DEF n
    <2>1. /\ DOMAIN m = {pairs[i][1] : i \in DOMAIN pairs}
          /\ \A k \in DOMAIN m : \E i \in DOMAIN pairs :
                /\ pairs[i][1] = k /\ m[k] = pairs[i][2]
                /\ \A j \in DOMAIN pairs : pairs[j][1] = k => j =< i
        BY <2>0, AssignedLast
    <2>2. m = [k \in DOMAIN m |-> m[k]]
        BY DEF Assigned
    <2> HIDE DEF m
    <2>3. DOMAIN m = DOMAIN c
        <3>1. \A k : k \in DOMAIN m <=> \E i \in 1..n : fields[i] = k
            BY <1>9, <2>1
        <3>2. QED
            BY <1>2, <3>1
    <2>4. \A k \in DOMAIN c : m[k] = c[k]
        BY <1>9, <2>1, <2>3
    <2>5. c = [k \in DOMAIN c |-> c[k]]
        BY <1>1
    <2>6. QED
        BY <2>2, <2>3, <2>4, <2>5 DEF m
<1>11. c = EmptyMap => word = <<>>
    <2> SUFFICES ASSUME c = EmptyMap PROVE word = <<>>
        OBVIOUS
    <2>1. DOMAIN c = {}
        BY DEF EmptyMap
    <2>2. n = 0
        BY <2>1, FS_EmptySet
    <2>3. 1..n = {}
        BY <2>2
    <2> HIDE DEF n
    <2>4. Len(word) = 0
        <3>1. Len(word) \in Nat /\ DOMAIN word = 1..Len(word)
            BY <1>7, LenProperties
        <3> DEFINE l == Len(word)
        <3>2. 1..l = {}
            BY <1>7, <2>3, <3>1
        <3>3. l \in Nat
            BY <3>1
        <3> HIDE DEF l
        <3>4. l = 0
            BY <3>2, <3>3
        <3>5. QED
            BY <3>4 DEF l
    <2>5. QED
        BY <1>7, <2>4
<1>12. QED
    BY <1>6, <1>7, <1>8, <1>10, <1>11 DEF Pair

\* load() reads back what dump() wrote: every line of an entry gives that
\* entry.
LEMMA RoundTrip ==
    ASSUME NEW e, Sound(e), NEW line \in LinesOf(e)
    PROVE  line \in Lines /\ Read(line) = e
<1> DEFINE tag == e[1]
           k == e[2]
           c == e[3]
<1>1. PICK words \in Words(tag, c) : line = <<tag, k \o words>>
    BY DEF LinesOf
<1>2. /\ tag \in Tags /\ k \in Optional /\ c \in ContentOf(tag) /\ e = <<tag, k, c>>
      /\ k = <<>> => c = NoContent(tag)
    BY DEF Sound
<1>3. line[1] = tag /\ line[2] = k \o words
    BY <1>1
<1> HIDE DEF tag, k, c
<1>4. /\ Words("K", c) = {c}
      /\ Words("L", c) = {FlattenSeq(c)}
      /\ Words("H", c) =
            {FlattenSeq([i \in DOMAIN fields |-> PairWords(fields[i], c[fields[i]])]) :
                fields \in SetToSeqs(DOMAIN c)}
    BY Zenon DEF Words
<1>5. SUFFICES /\ words \in Seq(Word) /\ (k = <<>> => words = <<>>)
               /\ LoadContent(tag, k \o words) = c
    <2>1. k \o words \in Seq(Word) /\ WordAt(k \o words, 1) = k
        BY <1>2, <1>5, KeyFirst
    <2>2. line \in Lines
        BY <1>1, <1>2, <2>1 DEF Lines
    <2>3. QED
        BY <1>2, <1>3, <1>5, <2>1, <2>2 DEF Read
<1>6. CASE tag = "K"
    <2>1. words = c /\ c \in Optional /\ (k = <<>> => c = <<>>)
        BY <1>2, <1>4, <1>6, ContentTypes
    <2>2. c \in Seq(Word) /\ WordAt(c, 1) = c
        <3>1. CASE c = <<>>
            BY <3>1 DEF WordAt
        <3>2. CASE c # <<>>
            <4>1. PICK w \in Word : c = <<w>>
                BY <2>1, <3>2 DEF Optional, Plain
            <4>2. QED
                BY <4>1 DEF WordAt
        <3>3. QED
            BY <3>1, <3>2
    <2>3. WordAt(k \o words, 2) = c
        BY <1>2, <2>1, <2>2, KeyFirst
    <2>4. QED
        BY <1>6, <2>1, <2>2, <2>3, LoadContents
<1>7. CASE tag = "L"
    <2>1. words = FlattenSeq(c) /\ c \in Seq(Plain) /\ (k = <<>> => c = <<>>)
        BY <1>2, <1>4, <1>7, ContentTypes
    <2>2. words \in Seq(Word) /\ Len(words) = Len(c) /\ \A i \in DOMAIN c : c[i] = <<words[i]>>
        BY <2>1, ListWords
    <2>3. k = <<>> => words = <<>>
        <3>1. k = <<>> => Len(words) = 0
            BY <2>1, <2>2
        <3>2. QED
            BY <2>2, <3>1
    <2> DEFINE all == k \o words
    <2>4. /\ Len(all) - 1 = IF k = <<>> THEN -1 ELSE Len(words)
          /\ \A i \in 1..(Len(all) - 1) : all[i + 1] = words[i]
        BY <1>2, <2>2, <2>3, KeyFirst
    <2>5. 1..(Len(all) - 1) = 1..Len(c) /\ Len(c) \in Nat
        BY <2>1, <2>2, <2>4
    <2> HIDE DEF all
    <2>6. [i \in 1..(Len(all) - 1) |-> <<all[i + 1]>>] = c
        <3>1. \A i \in 1..Len(c) : <<all[i + 1]>> = c[i]
            BY <2>2, <2>4, <2>5, <2>1
        <3>2. c = [i \in 1..Len(c) |-> c[i]]
            BY <2>1
        <3>3. QED
            BY <2>5, <3>1, <3>2
    <2>7. LoadContent("L", all) = c
        BY <2>6, LoadContents
    <2>8. QED
        BY <1>7, <2>2, <2>3, <2>7 DEF all
<1>8. CASE tag = "H"
    <2>1. c \in HashMaps /\ (k = <<>> => c = EmptyMap)
        BY <1>2, <1>8, ContentTypes
    <2>2. PICK fields \in SetToSeqs(DOMAIN c) :
            words = FlattenSeq([i \in DOMAIN fields |-> PairWords(fields[i], c[fields[i]])])
        BY <1>4, <1>8
    <2>3. words \in Seq(Word) /\ LoadHash(words) = c /\ (c = EmptyMap => words = <<>>)
        BY <2>1, <2>2, HashWords
    <2>4. SubSeq(k \o words, 2, Len(k \o words)) = words
        BY <1>2, <2>1, <2>3, KeyFirst
    <2>5. QED
        BY <1>8, <2>1, <2>3, <2>4, LoadContents
<1>9. QED
    BY <1>2, <1>6, <1>7, <1>8 DEF Tags
-----------------------------------------------------------------------------
(* The file of a dump, whole or cut off. *)

\* One content for each type and key.
Functional(E) == \A e, d \in E : e[1] = d[1] /\ e[2] = d[2] => e = d

\* The lines of a file each give an entry of E.
AllFrom(lines, E) == \A i \in DOMAIN lines : Read(lines[i]) \in E

\* Some line of a file gives each entry of E.
AllIn(lines, E) == \A e \in E : \E i \in DOMAIN lines : Read(lines[i]) = e

\* What a line reads has the tag of the line.
LEMMA ReadParts ==
    ASSUME NEW line
    PROVE  Read(line)[1] = line[1]
BY DEF Read

\* Lines that give the entries of E, each at least once, load E, in any order.
LEMMA FileOfEntries ==
    ASSUME NEW lines \in Seq(Lines), NEW E, Functional(E),
           AllFrom(lines, E), AllIn(lines, E)
    PROVE  EntriesLoaded(lines) = E
<1>1. ASSUME NEW e \in EntriesLoaded(lines) PROVE e \in E
    BY LoadedEntries DEF AllFrom
<1>2. ASSUME NEW e \in E PROVE e \in EntriesLoaded(lines)
    <2> DEFINE places == {i \in DOMAIN lines : Read(lines[i]) = e}
    <2>1. Len(lines) \in Nat /\ places \in SUBSET (1..Len(lines)) /\ places # {}
        BY DEF AllIn
    <2>2. PICK i \in places : \A j \in places : i >= j
        BY <2>1, LastPosition
    <2>3. ASSUME NEW j \in DOMAIN lines, lines[j][1] = lines[i][1],
                 Read(lines[j])[2] = Read(lines[i])[2]
          PROVE  j =< i
        <3>1. Read(lines[j])[1] = e[1] /\ Read(lines[j])[2] = e[2]
            BY <2>3, ReadParts
        <3>2. Read(lines[j]) = e
            BY <3>1 DEF AllFrom, Functional
        <3>3. QED
            BY <2>2, <3>2
    <2>4. i \in DOMAIN lines /\ Read(lines[i]) = e /\ IsLast(lines, i)
        BY <2>3 DEF IsLast
    <2>5. QED
        BY <2>4, LoadedEntries
<1>3. QED
    BY <1>1, <1>2

\* A word that is cut is a word.
LEMMA CutWordsType ==
    ASSUME NEW w \in Word
    PROVE  CutWords(w) \subseteq Word
<1>1. w \in Seq(Parts) /\ Len(w) \in Nat
    BY DEF Word
<1>2. ASSUME NEW j \in 1..(Len(w) - 1)
      PROVE  /\ SubSeq(w, 1, j) \in Seq(Parts) \ {<<>>}
             /\ Append(SubSeq(w, 1, j), Empty) \in Word
    <2>1. SubSeq(w, 1, j) \in Seq(Parts) /\ Len(SubSeq(w, 1, j)) = j /\ j \in Nat /\ j >= 1
        BY <1>1
    <2>2. /\ Append(SubSeq(w, 1, j), Empty) \in Seq(Parts)
          /\ Len(Append(SubSeq(w, 1, j), Empty)) = j + 1
        BY <2>1 DEF Parts
    <2>3. SubSeq(w, 1, j) # <<>>
        BY <2>1
    <2> DEFINE cut == Append(SubSeq(w, 1, j), Empty)
    <2>4. Len(cut) = j + 1
        BY <2>2
    <2>5. Len(<<>>) = 0 /\ Len(<<Empty>>) = 1 /\ cut \in Seq(Parts)
        BY <2>2
    <2> HIDE DEF cut
    <2>6. QED
        <3>1. cut # <<>> /\ cut # <<Empty>>
            BY <2>1, <2>4, <2>5
        <3>2. QED
            BY <2>1, <2>3, <2>5, <3>1 DEF Word, cut
<1>3. ASSUME NEW j \in DOMAIN w, w[j] # Empty, NEW part \in Shorter[w[j]]
      PROVE  Append(SubSeq(w, 1, j - 1), part) \in Word
    <2>1. w[j] \in DOMAIN Shorter
        BY <1>1, <1>3 DEF Parts
    <2>2. part \in Parts /\ part # Empty
        BY <2>1, DumpFileAssumption DEF Parts
    <2>3. SubSeq(w, 1, j - 1) \in Seq(Parts) /\ j - 1 \in Nat
        BY <1>1
    <2> DEFINE left == SubSeq(w, 1, j - 1)
    <2> HIDE DEF left
    <2>4. left \in Seq(Parts)
        BY <2>3 DEF left
    <2>5. /\ Append(left, part) \in Seq(Parts)
          /\ Append(left, part)[Len(Append(left, part))] = part
          /\ Len(Append(left, part)) >= 1
        BY <2>2, <2>4
    <2> DEFINE cut == Append(left, part)
    <2> HIDE DEF cut
    <2>6. cut # <<>> /\ cut # <<Empty>>
        <3>1. Len(<<>>) = 0 /\ Len(<<Empty>>) = 1 /\ <<Empty>>[1] = Empty
            OBVIOUS
        <3>2. cut[Len(cut)] = part /\ Len(cut) >= 1
            BY <2>5 DEF cut
        <3>3. QED
            BY <2>2, <3>1, <3>2
    <2>7. QED
        BY <2>5, <2>6 DEF Word, left, cut
<1>4. ASSUME NEW c \in CutWords(w) PROVE c \in Word
    <2>1. \/ \E j \in 1..(Len(w) - 1) :
                \/ c = SubSeq(w, 1, j) /\ c # <<Empty>>
                \/ c = Append(SubSeq(w, 1, j), Empty)
          \/ \E j \in DOMAIN w : w[j] # Empty
                /\ \E part \in Shorter[w[j]] : c = Append(SubSeq(w, 1, j - 1), part)
        BY DEF CutWords
    <2>2. QED
        BY <1>2, <1>3, <2>1 DEF Word
<1>5. QED
    BY <1>4

\* A line that is cut is a line.
LEMMA CutLinesType ==
    ASSUME NEW line \in Lines
    PROVE  CutLines(line) \subseteq Lines
<1> DEFINE words == line[2]
<1>1. line[1] \in Tags /\ words \in Seq(Word) /\ Len(words) \in Nat
    BY DEF Lines
<1>2. ASSUME NEW n \in 0..(Len(words) - 1) PROVE SubSeq(words, 1, n) \in Seq(Word)
    BY <1>1
<1>3. ASSUME NEW n \in DOMAIN words, NEW word \in CutWords(words[n])
      PROVE  Append(SubSeq(words, 1, n - 1), word) \in Seq(Word)
    <2>1. word \in Word
        BY <1>1, CutWordsType
    <2>2. SubSeq(words, 1, n - 1) \in Seq(Word)
        BY <1>1
    <2>3. QED
        BY <2>1, <2>2
<1>4. ASSUME NEW cut \in CutLines(line)
      PROVE  \E s \in Seq(Word) : cut = <<line[1], s>>
    <2>1. \/ \E n \in 0..(Len(words) - 1) : cut = <<line[1], SubSeq(words, 1, n)>>
          \/ \E n \in DOMAIN words : \E word \in CutWords(words[n]) :
                cut = <<line[1], Append(SubSeq(words, 1, n - 1), word)>>
        BY DEF CutLines
    <2> HIDE DEF words
    <2>2. QED
        BY <1>2, <1>3, <2>1
<1>5. QED
    BY <1>1, <1>4 DEF Lines

\* A file that is cut has, but for its last line, lines that were written.
LEMMA CutFilesType ==
    ASSUME NEW lines \in Seq(Lines), NEW cut \in CutFiles(lines)
    PROVE  /\ cut \in Seq(Lines)
           /\ \A i \in DOMAIN cut : i # Len(cut) => i \in DOMAIN lines /\ cut[i] = lines[i]
<1>1. \/ \E n \in 0..Len(lines) : cut = SubSeq(lines, 1, n)
      \/ \E n \in DOMAIN lines : \E line \in CutLines(lines[n]) :
            cut = Append(SubSeq(lines, 1, n - 1), line)
    BY DEF CutFiles, Prefixes
<1>2. ASSUME NEW n \in 0..Len(lines), cut = SubSeq(lines, 1, n)
      PROVE  /\ cut \in Seq(Lines)
             /\ \A i \in DOMAIN cut : i \in DOMAIN lines /\ cut[i] = lines[i]
    BY <1>2
<1>3. ASSUME NEW n \in DOMAIN lines, NEW line \in CutLines(lines[n]),
             cut = Append(SubSeq(lines, 1, n - 1), line)
      PROVE  /\ cut \in Seq(Lines)
             /\ \A i \in DOMAIN cut : i # Len(cut) => i \in DOMAIN lines /\ cut[i] = lines[i]
    <2>1. line \in Lines
        BY CutLinesType
    <2>2. QED
        BY <1>3, <2>1
<1>4. QED
    BY <1>1, <1>2, <1>3

\* What a cut file loads and the written lines did not say comes from its last
\* line.
LEMMA CutDamage ==
    ASSUME NEW lines \in Seq(Lines), NEW E, AllFrom(lines, E),
           NEW cut \in CutFiles(lines)
    PROVE  \A e, d \in EntriesLoaded(cut) \ E : e = d
<1>1. cut \in Seq(Lines)
    BY CutFilesType
<1>2. ASSUME NEW e \in EntriesLoaded(cut) \ E PROVE e = Read(cut[Len(cut)])
    <2>1. PICK i \in DOMAIN cut : Read(cut[i]) = e
        BY <1>1, LoadedEntries
    <2>2. CASE i # Len(cut)
        <3>1. i \in DOMAIN lines /\ cut[i] = lines[i]
            BY <2>2, CutFilesType
        <3>2. QED
            BY <2>1, <3>1 DEF AllFrom
    <2>3. QED
        BY <2>1, <2>2
<1>3. QED
    BY <1>2

\* A set whose members are all equal has at most one.
LEMMA AtMostOne ==
    ASSUME NEW S, \A e, d \in S : e = d
    PROVE  Cardinality(S) =< 1
<1>1. CASE S = {}
    BY <1>1, FS_EmptySet
<1>2. CASE S # {}
    <2>1. PICK e \in S : TRUE
        BY <1>2
    <2>2. S = {e}
        BY <2>1
    <2>3. QED
        BY <2>2, FS_Singleton
<1>3. QED
    BY <1>1, <1>2
-----------------------------------------------------------------------------
(* What the commands leave in the store. *)

StoreSound ==
    /\ Table(kv_store, "K")
    /\ Table(list_store, "L")
    /\ Table(hash_store, "H")

\* m[k] = v for a key that is not empty.
LEMMA TablePut ==
    ASSUME NEW m, NEW tag, Table(m, tag), NEW k \in Plain, NEW v \in ContentOf(tag)
    PROVE  Table(Put(m, k, v), tag)
<1>1. k \in Optional /\ k # <<>>
    BY DEF Plain, Optional
<1>2. IsMap(Put(m, k, v), Optional, ContentOf(tag))
    BY <1>1, PutType DEF Table
<1>3. QED
    BY <1>1, <1>2 DEF Table, Put

\* m.erase(k)
LEMMA TableErase ==
    ASSUME NEW m, NEW tag, Table(m, tag), NEW k
    PROVE  Table(Erase(m, k), tag)
<1>1. IsMap(Erase(m, k), Optional, ContentOf(tag))
    BY EraseType DEF Table
<1>2. QED
    BY <1>1 DEF Table, Erase, Restrict

\* RENAME
LEMMA TableMove ==
    ASSUME NEW m, NEW tag, Table(m, tag), NEW old, NEW new \in Plain
    PROVE  Table(MoveEntry(m, old, new), tag)
<1>1. CASE old \in DOMAIN m
    <2>1. m[old] \in ContentOf(tag)
        BY <1>1 DEF Table, IsMap
    <2>2. QED
        BY <1>1, <2>1, TablePut, TableErase DEF MoveEntry
<1>2. CASE old \notin DOMAIN m
    BY <1>2 DEF MoveEntry
<1>3. QED
    BY <1>1, <1>2

\* A cleared table.
LEMMA TableEmpty ==
    ASSUME NEW tag
    PROVE  Table(EmptyMap, tag)
BY EmptyMapType DEF Table, EmptyMap

\* The hash tables are the finite maps of fields.
LEMMA HashMapsAreFinite ==
    ASSUME NEW h
    PROVE  h \in HashMaps <=> IsMap(h, FieldTexts, Optional) /\ IsFiniteSet(DOMAIN h)
BY DEF HashMaps, IsMap

\* A field added or removed leaves a finite map.
LEMMA HashMapsKept ==
    ASSUME NEW h \in HashMaps, NEW f, NEW v \in Optional
    PROVE  /\ f \in FieldTexts => Put(h, f, v) \in HashMaps
           /\ Erase(h, f) \in HashMaps
<1>1. IsMap(h, FieldTexts, Optional) /\ IsFiniteSet(DOMAIN h)
    BY HashMapsAreFinite
<1>2. IsFiniteSet(DOMAIN h \cup {f}) /\ IsFiniteSet(DOMAIN h \ {f})
    BY <1>1, FS_AddElement, FS_RemoveElement
<1>3. DOMAIN Put(h, f, v) = DOMAIN h \cup {f}
    BY DEF Put
<1>4. DOMAIN Erase(h, f) = DOMAIN h \ {f}
    BY DEF Erase, Restrict
<1>5. f \in FieldTexts => Put(h, f, v) \in HashMaps
    BY <1>1, <1>2, <1>3, PutType, HashMapsAreFinite
<1>6. Erase(h, f) \in HashMaps
    BY <1>1, <1>2, <1>4, EraseType, HashMapsAreFinite
<1>7. QED
    BY <1>5, <1>6

\* What a key holds has the type of its table.
LEMMA HeldType ==
    ASSUME StoreSound, NEW k
    PROVE  List(k) \in Seq(Plain) /\ Hash(k) \in HashMaps
<1>1. <<>> \in Seq(Plain) /\ EmptyMap \in HashMaps
    BY NoContentType, ContentTypes DEF Tags
<1>2. QED
    BY <1>1, ContentTypes DEF StoreSound, Table, IsMap, List, Hash, At

\* Storing a list under a key.
LEMMA SetListSound ==
    ASSUME StoreSound, NEW k \in Plain, NEW list \in Seq(Plain), SetList(k, list)
    PROVE  StoreSound'
BY TablePut, ContentTypes DEF SetList, StoreSound

\* Storing a hash table under a key.
LEMMA SetHashSound ==
    ASSUME StoreSound, NEW k \in Plain, NEW hash \in HashMaps, SetHash(k, hash)
    PROVE  StoreSound'
BY TablePut, ContentTypes DEF SetHash, StoreSound

\* Commands with plain strings leave plain strings, also in a store that a
\* restart loaded from a file cut off.
LEMMA CommandSound ==
    ASSUME PlainStrings, StoreSound, DBNext
    PROVE  StoreSound'
<1>0. Keys \subseteq Plain /\ Values \subseteq Plain /\ Values \subseteq Optional
      /\ Fields \subseteq FieldTexts
    BY DEF PlainStrings, Optional
<1>1. CASE FlushAll
    BY <1>1, TableEmpty DEF FlushAll, StoreSound
<1>2. CASE Tick
    BY <1>2 DEF Tick, stores, StoreSound
<1>3. ASSUME NEW k \in Keys, ReadCommand(k)
      PROVE  StoreSound'
    BY <1>0, <1>3, HeldType, SetListSound, SetHashSound DEF ReadCommand, TouchList, TouchHash
<1>4. ASSUME NEW k \in Keys, WriteCommand(k)
      PROVE  StoreSound'
    <2> DEFINE l == List(k)
    <2>0. k \in Plain /\ l \in Seq(Plain) /\ Hash(k) \in HashMaps
        BY <1>0, HeldType
    <2>1. CASE Del(k)
        BY <2>1, TableErase DEF Del, StoreSound
    <2>2. CASE LPop(k) \/ RPop(k)
        <3>1. l # <<>> => Tail(l) \in Seq(Plain) /\ Front(l) \in Seq(Plain)
            BY <2>0 DEF Front
        <3>2. QED
            BY <2>0, <2>2, <3>1, SetListSound DEF LPop, RPop, TouchList
    <2>3. ASSUME NEW seconds \in TTLs, Expire(k, seconds)
          PROVE  StoreSound'
        BY <2>3 DEF Expire, stores, StoreSound
    <2>4. ASSUME NEW new \in Keys, Rename(k, new)
          PROVE  StoreSound'
        BY <1>0, <2>4, TableMove DEF Rename, StoreSound
    <2>5. ASSUME NEW batch \in Batches, LPush(k, batch) \/ RPush(k, batch)
          PROVE  StoreSound'
        <3>1. batch \in Seq(Plain)
            BY <1>0, DatabaseAssumption
        <3>2. Reverse(batch) \in Seq(Plain)
            BY <3>1, ReverseType
        <3>3. Reverse(batch) \o l \in Seq(Plain) /\ l \o batch \in Seq(Plain)
            BY <2>0, <3>1, <3>2
        <3>4. QED
            BY <2>0, <2>5, <3>3, SetListSound DEF LPush, RPush
    <2>6. ASSUME NEW f \in Fields, HDel(k, f)
          PROVE  StoreSound'
        <3>1. <<>> \in Optional
            BY DEF Optional
        <3>2. Erase(Hash(k), f) \in HashMaps
            BY <2>0, <3>1, HashMapsKept
        <3>3. QED
            BY <2>0, <2>6, <3>2, SetHashSound DEF HDel
    <2>7. ASSUME NEW v \in Values, Set(k, v)
          PROVE  StoreSound'
        BY <1>0, <2>0, <2>7, TablePut, ContentTypes DEF Set, StoreSound
    <2>8. ASSUME NEW v \in Values, NEW index \in -1..MaxListLen, LSet(k, index, v)
          PROVE  StoreSound'
        <3>1. v \in Plain
            BY <1>0
        <3>2. ASSUME ~(index < 0 \/ index >= Len(l))
              PROVE  [l EXCEPT ![index + 1] = v] \in Seq(Plain)
            BY <2>0, <3>1, <3>2
        <3>3. QED
            BY <2>0, <2>8, <3>2, SetListSound DEF LSet, TouchList
    <2>9. ASSUME NEW v \in Values, NEW count \in Counts, LRem(k, count, v)
          PROVE  StoreSound'
        <3>1. PICK gone, e : /\ e \in Increasing(DOMAIN l \ gone)
                             /\ SetList(k, Select(l, e))
            BY <2>9 DEF LRem
        <3>2. Select(l, e) \in Seq(Plain)
            BY <2>0, <3>1, SelectType
        <3>3. QED
            BY <2>0, <3>1, <3>2, SetListSound
    <2>10. ASSUME NEW v \in Values, NEW f \in Fields, HSet(k, f, v)
           PROVE  StoreSound'
        <3>1. Put(Hash(k), f, v) \in HashMaps
            BY <1>0, <2>0, HashMapsKept
        <3>2. QED
            BY <2>0, <2>10, <3>1, SetHashSound DEF HSet
    <2>11. QED
        BY <1>4, <2>1, <2>2, <2>3, <2>4, <2>5, <2>6, <2>7, <2>8, <2>9, <2>10 DEF WriteCommand
<1>5. QED
    BY <1>1, <1>2, <1>3, <1>4 DEF DBNext

\* The entries of such a store, one for each type and key.
LEMMA EntriesSound ==
    ASSUME NEW strings, NEW sequences, NEW maps,
           Table(strings, "K"), Table(sequences, "L"), Table(maps, "H")
    PROVE  LET E == EntriesOf(strings, sequences, maps)
           IN  (\A e \in E : Sound(e)) /\ Functional(E)
<1> DEFINE Of(m, tag) == {<<tag, k, m[k]>> : k \in DOMAIN m}
           E == EntriesOf(strings, sequences, maps)
<1>1. E = Of(strings, "K") \cup Of(sequences, "L") \cup Of(maps, "H")
    BY DEF EntriesOf
<1>2. ASSUME NEW m, NEW tag \in Tags, Table(m, tag), NEW e \in Of(m, tag)
      PROVE  Sound(e) /\ e[1] = tag /\ e[2] \in DOMAIN m /\ e = <<tag, e[2], m[e[2]]>>
    <2>1. PICK k \in DOMAIN m : e = <<tag, k, m[k]>>
        OBVIOUS
    <2>2. k \in Optional /\ m[k] \in ContentOf(tag) /\ (k = <<>> => m[k] = NoContent(tag))
        BY <1>2 DEF Table, IsMap
    <2>3. QED
        BY <2>1, <2>2 DEF Sound
<1>3. "K" \in Tags /\ "L" \in Tags /\ "H" \in Tags
    BY DEF Tags
<1> HIDE DEF Of, E
<1>4. (\A e \in E : Sound(e)) /\ Functional(E)
    BY <1>1, <1>2, <1>3 DEF Functional
<1>5. QED
    BY <1>4 DEF E
-----------------------------------------------------------------------------
(* The invariant. *)

\* Store, file and dump are such as plain strings and restarts leave them.
\* While a dump goes on its lines say exactly what it has written; once it is
\* over, or the process restarted, the file loads what was dumped; and what a
\* file cut off loads beyond that is all one entry.
PersistenceInv ==
    /\ StoreSound
    /\ file \in Seq(Lines)
    /\ (\A e \in dumped : Sound(e)) /\ Functional(dumped)
    /\ pending \subseteq dumped
    /\ phase \in {"serving", "dumping", "down", "torn"}
    /\ phase # "dumping" => pending = {}
    /\ phase \in {"serving", "down"} => EntriesLoaded(file) = dumped
    /\ phase = "dumping" => AllFrom(file, dumped \ pending) /\ AllIn(file, dumped \ pending)
    /\ phase = "torn" => \A e, d \in EntriesLoaded(file) \ dumped : e = d
    /\ commands \in 0..MaxCommands

\* A server that has just started for the first time: no file, no entries.
LEMMA InitInv ==
    ASSUME Init
    PROVE  PersistenceInv
<1>1. StoreSound
    BY TableEmpty DEF Init, DBInit, StoreSound
<1>2. file = <<>> /\ file \in Seq(Lines) /\ DOMAIN file = {}
    BY DEF Init
<1>3. EntriesLoaded(file) = {}
    BY <1>2, LoadedEntries
<1>4. QED
    BY <1>1, <1>2, <1>3, PersistenceAssumption
    DEF Init, PersistenceInv, Functional

\* Every step keeps the invariant.
LEMMA StepInv ==
    ASSUME PlainStrings, PersistenceInv, [Next]_persistenceVars
    PROVE  PersistenceInv'
<1> USE DEF PersistenceInv
<1>1. CASE Command
    <2>1. StoreSound'
        BY <1>1, CommandSound DEF Command
    <2>2. UNCHANGED <<phase, file, pending, dumped>>
        BY <1>1 DEF Command
    <2>3. commands' \in 0..MaxCommands
        BY <1>1, PersistenceAssumption DEF Command
    <2>4. EntriesLoaded(file)' = EntriesLoaded(file)
        BY <2>2 DEF EntriesLoaded, LoadTable, Own
    <2>5. QED
        BY <2>1, <2>2, <2>3, <2>4
        DEF Functional, AllFrom, AllIn
<1>2. CASE DumpOpen
    <2>1. (\A e \in Entries : Sound(e)) /\ Functional(Entries)
        BY EntriesSound DEF StoreSound, Entries
    <2>2. /\ phase' = "dumping" /\ file' = <<>> /\ pending' = Entries /\ dumped' = Entries
          /\ UNCHANGED <<dbVars, commands>>
        BY <1>2 DEF DumpOpen
    <2>3. StoreSound'
        BY <2>2 DEF StoreSound, dbVars
    <2>4. file' \in Seq(Lines) /\ DOMAIN file' = {}
        BY <2>2
    <2>5. dumped' \ pending' = {}
        BY <2>2
    <2>6. AllFrom(file', dumped' \ pending') /\ AllIn(file', dumped' \ pending')
        BY <2>4, <2>5 DEF AllFrom, AllIn
    <2>7. QED
        BY <2>1, <2>2, <2>3, <2>4, <2>6 DEF Functional, AllFrom, AllIn
<1>3. CASE DumpEntry
    <2>1. PICK entry \in pending : /\ pending' = pending \ {entry}
                                   /\ \E line \in LinesOf(entry) : file' = Append(file, line)
        BY <1>3 DEF DumpEntry
    <2>2. PICK line \in LinesOf(entry) : file' = Append(file, line)
        BY <2>1
    <2>3. phase = "dumping" /\ UNCHANGED <<dbVars, phase, dumped, commands>>
        BY <1>3 DEF DumpEntry
    <2>4. line \in Lines /\ Read(line) = entry
        BY <2>1, RoundTrip
    <2>5. StoreSound'
        BY <2>3 DEF StoreSound, dbVars
    <2>6. /\ file' \in Seq(Lines) /\ Len(file') = Len(file) + 1
          /\ \A i \in DOMAIN file : i \in DOMAIN file' /\ file'[i] = file[i]
          /\ \A i \in DOMAIN file' : i \in DOMAIN file \/ i = Len(file')
          /\ Len(file') \in DOMAIN file' /\ file'[Len(file')] = line
        BY <2>2, <2>4
    <2>7. dumped' \ pending' = (dumped \ pending) \cup {entry}
        BY <2>1, <2>3
    <2>8. AllFrom(file', dumped' \ pending')
        BY <2>3, <2>4, <2>6, <2>7 DEF AllFrom
    <2>9. AllIn(file', dumped' \ pending')
        BY <2>3, <2>4, <2>6, <2>7 DEF AllIn
    <2>10. QED
        BY <2>1, <2>3, <2>5, <2>6, <2>8, <2>9 DEF Functional, AllFrom, AllIn
<1>4. CASE DumpClose
    <2>1. /\ phase = "dumping" /\ pending = {} /\ phase' = "serving"
          /\ UNCHANGED <<dbVars, file, pending, dumped, commands>>
        BY <1>4 DEF DumpClose
    <2>2. EntriesLoaded(file) = dumped
        BY <2>1, FileOfEntries
    <2>3. EntriesLoaded(file)' = dumped'
        BY <2>1, <2>2 DEF EntriesLoaded, LoadTable, Own
    <2>4. StoreSound'
        BY <2>1 DEF StoreSound, dbVars
    <2>5. QED
        BY <2>1, <2>3, <2>4 DEF Functional
<1>5. CASE Kill
    <2>1. /\ pending' = {} /\ kv_store' = EmptyMap /\ list_store' = EmptyMap
          /\ hash_store' = EmptyMap /\ UNCHANGED <<dumped, commands>>
        BY <1>5 DEF Kill
    <2>2. StoreSound'
        BY <2>1, TableEmpty DEF StoreSound
    <2>3. CASE phase = "serving"
        <3>1. phase' = "down" /\ file' = file
            BY <1>5, <2>3 DEF Kill
        <3>2. EntriesLoaded(file)' = dumped'
            BY <2>1, <2>3, <3>1 DEF EntriesLoaded, LoadTable, Own
        <3>3. QED
            BY <2>1, <2>2, <3>1, <3>2 DEF Functional
    <2>4. CASE phase = "dumping"
        <3>1. phase' = "torn" /\ file' \in CutFiles(file)
            BY <1>5, <2>4 DEF Kill
        <3>2. AllFrom(file, dumped)
            BY <2>4 DEF AllFrom
        <3>3. file' \in Seq(Lines) /\ \A e, d \in EntriesLoaded(file') \ dumped : e = d
            BY <3>1, <3>2, CutFilesType, CutDamage
        <3>4. \A e, d \in EntriesLoaded(file)' \ dumped' : e = d
            BY <2>1, <3>3 DEF EntriesLoaded, LoadTable, Own
        <3>5. QED
            BY <2>1, <2>2, <3>1, <3>3, <3>4 DEF Functional
    <2>5. QED
        BY <1>5, <2>3, <2>4 DEF Kill
<1>6. CASE Start
    <2>1. /\ phase' = "serving" /\ UNCHANGED <<file, pending, commands>>
          /\ kv_store' = LoadTable(file, "K")
          /\ list_store' = LoadTable(file, "L")
          /\ hash_store' = LoadTable(file, "H")
          /\ dumped' = Entries' /\ phase # "dumping"
        BY <1>6 DEF Start
    <2>2. StoreSound'
        BY <2>1, LoadedTable DEF StoreSound, Tags
    <2>3. (\A e \in Entries' : Sound(e)) /\ Functional(Entries')
        BY <2>2, EntriesSound DEF StoreSound, Entries
    <2>4. EntriesLoaded(file)' = dumped'
        BY <2>1 DEF EntriesLoaded, Entries, EntriesOf, LoadTable, Own
    <2>5. QED
        BY <2>1, <2>2, <2>3, <2>4 DEF Functional
<1>7. CASE UNCHANGED persistenceVars
    <2>1. /\ UNCHANGED <<kv_store, list_store, hash_store>>
          /\ UNCHANGED <<phase, file, pending, dumped, commands>>
        BY <1>7 DEF persistenceVars, dbVars
    <2>2. StoreSound'
        BY <2>1 DEF StoreSound
    <2>3. EntriesLoaded(file)' = EntriesLoaded(file)
        BY <2>1 DEF EntriesLoaded, LoadTable, Own
    <2>4. QED
        BY <2>1, <2>2, <2>3 DEF Functional, AllFrom, AllIn
<1>8. QED
    BY <1>1, <1>2, <1>3, <1>4, <1>5, <1>6, <1>7 DEF Next

\* The strings of entries and files are texts.
LEMMA OptionalTexts ==
    /\ Optional \subseteq Texts
    /\ FieldTexts \subseteq Texts
    /\ Seq(Plain) \subseteq Seq(Texts)
<1>0. <<>> \in Seq(Word) /\ \A w \in Word : <<w>> \in Seq(Word)
    OBVIOUS
<1>1. Plain \subseteq Texts /\ <<>> \in Texts
    BY <1>0 DEF Plain, Texts
<1>2. \A part \in DOMAIN Shorter : <<part>> \in Word
    <2> SUFFICES ASSUME NEW part \in DOMAIN Shorter PROVE <<part>> \in Word
        OBVIOUS
    <2>1. part # Empty /\ part \in Parts
        BY DumpFileAssumption DEF Parts
    <2>2. QED
        BY <2>1 DEF Word
<1>3. FieldTexts \subseteq Texts
    BY <1>0, <1>2 DEF FieldTexts, Texts
<1>4. QED
    BY <1>1, <1>3 DEF Optional

\* The invariant gives the types, whatever a restart loaded.
LEMMA InvTypes ==
    ASSUME PersistenceInv
    PROVE  TypeOK
<1>1. IsMap(kv_store, Texts, Texts)
    BY OptionalTexts, ContentTypes DEF PersistenceInv, StoreSound, Table, IsMap
<1>2. IsMap(list_store, Texts, Seq(Texts))
    BY OptionalTexts, ContentTypes DEF PersistenceInv, StoreSound, Table, IsMap
<1>3. DOMAIN hash_store \subseteq Texts
    BY OptionalTexts DEF PersistenceInv, StoreSound, Table, IsMap
<1>4. ASSUME NEW k \in DOMAIN hash_store PROVE IsMap(hash_store[k], Texts, Texts)
    <2>1. hash_store[k] \in HashMaps
        BY ContentTypes DEF PersistenceInv, StoreSound, Table, IsMap
    <2>2. IsMap(hash_store[k], FieldTexts, Optional)
        BY <2>1, HashMapsAreFinite
    <2>3. QED
        BY <2>2, OptionalTexts DEF IsMap
<1>5. QED
    BY <1>1, <1>2, <1>3, <1>4 DEF PersistenceInv, TypeOK

\* Tables keep their kinds over any number of lives of the server, for plain
\* strings, also where a file cut off has been loaded.
THEOREM PersistenceTypes ==
    ASSUME PlainStrings
    PROVE  Spec => []TypeOK
<1>1. Init => PersistenceInv
    BY InitInv
<1>2. PersistenceInv /\ [Next]_persistenceVars => PersistenceInv'
    BY PlainStrings, StepInv
<1>3. PersistenceInv => TypeOK
    BY InvTypes
<1>4. QED
    BY <1>1, <1>2, <1>3, PTL DEF Spec

\* A dump and a load are inverse to each other: whatever commands run while
\* the server lives, and however often it restarts, the file holds the entries
\* of the store as it was when the dump began, each with its content.
THEOREM DumpIsComplete ==
    ASSUME PlainStrings
    PROVE  Spec => []FileMatchesDump
<1>1. Init => PersistenceInv
    BY InitInv
<1>2. PersistenceInv /\ [Next]_persistenceVars => PersistenceInv'
    BY PlainStrings, StepInv
<1>3. ASSUME PersistenceInv PROVE FileMatchesDump
    <2>1. CASE phase \in {"serving", "down"}
        <3>1. EntriesLoaded(file) = dumped /\ pending = {}
            BY <1>3, <2>1 DEF PersistenceInv
        <3>2. QED
            BY <3>1 DEF FileMatchesDump
    <2>2. CASE phase = "dumping"
        <3>1. /\ file \in Seq(Lines) /\ Functional(dumped \ pending)
              /\ AllFrom(file, dumped \ pending) /\ AllIn(file, dumped \ pending)
            BY <1>3, <2>2 DEF PersistenceInv, Functional
        <3>2. EntriesLoaded(file) = dumped \ pending
            BY <3>1, FileOfEntries
        <3>3. QED
            BY <3>2 DEF FileMatchesDump
    <2>3. CASE phase = "torn"
        BY <2>3 DEF FileMatchesDump
    <2>4. QED
        BY <1>3, <2>1, <2>2, <2>3 DEF PersistenceInv
<1>4. PersistenceInv => FileMatchesDump
    BY <1>3
<1>5. QED
    BY <1>1, <1>2, <1>4, PTL DEF Spec

\* A process killed at any point of a dump leaves a file of which at most one
\* entry is not as the store had it.
THEOREM OneDamagedEntry ==
    ASSUME PlainStrings
    PROVE  Spec => []TornFileDamagesOneEntry
<1>1. Init => PersistenceInv
    BY InitInv
<1>2. PersistenceInv /\ [Next]_persistenceVars => PersistenceInv'
    BY PlainStrings, StepInv
<1>3. PersistenceInv => TornFileDamagesOneEntry
    BY AtMostOne DEF PersistenceInv, TornFileDamagesOneEntry
<1>4. QED
    BY <1>1, <1>2, <1>3, PTL DEF Spec
=============================================================================
