------------------------------ MODULE DumpFile ------------------------------
(***************************************************************************)
(* The text of dump.my_db: how Database::dump writes the entries of the    *)
(* store and what Database::load reads back.                               *)
(*                                                                         *)
(* A string is the sequence of its words, which blanks separate, and a     *)
(* word is the sequence of its parts, which colons separate: "" is <<>>,   *)
(* "a b" is <<<<a>>, <<b>>>> and "a:b" is <<<<a, b>>>>.  A part may be     *)
(* empty.  Line breaks inside a string are left out.                       *)
(***************************************************************************)
EXTENDS Collections

CONSTANTS
    Empty,   \* the part without characters
    Shorter  \* the proper, non-empty prefixes of every part

ASSUME DumpFileAssumption ==
    /\ Empty \notin DOMAIN Shorter
    /\ \A part \in DOMAIN Shorter : Shorter[part] \subseteq DOMAIN Shorter

Parts == DOMAIN Shorter \cup {Empty}

\* A word has a character; a text is any sequence of words.
Word == Seq(Parts) \ {<<>>, <<Empty>>}
Texts == Seq(Word)

\* What the store holds: the type, key and content of every entry.
EntriesOf(strings, lists, hashes) ==
    {<<"K", k, strings[k]>> : k \in DOMAIN strings}
        \cup {<<"L", k, lists[k]>> : k \in DOMAIN lists}
        \cup {<<"H", k, hashes[k]>> : k \in DOMAIN hashes}

-----------------------------------------------------------------------------
(* The text of an entry: a line is its tag and its words. *)

\* "field:value".  The last word of the field and the first of the value
\* become one word.
PairWords(f, v) ==
    LET left == IF f = <<>> THEN <<Empty>> ELSE Last(f)
        right == IF v = <<>> THEN <<Empty>> ELSE Head(v)
    IN  (IF f = <<>> THEN <<>> ELSE Front(f))
            \o <<left \o right>>
            \o (IF v = <<>> THEN <<>> ELSE Tail(v))

\* The words of each type of content; a hash table lists its fields in an
\* order of its own.
Words(tag, content) ==
    CASE tag = "K" -> {content}
      [] tag = "L" -> {FlattenSeq(content)}
      [] tag = "H" ->
            {FlattenSeq([i \in DOMAIN fields |->
                            PairWords(fields[i], content[fields[i]])]) :
                fields \in SetToSeqs(DOMAIN content)}

LinesOf(entry) ==
    {<<entry[1], entry[2] \o words>> : words \in Words(entry[1], entry[3])}
-----------------------------------------------------------------------------
(* What load makes of a file. *)

\* iss >> s: the next word, or nothing at the end of the line.
WordAt(words, i) == IF i \in DOMAIN words THEN <<words[i]>> ELSE <<>>

PartsText(parts) == IF parts = <<Empty>> THEN <<>> ELSE <<parts>>

\* A word without a colon is skipped; the first colon ends the field.
LoadHash(words) ==
    Assigned(EmptyMap, [i \in {i \in DOMAIN words : Len(words[i]) > 1} |->
        <<PartsText(<<Head(words[i])>>), PartsText(Tail(words[i]))>>])

LoadContent(tag, words) ==
    CASE tag = "K" -> WordAt(words, 2)
      [] tag = "L" -> [i \in 1..(Len(words) - 1) |-> <<words[i + 1]>>]
      [] tag = "H" -> LoadHash(SubSeq(words, 2, Len(words)))

\* The lines of a table.
Own(lines, tag) == {i \in DOMAIN lines : lines[i][1] = tag}

\* A slip: the list of one line not cleared before the next.
LoadTable_NoReset(lines, tag) ==
    LET rest(i) == FlattenSeq([j \in 1..i |->
                      IF j \in Own(lines, tag) THEN SubSeq(lines[j][2], 2, Len(lines[j][2]))
                      ELSE <<>>])
    IN  Assigned(EmptyMap, [i \in Own(lines, tag) |->
            <<WordAt(lines[i][2], 1), LoadContent(tag, WordAt(lines[i][2], 1) \o rest(i))>>])

LoadTable(lines, tag) ==
    Assigned(EmptyMap, [i \in Own(lines, tag) |->
        <<WordAt(lines[i][2], 1), LoadContent(tag, lines[i][2])>>])

EntriesLoaded(lines) ==
    EntriesOf(LoadTable(lines, "K"), LoadTable(lines, "L"), LoadTable(lines, "H"))
-----------------------------------------------------------------------------
(* What may be left of a file when its writer is killed: the output buffer *)
(* reaches the disk in blocks, which end anywhere.                         *)

\* A word cut somewhere: before a colon, after it, or inside a part.
CutWords(word) ==
    ({SubSeq(word, 1, j) : j \in 1..(Len(word) - 1)} \ {<<Empty>>})
        \cup {Append(SubSeq(word, 1, j), Empty) : j \in 1..(Len(word) - 1)}
        \cup UNION {{Append(SubSeq(word, 1, j - 1), part) : part \in Shorter[word[j]]} :
                        j \in {i \in DOMAIN word : word[i] # Empty}}

CutLines(line) ==
    LET words == line[2]
    IN  {<<line[1], SubSeq(words, 1, n)>> : n \in 0..(Len(words) - 1)}
            \cup UNION {{<<line[1], Append(SubSeq(words, 1, n - 1), word)>> :
                            word \in CutWords(words[n])} : n \in DOMAIN words}

CutFiles(lines) ==
    Prefixes(lines)
        \cup UNION {{Append(SubSeq(lines, 1, n - 1), line) :
                        line \in CutLines(lines[n])} : n \in DOMAIN lines}
=============================================================================
