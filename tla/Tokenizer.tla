----------------------------- MODULE Tokenizer -----------------------------
(***************************************************************************)
(* The byte-level BPE tokenizer of src/front/tokenizer.cpp as functions:   *)
(* code points and the byte alphabet, the hand-written pre-tokenizer, the  *)
(* merge loop and the match of special tokens.                             *)
(*                                                                         *)
(* A text is a sequence of characters known only by their category; a      *)
(* token is the text it stands for, for the vocabulary maps one to one.    *)
(***************************************************************************)
EXTENDS Integers, Sequences, FiniteSets, SequencesExt, FiniteSetsExt

CONSTANTS
    Letter, Mark, Digit,  \* \p{L}, \p{M}, \p{N}
    Newline,              \* \r and \n
    Blank,                \* the rest of \s
    Space,                \* the blank ' ' that may open a chunk of punctuation
    Quote,                \* the apostrophe
    Short,                \* letters that make a contraction alone: 's, 't, 'm, 'd
    Long,                 \* pairs that make one together: 're, 've, 'll
    UserDefined, Control  \* texts of the special tokens of each type

ASSUME TokenizerAssumption ==
    /\ Space \in Blank
    /\ Newline \cap Blank = {}
    /\ \A sp \in UserDefined \cup Control : Len(sp) > 0

-----------------------------------------------------------------------------
(* Code points and bytes                                                   *)

\* The UTF-8 bytes of a code point.
AppendCp(cp) ==
    LET Tail6(x) == 128 + (x % 64)
    IN  CASE cp < 128 -> <<cp>>
          [] cp >= 128 /\ cp < 2048 -> <<192 + cp \div 64, Tail6(cp)>>
          [] cp >= 2048 /\ cp < 65536 -> <<224 + cp \div 4096, Tail6(cp \div 64), Tail6(cp)>>
          [] OTHER -> <<240 + cp \div 262144, Tail6(cp \div 4096), Tail6(cp \div 64), Tail6(cp)>>

\* Faulty variant: no code point has four bytes.
AnnouncedLow(c) == IF c >= 224 THEN 2 ELSE IF c >= 192 THEN 1 ELSE 0

\* How many continuation bytes a first byte announces.
Announced(c) ==
    CASE c >= 240 -> 3 [] c >= 224 /\ c < 240 -> 2 [] c >= 192 /\ c < 224 -> 1 [] OTHER -> 0

\* The code point at i and the index after it; a text may end inside it.
DecodeCp(s, i) ==
    LET n == Announced(s[i])
        last == Min({i + n, Len(s)})
        lead == CASE n = 3 -> s[i] % 8 [] n = 2 -> s[i] % 16 [] n = 1 -> s[i] % 32 [] OTHER -> s[i]
    IN  [cp |-> FoldLeft(LAMBDA cp, b : cp * 64 + (b % 64), lead, SubSeq(s, i + 1, last)),
         next |-> last + 1]

\* build_byte_map: printable bytes keep their code point, the others follow 255.
Printable(b) == b \in (33 .. 126) \cup (161 .. 172) \cup (174 .. 255)
ByteCp(b) == IF Printable(b) THEN b ELSE 256 + Cardinality({c \in 0 .. b - 1 : ~Printable(c)})

-----------------------------------------------------------------------------
(* The pre-tokenizer: the seven alternatives, each the index after its     *)
(* match at i, or i if it does not match                                   *)

White == Newline \cup Blank
Wordly == Letter \cup Mark
Symbol(c) == c \notin White \cup Wordly \cup Digit

\* The index after the longest run of characters of S from k on.
RunEnd(t, k, S) ==
    CHOOSE e \in k .. Len(t) + 1 :
        /\ \A x \in k .. e - 1 : t[x] \in S
        /\ e <= Len(t) => t[e] \notin S

Contraction(t, i) ==
    CASE t[i] = Quote /\ i < Len(t) /\ t[i + 1] \in Short -> i + 2
      [] t[i] = Quote /\ i + 1 < Len(t) /\ <<t[i + 1], t[i + 2]>> \in Long -> i + 3
      [] OTHER -> i

Word(t, i) ==
    LET prefixed == t[i] \notin Newline \cup Letter \cup Digit /\ i < Len(t) /\ t[i + 1] \in Wordly
        k == IF prefixed THEN i + 1 ELSE i
    IN  IF t[k] \in Wordly THEN RunEnd(t, k, Wordly) ELSE i

Number(t, i) == IF t[i] \in Digit THEN i + 1 ELSE i

Punctuation(t, i) ==
    LET k == IF t[i] = Space THEN i + 1 ELSE i
        e == RunEnd(t, k, {c \in ToSet(t) : Symbol(c)})
    IN  IF e > k THEN RunEnd(t, e, Newline) ELSE i

LineEnd(t, i) ==
    LET k == RunEnd(t, i, Blank)
    IN  IF k <= Len(t) /\ t[k] \in Newline THEN RunEnd(t, k, Newline) ELSE i

\* Faulty variant: a run of blanks is one chunk.
SpacesAll(t, i) == RunEnd(t, i, White)

\* \s+(?!\S), then \s+: the last blank before a word is left to the word.
Spaces(t, i) ==
    LET k == RunEnd(t, i, White) IN IF k <= Len(t) /\ k - i > 1 THEN k - 1 ELSE k

ChunkEnd(t, i) ==
    LET ends == <<Contraction(t, i), Word(t, i), Number(t, i), Punctuation(t, i),
                  LineEnd(t, i), Spaces(t, i), i + 1>>
    IN  ends[SelectInSeq(ends, LAMBDA e : e > i)]

Pretokenize(t) ==
    LET from[i \in 1 .. Len(t) + 1] ==
            LET Cut(e) == <<SubSeq(t, i, e - 1)>> \o from[e]
            IN  IF i > Len(t) THEN << >> ELSE Cut(ChunkEnd(t, i))
    IN  from[1]

-----------------------------------------------------------------------------
(* Byte-pair merges: a table is the sequence of pairs, best rank first     *)

\* The tokens of more than one character.
Vocabulary(table) == {m[1] \o m[2] : m \in ToSet(table)} \cup UserDefined \cup Control

\* Faulty variant: the leftmost pair of the table, whatever its rank.
LeftmostPair(sym, table) ==
    LET at == {i \in 1 .. Len(sym) - 1 : <<sym[i], sym[i + 1]>> \in ToSet(table)}
    IN  IF at = {} THEN 0 ELSE Min(at)

\* The leftmost place of the pair of the lowest rank, 0 if no pair is in the
\* table.
LowestPair(sym, table) ==
    LET At(m) == {i \in 1 .. Len(sym) - 1 : sym[i] = m[1] /\ sym[i + 1] = m[2]}
        r == SelectInSeq(table, LAMBDA m : At(m) # {})
    IN  IF r = 0 THEN 0 ELSE Min(At(table[r]))

\* One turn of the merge loop: the leftmost pair of the lowest rank.
MergeOnce(sym, table) ==
    LET i == LowestPair(sym, table)
    IN  IF i = 0 THEN sym
        ELSE SubSeq(sym, 1, i - 1) \o <<sym[i] \o sym[i + 1]>> \o SubSeq(sym, i + 2, Len(sym))

\* A chunk of the vocabulary is one token; each merge is one symbol less.
Bpe(chunk, table) ==
    IF chunk \in Vocabulary(table) THEN <<chunk>>
    ELSE FoldLeft(LAMBDA sym, c : MergeOnce(sym, table), [i \in DOMAIN chunk |-> <<chunk[i]>>], chunk)

-----------------------------------------------------------------------------
(* Special tokens                                                          *)

\* Faulty variant: a short special token hides the long ones it begins.
ShortestFirst(S) == SetToSortSeq(S, LAMBDA a, b : Len(a) < Len(b))

LongestFirst(S) == SetToSortSeq(S, LAMBDA a, b : Len(a) > Len(b))

\* The first special token whose text is at i, << >> if there is none.
SpecialAt(t, i, parseSpecial) ==
    LET list == LongestFirst(UserDefined) \o (IF parseSpecial THEN LongestFirst(Control) ELSE << >>)
        k == SelectInSeq(list, LAMBDA sp : IsPrefix(sp, SubSeq(t, i, Len(t))))
    IN  IF k = 0 THEN << >> ELSE list[k]

EncodePlain(span, table) ==
    LET chunks == Pretokenize(span)
    IN  FlattenSeq([c \in DOMAIN chunks |-> Bpe(chunks[c], table)])

Encode(t, parseSpecial, table) ==
    LET from[start \in 1 .. Len(t) + 1, i \in 1 .. Len(t) + 1] ==
            IF i > Len(t) THEN EncodePlain(SubSeq(t, start, Len(t)), table)
            ELSE LET sp == SpecialAt(t, i, parseSpecial) IN
                 IF sp = << >> THEN from[start, i + 1]
                 ELSE EncodePlain(SubSeq(t, start, i - 1), table)
                        \o <<sp>> \o from[i + Len(sp), i + Len(sp)]
    IN  from[1, 1]

\* The text of a sequence of tokens.
Decode(tokens) == FlattenSeq(tokens)
=============================================================================
