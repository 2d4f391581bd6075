-------------------------- MODULE AlgorithmsProofs --------------------------
(***************************************************************************)
(* Two of the pure algorithms, for every input.  What append_cp writes,    *)
(* decode_cp reads, for every code point of Unicode, and no two bytes      *)
(* share a symbol: the values decode_cp goes through are computed one byte *)
(* after the other.  The tiles of a prefill pass hold every slot exactly   *)
(* once, each with its own expert, and fit the device buffer, for every    *)
(* routing of any number of rows: the slots are sorted first, then the     *)
(* tiles are cut one position after the other, and what holds of the first *)
(* k of them (Sorted, CutUp) holds of one more.                            *)
(***************************************************************************)
EXTENDS Algorithms, SequenceFacts, FiniteSetTheorems

-----------------------------------------------------------------------------
(* Code points.                                                            *)

\* One more continuation byte, and all of xs.
Grown(cp, b) == cp * 64 + (b % 64)
Continued(lead, xs) == FoldLeft(LAMBDA cp, b : cp * 64 + (b % 64), lead, xs)

\* The bytes are taken one after the other.
Taken(f, lead, xs, m) ==
    f[0] = lead /\ f[m] = Continued(lead, xs) /\ \A i \in 1 .. m : f[i] = Grown(f[i - 1], xs[i])

\* The fold over the bytes of DecodeCp is a function of how many were taken.
LEMMA OneByOne ==
    ASSUME NEW lead \in Nat, NEW xs \in Seq(Nat), NEW m \in Nat, m = Len(xs)
    PROVE  \E f : Taken(f, lead, xs, m)
<1> DEFINE Body(g, S) == IF S = {} THEN lead ELSE Grown(g[S \ {Max(S)}], xs[Max(S)])
           fold == CHOOSE g : g = [S \in SUBSET (DOMAIN xs) |-> Body(g, S)]
           step == [i \in 1 .. m |-> [cp \in Nat |-> Grown(cp, xs[i])]]
<1>1. DOMAIN xs = 1 .. m /\ \A i \in 1 .. m : xs[i] \in Nat
    OBVIOUS
<1>2. Continued(lead, xs) = fold[DOMAIN xs]
    BY Zenon DEF Continued, Grown, FoldLeft, MapThenFoldSet
<1>3. step \in [1 .. m -> [Nat -> Nat]]
    <2>1. \A i \in 1 .. m, cp \in Nat : Grown(cp, xs[i]) \in Nat
        BY <1>1 DEF Grown
    <2> QED
        BY <2>1, Zenon
<1> HIDE DEF step
<1>4. PICK g : FoldsOver(g, Nat, lead, m, step)
    BY <1>3, FoldExists, Zenon
<1>5. \A S \in SUBSET (1 .. m) : g[S] = Body(g, S)
    <2> TAKE S \in SUBSET (1 .. m)
    <2>1. CASE S # {}
        <3>1. S \subseteq 0 .. m /\ m \in Nat
            OBVIOUS
        <3>2. Max(S) \in S
            BY <2>1, <3>1, MaxIn, Zenon
        <3>3. Max(S) \in 1 .. m /\ S \ {Max(S)} \in SUBSET (1 .. m)
            BY <3>2, Zenon
        <3>4. g[S \ {Max(S)}] \in Nat
            BY <1>4, <3>3, Zenon DEF FoldsOver
        <3> QED
            BY <1>4, <2>1, <3>3, <3>4, Zenon DEF step, FoldsOver
    <2> QED
        BY <1>4, <2>1, Zenon DEF FoldsOver
<1>6. \A S \in SUBSET (1 .. m) : fold[S] = Body(fold, S)
    <2>1. g = [S \in SUBSET (DOMAIN xs) |-> Body(g, S)]
        <3>1. g = [S \in SUBSET (1 .. m) |-> g[S]]
            BY <1>4, Zenon DEF FoldsOver
        <3> QED
            BY <1>1, <1>5, <3>1, Zenon
    <2>2. fold = [S \in SUBSET (DOMAIN xs) |-> Body(fold, S)]
        BY <2>1, Zenon
    <2> QED
        BY <1>1, <2>2, Zenon
<1> HIDE DEF fold
<1> DEFINE f == [i \in 0 .. m |-> fold[1 .. i]]
<1>7. f[0] = lead
    <2>1. (1 .. 0) = {} /\ {} \in SUBSET (1 .. m) /\ 0 \in 0 .. m
        OBVIOUS
    <2>2. fold[{}] = lead
        BY <1>6, <2>1, Zenon
    <2> QED
        BY <2>1, <2>2
<1>8. f[m] = fold[1 .. m]
    OBVIOUS
<1>9. ASSUME NEW i \in 1 .. m
      PROVE  f[i] = Grown(f[i - 1], xs[i])
    <2>1. /\ (1 .. i) \in SUBSET (1 .. m) /\ (1 .. i) # {} /\ i \in 0 .. m /\ i - 1 \in 0 .. m
          /\ Max(1 .. i) = i /\ (1 .. i) \ {Max(1 .. i)} = 1 .. i - 1
        BY FirstNumbers, Zenon
    <2> QED
        BY <1>6, <2>1, Zenon
<1> HIDE DEF f
<1> QED
    BY <1>1, <1>2, <1>7, <1>8, <1>9, Zenon DEF Taken

\* What a first byte that announces n more holds of the code point.
Lead(n, c) == CASE n = 3 -> c % 8 [] n = 2 -> c % 16 [] n = 1 -> c % 32 [] OTHER -> c

\* s is one character of n continuation bytes, lead what its first byte holds.
Character(s, n, lead) ==
    /\ s \in Seq(Nat) /\ n \in Nat /\ lead \in Nat
    /\ Len(s) = n + 1
    /\ n = Announced(s[1])
    /\ lead = Lead(n, s[1])

\* f are the values decode_cp goes through.
Decoded(f, s, n, lead) ==
    /\ f[0] = lead
    /\ \A i \in 1 .. n : f[i] = Grown(f[i - 1], s[1 + i])
    /\ DecodeCp(s, 1) = [cp |-> f[n], next |-> Len(s) + 1]

\* A whole character is decoded with all of its bytes.
LEMMA DecodesAll ==
    ASSUME NEW s, NEW n, NEW lead, Character(s, n, lead)
    PROVE  \E f : Decoded(f, s, n, lead)
<1> DEFINE xs == SubSeq(s, 1 + 1, 1 + n)
<1>0. s \in Seq(Nat) /\ n \in Nat /\ lead \in Nat /\ Len(s) = n + 1 /\ n = Announced(s[1]) /\ lead = Lead(n, s[1])
    BY DEF Character
<1>1. xs \in Seq(Nat) /\ Len(xs) = n /\ \A i \in 1 .. n : xs[i] = s[1 + i]
    <2>1. 1 \in Nat /\ 1 + n <= Len(s)
        BY <1>0
    <2>2. s \in Seq(Nat) /\ n \in Nat
        BY <1>0, Zenon
    <2> QED
        BY ONLY <2>1, <2>2, Section, SMT
<1> HIDE DEF xs
<1>2. PICK f : Taken(f, lead, xs, n)
    <2>1. lead \in Nat /\ xs \in Seq(Nat) /\ n \in Nat /\ n = Len(xs)
        BY <1>0, <1>1, Zenon
    <2> QED
        BY ONLY <2>1, OneByOne, Zenon
<1>3. Min({1 + n, Len(s)}) = 1 + n
    <2>1. {1 + n, Len(s)} \subseteq Nat /\ {1 + n, Len(s)} # {} /\ \A x \in {1 + n, Len(s)} : x = 1 + n
        BY <1>0
    <2> QED
        BY <2>1, MinIn, Zenon
<1>4. (1 + n) + 1 = Len(s) + 1
    BY <1>0
<1>5. DecodeCp(s, 1) = [cp |-> Continued(lead, xs), next |-> (1 + n) + 1]
    BY <1>0, <1>3, Zenon DEF DecodeCp, Continued, Lead, xs
<1>6. \A i \in 1 .. n : f[i] = Grown(f[i - 1], s[1 + i])
    BY <1>1, <1>2, Zenon DEF Taken
<1>7. Decoded(f, s, n, lead)
    BY <1>2, <1>4, <1>5, <1>6, Zenon DEF Decoded, Taken
<1> QED
    BY <1>7, Zenon

\* What is left of a character is read to the end of the text.
ReadToEnd(s) == \A m \in 1 .. Len(s) : DecodeCp(SubSeq(s, 1, m), 1).next = m + 1

\* Wherever the text ends in a character, decode_cp stops there.
LEMMA StopsAtEnd ==
    ASSUME NEW s, NEW n, NEW lead, Character(s, n, lead)
    PROVE  ReadToEnd(s)
<1>0. s \in Seq(Nat) /\ n \in Nat /\ Len(s) = n + 1 /\ n = Announced(s[1])
    BY DEF Character
<1>1. SUFFICES ASSUME NEW m \in 1 .. Len(s)
               PROVE  DecodeCp(SubSeq(s, 1, m), 1).next = m + 1
    BY Zenon DEF ReadToEnd
<1> DEFINE cut == SubSeq(s, 1, m)
<1>2. Len(cut) = m /\ cut[1] = s[1]
    BY <1>0
<1> HIDE DEF cut
<1>3. DecodeCp(cut, 1).next = Min({1 + n, m}) + 1
    BY <1>0, <1>2, Zenon DEF DecodeCp
<1>4. Min({1 + n, m}) = m
    <2>1. {1 + n, m} \subseteq Nat /\ {1 + n, m} # {} /\ m <= 1 + n
        BY <1>0
    <2>2. Min({1 + n, m}) \in {1 + n, m} /\ Min({1 + n, m}) <= m
        BY ONLY <2>1, MinIn, Zenon
    <2> QED
        BY <2>1, <2>2
<1> QED
    BY <1>3, <1>4, Zenon DEF cut

\* A continuation byte of six bits.
More(x) == 128 + (x % 64)

\* A continuation byte is one that decode_cp takes for one.
LEMMA MoreIs ==
    ASSUME NEW x \in Nat
    PROVE  More(x) \in 128 .. 191
BY SMT DEF More

\* The numbers of two, three and four bytes, taken apart and put together.
LEMMA Bytes2 ==
    ASSUME NEW cp \in Nat, cp >= 128, cp < 2048
    PROVE  cp \div 64 \in 2 .. 31 /\ Grown(cp \div 64, More(cp)) = cp
BY SMT DEF Grown, More

LEMMA Bytes3 ==
    ASSUME NEW cp \in Nat, cp >= 2048, cp < 65536
    PROVE  cp \div 4096 \in 0 .. 15 /\ cp \div 64 \in Nat
           /\ Grown(Grown(cp \div 4096, More(cp \div 64)), More(cp)) = cp
BY SMT DEF Grown, More

LEMMA Bytes4 ==
    ASSUME NEW cp \in Nat, cp >= 65536, cp <= 1114111
    PROVE  cp \div 262144 \in 0 .. 4 /\ cp \div 4096 \in Nat /\ cp \div 64 \in Nat
           /\ Grown(Grown(Grown(cp \div 262144, More(cp \div 4096)), More(cp \div 64)), More(cp)) = cp
BY SMT DEF Grown, More

\* What append_cp writes, decode_cp reads.
Survives(cp, s) ==
    /\ DecodeCp(s, 1) = [cp |-> cp, next |-> Len(s) + 1]
    /\ ReadToEnd(s)
    /\ \A b \in 1 .. Len(s) : s[b] \in 0 .. 255

\* One byte, of 7 bits.
LEMMA Survives1 ==
    ASSUME NEW a \in 0 .. 127
    PROVE  Survives(a, <<a>>)
<1> DEFINE s == <<a>>
<1>1. s \in Seq(Nat) /\ Len(s) = 0 + 1 /\ s[1] = a
    OBVIOUS
<1>2. \A b \in 1 .. Len(s) : s[b] \in 0 .. 255
    OBVIOUS
<1> HIDE DEF s
<1>3. 0 = Announced(a) /\ a = Lead(0, a)
    BY DEF Announced, Lead
<1>4. Character(s, 0, a)
    BY <1>1, <1>3 DEF Character
<1>5. PICK f : Decoded(f, s, 0, a)
    BY <1>4, DecodesAll, Zenon
<1> QED
    BY <1>2, <1>4, <1>5, StopsAtEnd, Zenon DEF Survives, Decoded, s

\* Two bytes, of 5 and 6 bits.
LEMMA Survives2 ==
    ASSUME NEW a \in 0 .. 31, NEW b \in 128 .. 191
    PROVE  Survives(Grown(a, b), <<192 + a, b>>)
<1> DEFINE s == <<192 + a, b>>
<1>1. s \in Seq(Nat) /\ Len(s) = 1 + 1 /\ s[1] = 192 + a /\ s[1 + 1] = b
    OBVIOUS
<1>2. \A i \in 1 .. Len(s) : s[i] \in 0 .. 255
    OBVIOUS
<1> HIDE DEF s
<1>3. 1 = Announced(192 + a) /\ a = Lead(1, 192 + a)
    BY DEF Announced, Lead
<1>4. Character(s, 1, a)
    BY <1>1, <1>3 DEF Character
<1>5. PICK f : Decoded(f, s, 1, a)
    BY <1>4, DecodesAll, Zenon
<1>6. f[0] = a /\ f[1] = Grown(f[0], s[1 + 1])
    BY <1>5, SMT DEF Decoded
<1> QED
    BY <1>1, <1>2, <1>4, <1>5, <1>6, StopsAtEnd, Zenon DEF Survives, Decoded, s

\* s is cp in three bytes, of the bits a, b and c.
Three(cp, s, a, b, c) ==
    /\ a \in 0 .. 15 /\ {b, c} \subseteq 128 .. 191
    /\ cp = Grown(Grown(a, b), c)
    /\ s = <<224 + a, b, c>>

\* Three bytes, of 4 bits and twice 6.
LEMMA Survives3 ==
    ASSUME NEW cp, NEW s, NEW a, NEW b, NEW c, Three(cp, s, a, b, c)
    PROVE  Survives(cp, s)
<1>0. /\ a \in 0 .. 15 /\ b \in 128 .. 191 /\ c \in 128 .. 191
      /\ cp = Grown(Grown(a, b), c) /\ s = <<224 + a, b, c>>
    BY DEF Three
<1>1. s \in Seq(Nat) /\ Len(s) = 2 + 1 /\ s[1] = 224 + a /\ s[1 + 1] = b /\ s[1 + 2] = c
    BY <1>0
<1>2. \A i \in 1 .. Len(s) : s[i] \in 0 .. 255
    BY <1>0
<1>3. 2 = Announced(224 + a) /\ a = Lead(2, 224 + a)
    BY <1>0 DEF Announced, Lead
<1>4. Character(s, 2, a)
    BY <1>0, <1>1, <1>3 DEF Character
<1>5. PICK f : Decoded(f, s, 2, a)
    BY <1>4, DecodesAll, Zenon
<1>6. f[0] = a /\ f[1] = Grown(f[0], s[1 + 1]) /\ f[2] = Grown(f[1], s[1 + 2])
    BY <1>5, SMT DEF Decoded
<1>7. f[2] = Grown(Grown(a, b), c)
    BY <1>1, <1>6, Zenon
<1>8. DecodeCp(s, 1) = [cp |-> f[2], next |-> Len(s) + 1]
    BY <1>5, Zenon DEF Decoded
<1>9. Survives(f[2], s)
    BY <1>2, <1>4, <1>8, StopsAtEnd, Zenon DEF Survives
<1> QED
    BY <1>0, <1>7, <1>9, Zenon

\* s is cp in four bytes.
Four(cp, s, a, b, c, d) ==
    /\ a \in 0 .. 7 /\ {b, c, d} \subseteq 128 .. 191
    /\ cp = Grown(Grown(Grown(a, b), c), d)
    /\ s = <<240 + a, b, c, d>>

\* Four bytes, of 3 bits and three times 6.
LEMMA Survives4 ==
    ASSUME NEW cp, NEW s, NEW a, NEW b, NEW c, NEW d, Four(cp, s, a, b, c, d)
    PROVE  Survives(cp, s)
<1>0. /\ a \in 0 .. 7 /\ b \in 128 .. 191 /\ c \in 128 .. 191 /\ d \in 128 .. 191
      /\ cp = Grown(Grown(Grown(a, b), c), d) /\ s = <<240 + a, b, c, d>>
    BY DEF Four
<1>1. s \in Seq(Nat) /\ Len(s) = 3 + 1 /\ s[1] = 240 + a /\ s[1 + 1] = b /\ s[1 + 2] = c /\ s[1 + 3] = d
    BY <1>0
<1>2. \A i \in 1 .. Len(s) : s[i] \in 0 .. 255
    BY <1>0
<1>3. 3 = Announced(240 + a) /\ a = Lead(3, 240 + a)
    BY <1>0 DEF Announced, Lead
<1>4. Character(s, 3, a)
    BY <1>0, <1>1, <1>3 DEF Character
<1>5. PICK f : Decoded(f, s, 3, a)
    BY <1>4, DecodesAll, Zenon
<1>6. f[0] = a /\ f[1] = Grown(f[0], s[1 + 1]) /\ f[2] = Grown(f[1], s[1 + 2]) /\ f[3] = Grown(f[2], s[1 + 3])
    BY <1>5, SMT DEF Decoded
<1>7. f[3] = Grown(Grown(Grown(a, b), c), d)
    BY <1>1, <1>6, Zenon
<1>8. DecodeCp(s, 1) = [cp |-> f[3], next |-> Len(s) + 1]
    BY <1>5, Zenon DEF Decoded
<1>9. Survives(f[3], s)
    BY <1>2, <1>4, <1>8, StopsAtEnd, Zenon DEF Survives
<1> QED
    BY <1>0, <1>7, <1>9, Zenon

\* Every code point of Unicode has one of the four lengths (tokenizer.cpp:11-26).
LEMMA CpSurvives ==
    ASSUME NEW cp \in Nat, cp <= 1114111
    PROVE  Survives(cp, AppendCp(cp))
<1>0. cp \in Nat /\ cp <= 1114111
    OBVIOUS
<1>1. CASE cp < 128
    <2>1. AppendCp(cp) = <<cp>> /\ cp \in 0 .. 127
        BY <1>0, <1>1, SMT DEF AppendCp
    <2> QED
        BY ONLY <2>1, Survives1, Zenon
<1>2. CASE cp >= 128 /\ cp < 2048
    <2>1. AppendCp(cp) = <<192 + cp \div 64, More(cp)>>
        BY <1>0, <1>2, SMT DEF AppendCp, More
    <2>2. cp \div 64 \in 0 .. 31 /\ More(cp) \in 128 .. 191 /\ Grown(cp \div 64, More(cp)) = cp
        BY <1>0, <1>2, Bytes2, MoreIs
    <2> QED
        BY ONLY <2>1, <2>2, Survives2, Zenon
<1>3. CASE cp >= 2048 /\ cp < 65536
    <2>1. AppendCp(cp) = <<224 + cp \div 4096, More(cp \div 64), More(cp)>>
        BY <1>0, <1>3, SMT DEF AppendCp, More
    <2>2. cp \div 4096 \in 0 .. 15 /\ cp \div 64 \in Nat
          /\ Grown(Grown(cp \div 4096, More(cp \div 64)), More(cp)) = cp
        BY <1>0, <1>3, Bytes3, SMT
    <2>3. More(cp) \in 128 .. 191 /\ More(cp \div 64) \in 128 .. 191
        BY <1>0, <2>2, MoreIs, SMT
    <2> DEFINE a == cp \div 4096
               b == More(cp \div 64)
               c == More(cp)
    <2>4. /\ a \in 0 .. 15 /\ b \in 128 .. 191 /\ c \in 128 .. 191
          /\ Grown(Grown(a, b), c) = cp /\ AppendCp(cp) = <<224 + a, b, c>>
        BY ONLY <2>1, <2>2, <2>3, SMT
    <2> HIDE DEF a, b, c
    <2>5. Three(cp, AppendCp(cp), a, b, c)
        BY ONLY <2>4, SMT DEF Three
    <2> QED
        BY ONLY <2>5, Survives3, Zenon
<1>4. CASE cp >= 65536
    <2>1. AppendCp(cp) = <<240 + cp \div 262144, More(cp \div 4096), More(cp \div 64), More(cp)>>
        BY <1>0, <1>4, SMT DEF AppendCp, More
    <2>2. cp \div 262144 \in 0 .. 4 /\ cp \div 4096 \in Nat /\ cp \div 64 \in Nat
          /\ Grown(Grown(Grown(cp \div 262144, More(cp \div 4096)), More(cp \div 64)), More(cp)) = cp
        BY <1>0, <1>4, Bytes4, SMT
    <2>3. More(cp) \in 128 .. 191 /\ More(cp \div 64) \in 128 .. 191 /\ More(cp \div 4096) \in 128 .. 191
        BY <1>0, <2>2, MoreIs, SMT
    <2> DEFINE a == cp \div 262144
               b == More(cp \div 4096)
               c == More(cp \div 64)
               d == More(cp)
    <2>4. /\ a \in 0 .. 7 /\ b \in 128 .. 191 /\ c \in 128 .. 191 /\ d \in 128 .. 191
          /\ Grown(Grown(Grown(a, b), c), d) = cp /\ AppendCp(cp) = <<240 + a, b, c, d>>
        BY ONLY <2>1, <2>2, <2>3, SMT
    <2> HIDE DEF a, b, c, d
    <2>5. Four(cp, AppendCp(cp), a, b, c, d)
        BY ONLY <2>4, SMT DEF Four
    <2> QED
        BY ONLY <2>5, Survives4, Zenon
<1> QED
    BY <1>0, <1>1, <1>2, <1>3, <1>4, SMT

\* The bytes before b that do not print.
Hidden(b) == {c \in 0 .. b - 1 : ~Printable(c)}

\* Two bytes, the lower one first.
Lower(a, b) == a \in 0 .. 255 /\ b \in 0 .. 255 /\ a < b

\* No two bytes share a symbol: one that prints keeps its own, the others are counted
\* on from 256 (tokenizer.cpp:40-47).
LEMMA ByteCpDiffers ==
    ASSUME NEW a, NEW b, Lower(a, b)
    PROVE  ByteCp(a) # ByteCp(b)
<1>0. a \in 0 .. 255 /\ b \in 0 .. 255 /\ a < b
    BY DEF Lower
<1>1. \A c \in 0 .. 255 : IsFiniteSet(Hidden(c)) /\ Cardinality(Hidden(c)) \in Nat
    <2> TAKE c \in 0 .. 255
    <2>1. Hidden(c) \subseteq Nat /\ \A x \in Hidden(c) : x <= c
        BY DEF Hidden
    <2>2. IsFiniteSet(Hidden(c))
        BY <2>1, FS_BoundedSetOfNaturals
    <2> QED
        BY <2>2, FS_CardinalityType
<1>2. \A c \in 0 .. 255 : ByteCp(c) = IF Printable(c) THEN c ELSE 256 + Cardinality(Hidden(c))
    BY Zenon DEF ByteCp, Hidden
<1>3. CASE ~Printable(a) /\ ~Printable(b)
    <2>1. Hidden(a) \cup {a} \subseteq Hidden(b) /\ a \notin Hidden(a)
        BY <1>0, <1>3 DEF Hidden
    <2>2. IsFiniteSet(Hidden(a) \cup {a}) /\ Cardinality(Hidden(a) \cup {a}) = Cardinality(Hidden(a)) + 1
        BY <1>0, <1>1, <2>1, FS_AddElement
    <2>3. Cardinality(Hidden(a) \cup {a}) <= Cardinality(Hidden(b))
        BY <1>0, <1>1, <2>1, FS_Subset
    <2> DEFINE x == Cardinality(Hidden(a))
               y == Cardinality(Hidden(b))
    <2>4. x \in Nat /\ y \in Nat /\ x + 1 <= y
        BY <1>0, <1>1, <2>2, <2>3, Zenon
    <2>5. ByteCp(a) = 256 + x /\ ByteCp(b) = 256 + y
        BY <1>0, <1>2, <1>3, Zenon
    <2> HIDE DEF x, y
    <2> QED
        BY ONLY <2>4, <2>5, SMT
<1>4. CASE Printable(a) \/ Printable(b)
    <2> DEFINE x == Cardinality(Hidden(a))
               y == Cardinality(Hidden(b))
    <2>1. x \in Nat /\ y \in Nat
        BY <1>0, <1>1, Zenon
    <2>2. /\ ByteCp(a) = IF Printable(a) THEN a ELSE 256 + x
          /\ ByteCp(b) = IF Printable(b) THEN b ELSE 256 + y
        BY <1>0, <1>2, Zenon
    <2> HIDE DEF x, y
    <2> QED
        BY <1>0, <1>4, <2>1, <2>2, SMT
<1> QED
    BY <1>3, <1>4, Zenon

\* What a code point keeps, for every code point.
LEMMA CodePointsKept ==
    ASSUME NEW cp \in CodePoints
    PROVE  /\ Survives(cp, AppendCp(cp))
           /\ cp \in 0 .. 255 => \A b \in (0 .. 255) \ {cp} : ByteCp(b) # ByteCp(cp)
<1>1. LastCodePoint \in Nat /\ LastCodePoint <= 1114111
    BY SMT DEF LastCodePoint
<1>2. cp \in Nat /\ cp <= LastCodePoint
    BY AlgorithmsAssumption, <1>1
<1>3. cp <= 1114111
    BY ONLY <1>1, <1>2, SMT
<1>4. Survives(cp, AppendCp(cp))
    BY ONLY <1>2, <1>3, CpSurvives, SMT
<1>5. ASSUME cp \in 0 .. 255, NEW b \in 0 .. 255, b # cp
      PROVE  ByteCp(b) # ByteCp(cp)
    <2>1. cp \in 0 .. 255 /\ b \in 0 .. 255
        BY <1>5, SMT
    <2>2. Lower(b, cp) \/ Lower(cp, b)
        BY ONLY <1>5, <2>1, SMT DEF Lower
    <2> QED
        BY ONLY <2>2, ByteCpDiffers, Zenon
<1> QED
    BY <1>4, <1>5, Zenon

-----------------------------------------------------------------------------
(* The order of the slots.                                                 *)

\* What InsertAt leaves at each place.
Inserted(t, s, p, e) ==
    /\ t \in Seq(Nat) /\ Len(t) = Len(s) + 1
    /\ t[p] = e
    /\ \A k \in 1 .. p - 1 : t[k] = s[k]
    /\ \A k \in p .. Len(s) : t[k + 1] = s[k]

\* What was before the place stays, what was behind it moves up by one.
LEMMA InsertedAt ==
    ASSUME NEW s \in Seq(Nat), NEW p \in 1 .. Len(s) + 1, NEW e \in Nat
    PROVE  Inserted(InsertAt(s, p, e), s, p, e)
<1> DEFINE n == p - 1
           m == Len(s) - n
           u == SubSeq(s, 0 + 1, 0 + n)
           v == SubSeq(s, n + 1, n + m)
           w == u \o <<e>>
<1>1. n \in Nat /\ m \in Nat /\ 0 \in Nat /\ 0 + n <= Len(s) /\ n + m <= Len(s) /\ Len(s) \in Nat
    OBVIOUS
<1>2. InsertAt(s, p, e) = w \o v
    <2>1. u = SubSeq(s, 1, p - 1) /\ v = SubSeq(s, p, Len(s))
        OBVIOUS
    <2> HIDE DEF u, v
    <2> QED
        BY <2>1, Zenon DEF InsertAt
<1> HIDE DEF n, m
<1>3. u \in Seq(Nat) /\ Len(u) = n /\ \A i \in 1 .. n : u[i] = s[0 + i]
    BY ONLY <1>1, s \in Seq(Nat), Section, SMT
<1>4. v \in Seq(Nat) /\ Len(v) = m /\ \A i \in 1 .. m : v[i] = s[n + i]
    BY ONLY <1>1, s \in Seq(Nat), Section, SMT
<1> HIDE DEF u, v
<1>5. <<e>> \in Seq(Nat) /\ Len(<<e>>) = 1 /\ <<e>>[1] = e /\ 1 \in Nat /\ 1 \in 1 .. 1
    OBVIOUS
<1>6. w \in Seq(Nat) /\ Len(w) = n + 1 /\ (\A i \in 1 .. n : w[i] = u[i]) /\ \A k \in 1 .. 1 : w[n + k] = <<e>>[k]
    <2> DEFINE y == <<e>>
               l == 1
    <2>1. u \in Seq(Nat) /\ y \in Seq(Nat) /\ n \in Nat /\ n = Len(u) /\ l \in Nat /\ l = Len(y) /\ w = u \o y
        BY <1>1, <1>3, <1>5, Zenon
    <2> HIDE DEF y, w, l
    <2>2. /\ u \o y \in Seq(Nat) /\ Len(u \o y) = n + l
          /\ \A i \in 1 .. n : (u \o y)[i] = u[i]
          /\ \A k \in 1 .. l : (u \o y)[n + k] = y[k]
        BY ONLY <2>1, Behind, SMTT(30)
    <2> QED
        BY <2>1, <2>2, Zenon DEF y, l
<1> HIDE DEF w
<1>7. n + 1 \in Nat
    BY <1>1
<1>8. /\ w \o v \in Seq(Nat) /\ Len(w \o v) = (n + 1) + m
      /\ \A i \in 1 .. n + 1 : (w \o v)[i] = w[i]
      /\ \A k \in 1 .. m : (w \o v)[(n + 1) + k] = v[k]
    <2> DEFINE l == n + 1
    <2>1. w \in Seq(Nat) /\ v \in Seq(Nat) /\ l \in Nat /\ l = Len(w) /\ m \in Nat /\ m = Len(v)
        BY <1>1, <1>4, <1>6, <1>7, Zenon
    <2> HIDE DEF l
    <2>2. /\ w \o v \in Seq(Nat) /\ Len(w \o v) = l + m
          /\ \A i \in 1 .. l : (w \o v)[i] = w[i]
          /\ \A k \in 1 .. m : (w \o v)[l + k] = v[k]
        BY ONLY <2>1, Behind, SMTT(30)
    <2> QED
        BY <2>2, Zenon DEF l
<1> DEFINE t == w \o v
<1>9. Len(t) = Len(s) + 1
    BY <1>1, <1>8 DEF m
<1>10. t[p] = e
    <2>1. p = n + 1 /\ n + 1 \in 1 .. n + 1
        BY <1>1 DEF n
    <2>2. t[n + 1] = w[n + 1] /\ w[n + 1] = <<e>>[1]
        BY <1>5, <1>6, <1>8, <2>1, Zenon
    <2> QED
        BY <1>5, <2>1, <2>2, Zenon
<1>11. ASSUME NEW k \in 1 .. p - 1
       PROVE  t[k] = s[k]
    <2>1. k \in 1 .. n /\ k \in 1 .. n + 1 /\ 0 + k = k
        BY <1>1 DEF n
    <2>2. t[k] = w[k] /\ w[k] = u[k] /\ u[k] = s[0 + k]
        BY <1>3, <1>6, <1>8, <2>1, Zenon
    <2> QED
        BY <2>1, <2>2, Zenon
<1>12. ASSUME NEW k \in p .. Len(s)
       PROVE  t[k + 1] = s[k]
    <2>1. k - n \in 1 .. m /\ k + 1 = (n + 1) + (k - n) /\ n + (k - n) = k
        BY <1>1 DEF n, m
    <2>2. t[(n + 1) + (k - n)] = v[k - n] /\ v[k - n] = s[n + (k - n)]
        BY <1>4, <1>8, <2>1, Zenon
    <2> QED
        BY <2>1, <2>2, Zenon
<1>13. t \in Seq(Nat) /\ InsertAt(s, p, e) = t
    BY <1>2, <1>8, Zenon
<1> HIDE DEF t
<1> QED
    BY <1>9, <1>10, <1>11, <1>12, <1>13, Zenon DEF Inserted

\* Where a slot goes: behind those of its expert or of a lower one.
Place(eid, s, i) == Max({0} \cup {k \in DOMAIN s : eid[s[k]] <= eid[i]}) + 1

\* No expert higher than the own stands before the place, no lower or equal one behind.
LEMMA PlaceIs ==
    ASSUME NEW eid, NEW s \in Seq(Nat), NEW i
    PROVE  /\ Place(eid, s, i) \in 1 .. Len(s) + 1
           /\ Place(eid, s, i) # 1 => eid[s[Place(eid, s, i) - 1]] <= eid[i]
           /\ \A k \in Place(eid, s, i) .. Len(s) : ~(eid[s[k]] <= eid[i])
<1> DEFINE n == Len(s)
           S == {0} \cup {k \in DOMAIN s : eid[s[k]] <= eid[i]}
           m == Max(S)
<1>1. n \in Nat /\ S \subseteq 0 .. n /\ S # {}
    OBVIOUS
<1>2. m \in S /\ \A x \in S : m >= x
    BY <1>1, MaxIn, Zenon
<1>3. m \in 0 .. n /\ (m # 0 => eid[s[m]] <= eid[i])
    BY <1>1, <1>2
<1>4. \A k \in m + 1 .. n : ~(eid[s[k]] <= eid[i])
    <2> TAKE k \in m + 1 .. n
    <2>1. k \in 1 .. n /\ ~(m >= k) /\ k \in DOMAIN s
        BY <1>3
    <2>2. k \notin S
        BY <1>2, <2>1, Zenon
    <2> QED
        BY <2>1, <2>2
<1>5. Place(eid, s, i) = m + 1
    BY DEF Place
<1> HIDE DEF m, n
<1>6. m + 1 \in 1 .. n + 1 /\ (m + 1 # 1 => m # 0) /\ (m + 1) - 1 = m
    BY <1>1, <1>3
<1> QED
    BY <1>3, <1>4, <1>5, <1>6, Zenon DEF n

\* The first m slots in order.
Sorted(eid, s, m) ==
    /\ s \in Seq(Nat) /\ Len(s) = m
    /\ \A k \in 1 .. m : s[k] \in 1 .. m
    /\ \A i \in 1 .. m : \E k \in 1 .. m : s[k] = i
    /\ \A a, b \in 1 .. m : a <= b => eid[s[a]] <= eid[s[b]]

\* A sorted list with one more slot in its place is sorted.
LEMMA PlacedSorted ==
    ASSUME NEW n \in Nat, NEW eid \in [1 .. n -> Int], NEW m \in 1 .. n, NEW s, Sorted(eid, s, m - 1)
    PROVE  Sorted(eid, Placed(eid, s, m), m)
<1> DEFINE p == Place(eid, s, m)
           t == Placed(eid, s, m)
<1>1. /\ s \in Seq(Nat) /\ Len(s) = m - 1 /\ m \in Nat
      /\ \A k \in 1 .. m - 1 : s[k] \in 1 .. m - 1
    BY DEF Sorted
<1>2. \A i \in 1 .. m - 1 : \E k \in 1 .. m - 1 : s[k] = i
    BY Zenon DEF Sorted
<1>3. \A a, b \in 1 .. m - 1 : a <= b => eid[s[a]] <= eid[s[b]]
    BY Zenon DEF Sorted
<1>4. /\ p \in 1 .. Len(s) + 1
      /\ p # 1 => eid[s[p - 1]] <= eid[m]
      /\ \A k \in p .. Len(s) : ~(eid[s[k]] <= eid[m])
    BY <1>1, PlaceIs, Zenon
<1>5. Inserted(t, s, p, m)
    <2>1. t = InsertAt(s, p, m)
        BY Zenon DEF Placed, Place
    <2> QED
        BY <1>1, <1>4, <2>1, InsertedAt, Zenon
<1> HIDE DEF p, t
<1>6. /\ t \in Seq(Nat) /\ Len(t) = m /\ t[p] = m
      /\ \A k \in 1 .. p - 1 : t[k] = s[k]
      /\ \A k \in p .. m - 1 : t[k + 1] = s[k]
    BY <1>1, <1>5 DEF Inserted
<1>7. p \in 1 .. m
    BY <1>1, <1>4
\* each place of t is that of m or of a place of s
<1>8. \A k \in 1 .. m : \/ k < p /\ k \in 1 .. m - 1 /\ t[k] = s[k]
                        \/ k = p /\ t[k] = m
                        \/ k > p /\ k - 1 \in 1 .. m - 1 /\ k - 1 >= p /\ t[k] = s[k - 1]
    <2> TAKE k \in 1 .. m
    <2>1. CASE k < p
        BY <1>6, <1>7, <2>1
    <2>2. CASE k = p
        BY <1>6, <2>2
    <2>3. CASE k > p
        <3>1. k - 1 \in p .. m - 1 /\ (k - 1) + 1 = k
            BY <1>7, <2>3
        <3>2. t[(k - 1) + 1] = s[k - 1]
            BY <1>6, <3>1, Zenon
        <3> QED
            BY <1>7, <2>3, <3>1, <3>2
    <2> QED
        BY <1>7, <2>1, <2>2, <2>3
<1>9. \A k \in 1 .. m : t[k] \in 1 .. m
    <2> TAKE k \in 1 .. m
    <2>1. \A j \in 1 .. m - 1 : s[j] \in 1 .. m
        BY <1>1
    <2>2. m \in 1 .. m
        BY <1>1
    <2> QED
        BY <1>8, <2>1, <2>2, Zenon
<1>10. ASSUME NEW i \in 1 .. m
       PROVE  \E k \in 1 .. m : t[k] = i
    <2>1. CASE i = m
        BY <1>6, <1>7, <2>1
    <2>2. CASE i # m
        <3>1. i \in 1 .. m - 1
            BY <2>2
        <3>2. PICK k \in 1 .. m - 1 : s[k] = i
            BY <1>2, <3>1, Zenon
        <3>3. CASE k < p
            <4>1. k \in 1 .. p - 1 /\ k \in 1 .. m
                BY <1>7, <3>3
            <4> QED
                BY <1>6, <3>2, <4>1, Zenon
        <3>4. CASE ~(k < p)
            <4>1. k \in p .. m - 1 /\ k + 1 \in 1 .. m
                BY <1>7, <3>4
            <4> QED
                BY <1>6, <3>2, <4>1, Zenon
        <3> QED
            BY <3>3, <3>4
    <2> QED
        BY <2>1, <2>2
<1>11. ASSUME NEW a \in 1 .. m, NEW b \in 1 .. m, a <= b
       PROVE  eid[t[a]] <= eid[t[b]]
    <2>1. \A j \in 1 .. m - 1 : eid[s[j]] \in Int
        <3>1. \A j \in 1 .. m - 1 : j \in 1 .. n
            OBVIOUS
        <3>2. \A j \in 1 .. m - 1 : s[j] \in 1 .. n
            BY <1>1, <3>1, Zenon
        <3> QED
            BY <3>2, Zenon
    <2>2. eid[m] \in Int
        OBVIOUS
    <2>3. \A j \in 1 .. m - 1 : j < p => eid[s[j]] <= eid[m]
        <3> TAKE j \in 1 .. m - 1
        <3> HAVE j < p
        <3>1. p # 1 /\ p - 1 \in 1 .. m - 1 /\ j <= p - 1
            BY <1>7
        <3>2. eid[s[j]] <= eid[s[p - 1]] /\ eid[s[p - 1]] <= eid[m]
            BY <1>3, <1>4, <3>1, Zenon
        <3>3. eid[s[j]] \in Int /\ eid[s[p - 1]] \in Int
            BY <2>1, <3>1, Zenon
        <3> QED
            BY <2>2, <3>2, <3>3
    <2>4. \A j \in 1 .. m - 1 : j >= p => eid[m] <= eid[s[j]]
        <3> TAKE j \in 1 .. m - 1
        <3> HAVE j >= p
        <3>1. j \in p .. Len(s)
            BY <1>1, <1>7
        <3>2. ~(eid[s[j]] <= eid[m])
            BY <1>4, <3>1, Zenon
        <3> QED
            BY <2>1, <2>2, <3>2
    <2>5. CASE a < p /\ b < p
        <3>1. a \in 1 .. m - 1 /\ b \in 1 .. m - 1 /\ t[a] = s[a] /\ t[b] = s[b]
            BY <1>7, <1>8, <2>5
        <3> QED
            BY <1>3, <1>11, <3>1, Zenon
    <2>6. CASE a < p /\ b = p
        <3>1. a \in 1 .. m - 1 /\ t[a] = s[a] /\ t[b] = m
            BY <1>6, <1>7, <1>8, <2>6
        <3> QED
            BY <2>3, <2>6, <3>1, Zenon
    <2>7. CASE a < p /\ b > p
        <3>1. a \in 1 .. m - 1 /\ b - 1 \in 1 .. m - 1 /\ a <= b - 1 /\ t[a] = s[a] /\ t[b] = s[b - 1]
            BY <1>7, <1>8, <2>7
        <3> QED
            BY <1>3, <3>1, Zenon
    <2>8. CASE a = p /\ b = p
        BY <1>6, <2>2, <2>8
    <2>9. CASE a = p /\ b > p
        <3>1. b - 1 \in 1 .. m - 1 /\ b - 1 >= p /\ t[a] = m /\ t[b] = s[b - 1]
            BY <1>6, <1>7, <1>8, <2>9
        <3> QED
            BY <2>4, <3>1, Zenon
    <2>10. CASE a > p
        <3>0. b > p /\ a - 1 <= b - 1
            BY <1>7, <1>11, <2>10
        <3>1. a - 1 \in 1 .. m - 1 /\ b - 1 \in 1 .. m - 1 /\ t[a] = s[a - 1] /\ t[b] = s[b - 1]
            BY <1>7, <1>8, <2>10, <3>0
        <3> QED
            BY <1>3, <3>0, <3>1, Zenon
    <2> QED
        <3>1. a < p \/ a = p \/ a > p
            BY <1>7
        <3>2. b < p \/ b = p \/ b > p
            BY <1>7
        <3>3. ~(a = p /\ b < p)
            BY <1>7, <1>11
        <3> QED
            BY <2>5, <2>6, <2>7, <2>8, <2>9, <2>10, <3>1, <3>2, <3>3, Zenon
<1> QED
    BY <1>6, <1>9, <1>10, <1>11, Zenon DEF Sorted, t

\* The slots are placed one after the other.
LEMMA PlacedInTurn ==
    ASSUME NEW n \in Nat, NEW eid \in [1 .. n -> Int]
    PROVE  \E f : f[0] = << >> /\ f[n] = Order(eid) /\ \A i \in 1 .. n : f[i] = Placed(eid, f[i - 1], i)
<1> DEFINE xs == [i \in DOMAIN eid |-> i]
           V == Seq(Nat)
           Body(g, S) == IF S = {} THEN << >> ELSE Placed(eid, g[S \ {Max(S)}], xs[Max(S)])
           fold == CHOOSE g : g = [S \in SUBSET (DOMAIN xs) |-> Body(g, S)]
           step == [i \in 1 .. n |-> [s \in V |-> Placed(eid, s, xs[i])]]
<1>1. DOMAIN xs = 1 .. n /\ \A i \in 1 .. n : xs[i] = i /\ i \in Nat
    OBVIOUS
<1>2. Order(eid) = fold[DOMAIN xs]
    BY Zenon DEF Order, FoldLeft, MapThenFoldSet
<1> HIDE DEF xs
<1>3. step \in [1 .. n -> [V -> V]]
    <2>1. ASSUME NEW i \in 1 .. n, NEW s \in Seq(Nat)
          PROVE  Placed(eid, s, xs[i]) \in Seq(Nat)
        <3>1. Place(eid, s, i) \in 1 .. Len(s) + 1
            BY PlaceIs, Zenon
        <3>2. Inserted(InsertAt(s, Place(eid, s, i), i), s, Place(eid, s, i), i)
            BY <1>1, <3>1, InsertedAt, Zenon
        <3> QED
            BY <1>1, <3>2, Zenon DEF Inserted, Placed, Place
    <2> QED
        BY <2>1, Zenon
<1> HIDE DEF step
<1>4. PICK g : FoldsOver(g, V, << >>, n, step)
    <2>1. << >> \in V
        OBVIOUS
    <2> HIDE DEF V
    <2> QED
        BY <1>3, <2>1, FoldExists, Zenon
<1>5. \A S \in SUBSET (1 .. n) : g[S] = Body(g, S)
    <2> TAKE S \in SUBSET (1 .. n)
    <2>1. CASE S # {}
        <3>1. S \subseteq 0 .. n /\ n \in Nat
            OBVIOUS
        <3>2. Max(S) \in S
            BY <2>1, <3>1, MaxIn, Zenon
        <3>3. Max(S) \in 1 .. n /\ S \ {Max(S)} \in SUBSET (1 .. n)
            BY <3>2, Zenon
        <3>4. g[S \ {Max(S)}] \in V
            BY <1>4, <3>3, Zenon DEF FoldsOver
        <3> QED
            BY <1>4, <2>1, <3>3, <3>4, Zenon DEF step, FoldsOver
    <2> QED
        BY <1>4, <2>1, Zenon DEF FoldsOver
<1>6. \A S \in SUBSET (1 .. n) : fold[S] = Body(fold, S)
    <2>1. g = [S \in SUBSET (DOMAIN xs) |-> Body(g, S)]
        <3>1. g = [S \in SUBSET (1 .. n) |-> g[S]]
            BY <1>4, Zenon DEF FoldsOver
        <3> QED
            BY <1>1, <1>5, <3>1, Zenon
    <2>2. fold = [S \in SUBSET (DOMAIN xs) |-> Body(fold, S)]
        BY <2>1, Zenon
    <2> QED
        BY <1>1, <2>2, Zenon
<1> HIDE DEF fold
<1> DEFINE f == [i \in 0 .. n |-> fold[1 .. i]]
<1>7. f[0] = << >>
    <2>1. (1 .. 0) = {} /\ {} \in SUBSET (1 .. n) /\ 0 \in 0 .. n
        OBVIOUS
    <2>2. fold[{}] = << >>
        BY <1>6, <2>1, Zenon
    <2> QED
        BY <2>1, <2>2, Zenon
<1>8. f[n] = fold[1 .. n]
    <2>1. n \in 0 .. n
        OBVIOUS
    <2> QED
        BY <2>1, Zenon
<1>9. ASSUME NEW i \in 1 .. n
      PROVE  f[i] = Placed(eid, f[i - 1], i)
    <2>1. /\ (1 .. i) \in SUBSET (1 .. n) /\ (1 .. i) # {} /\ i \in 0 .. n /\ i - 1 \in 0 .. n
          /\ Max(1 .. i) = i /\ (1 .. i) \ {Max(1 .. i)} = 1 .. i - 1
        BY FirstNumbers, Zenon
    <2> QED
        BY <1>1, <1>6, <2>1, Zenon
<1> HIDE DEF f
<1> QED
    BY <1>1, <1>2, <1>7, <1>8, <1>9, Zenon

\* The order is one: every slot is somewhere, no expert behind a higher one.
LEMMA OrderSorted ==
    ASSUME NEW n \in Nat, NEW eid \in [1 .. n -> Int]
    PROVE  Sorted(eid, Order(eid), n)
<1>1. PICK f : f[0] = << >> /\ f[n] = Order(eid) /\ \A i \in 1 .. n : f[i] = Placed(eid, f[i - 1], i)
    BY PlacedInTurn, Zenon
<1> DEFINE T == {i \in 0 .. n : ~Sorted(eid, f[i], i)}
<1>2. ASSUME T # {}
      PROVE  FALSE
    <2>1. T \subseteq Nat
        OBVIOUS
    <2> HIDE DEF T
    <2>2. PICK i \in T : \A m \in T : i <= m
        BY <1>2, <2>1, LeastNat, Zenon
    <2>3. i \in 0 .. n /\ ~Sorted(eid, f[i], i)
        BY Zenon DEF T
    <2>4. i # 0
        <3>1. Sorted(eid, << >>, 0)
            BY DEF Sorted
        <3> QED
            BY <1>1, <2>3, <3>1, Zenon
    <2>5. i - 1 \in 0 .. n /\ i - 1 \notin T /\ i \in 1 .. n
        BY <2>2, <2>3, <2>4
    <2>6. Sorted(eid, f[i - 1], i - 1)
        BY <2>5, Zenon DEF T
    <2>7. Sorted(eid, Placed(eid, f[i - 1], i), i)
        BY <2>5, <2>6, PlacedSorted, Zenon
    <2> QED
        BY <1>1, <2>3, <2>5, <2>7, Zenon
<1>3. n \in 0 .. n
    OBVIOUS
<1> QED
    BY <1>1, <1>2, <1>3, Zenon

-----------------------------------------------------------------------------
(* The tiles.                                                              *)

\* A tile, and the two lists of them.
Tile == [expert : Int, first : Nat, ncols : Nat]
Lists == [routed : Seq(Tile), shared : Seq(Tile)]

\* One more column for a tile.
Wider(tile) == [tile EXCEPT !.ncols = @ + 1]

\* Only its width changes.
LEMMA WiderIs ==
    ASSUME NEW tile \in Tile
    PROVE  /\ Wider(tile) \in Tile /\ Wider(tile).ncols = tile.ncols + 1
           /\ Wider(tile).first = tile.first /\ Wider(tile).expert = tile.expert
<1>1. tile.ncols + 1 \in Nat
    BY DEF Tile
<1>2. Wider(tile) \in Tile
    BY <1>1, Zenon DEF Wider, Tile
<1>3. Wider(tile).ncols = tile.ncols + 1 /\ Wider(tile).first = tile.first /\ Wider(tile).expert = tile.expert
    BY Zenon DEF Wider, Tile
<1> QED
    BY <1>2, <1>3, Zenon

\* longer is list with a tile of its own for position k.
WithNew(longer, list, k, e) ==
    /\ longer \in Seq(Tile) /\ Len(longer) = Len(list) + 1
    /\ longer[Len(list) + 1] = [expert |-> e, first |-> k, ncols |-> 1]
    /\ \A a \in 1 .. Len(list) : longer[a] = list[a]

\* longer is list with its last tile one column wider.
WithWider(longer, list) ==
    /\ list # << >> /\ longer \in Seq(Tile) /\ Len(longer) = Len(list)
    /\ longer[Len(list)] = Wider(list[Len(list)])
    /\ \A a \in 1 .. Len(list) - 1 : longer[a] = list[a]

\* A tile starts at the first position, where the expert changes and where one is full.
Starts(list, e, before) == list = << >> \/ e # before \/ Full(Last(list))

\* A position starts a tile or widens the last one.
LEMMA ExtendedIs ==
    ASSUME NEW list \in Seq(Tile), NEW k \in Nat, NEW e \in Int, NEW before
    PROVE  IF Starts(list, e, before) THEN WithNew(Extended(list, k, e, before), list, k, e)
           ELSE WithWider(Extended(list, k, e, before), list)
<1>1. CASE Starts(list, e, before)
    <2> DEFINE tile == [expert |-> e, first |-> k, ncols |-> 1]
    <2>1. tile \in Tile
        BY DEF Tile
    <2>2. Extended(list, k, e, before) = Append(list, tile)
        BY <1>1, Zenon DEF Extended, Starts
    <2> HIDE DEF tile
    <2>3. /\ Append(list, tile) \in Seq(Tile) /\ Len(Append(list, tile)) = Len(list) + 1
          /\ \A i \in 1 .. Len(list) : Append(list, tile)[i] = list[i]
          /\ Append(list, tile)[Len(list) + 1] = tile
        BY ONLY <2>1, list \in Seq(Tile), AppendProperties, SMTT(30)
    <2> QED
        BY <1>1, <2>2, <2>3, Zenon DEF WithNew, tile
<1>2. CASE ~Starts(list, e, before)
    <2> DEFINE n == Len(list) - 1
               l == 1
               x == SubSeq(list, 0 + 1, 0 + n)
               y == <<Wider(list[Len(list)])>>
    <2>1. list # << >> /\ Extended(list, k, e, before) = Front(list) \o <<[Last(list) EXCEPT !.ncols = @ + 1]>>
        BY <1>2, Zenon DEF Extended, Starts
    <2>2. n \in Nat /\ 0 \in Nat /\ 0 + n <= Len(list) /\ Len(list) \in Nat /\ n + 1 = Len(list) /\ Len(list) \in 1 .. Len(list)
        BY <2>1
    <2>3. list[Len(list)] \in Tile
        BY <2>2
    <2>4. Wider(list[Len(list)]) \in Tile
        BY <2>3, WiderIs, Zenon
    <2>5. y \in Seq(Tile) /\ l = Len(y) /\ l \in Nat /\ y[1] = Wider(list[Len(list)]) /\ 1 \in 1 .. l
        BY <2>4
    <2>6. Front(list) = x
        BY DEF Front
    <2>7. Extended(list, k, e, before) = x \o y
        BY <2>1, <2>6, Zenon DEF Wider, Last
    <2> HIDE DEF n
    <2>8. x \in Seq(Tile) /\ Len(x) = n /\ \A i \in 1 .. n : x[i] = list[0 + i]
        BY ONLY <2>2, list \in Seq(Tile), Section, SMT
    <2> HIDE DEF x, y, l
    <2>9. x \in Seq(Tile) /\ y \in Seq(Tile) /\ n \in Nat /\ n = Len(x) /\ l \in Nat /\ l = Len(y)
        BY <2>2, <2>5, <2>8, Zenon
    <2>10. /\ x \o y \in Seq(Tile) /\ Len(x \o y) = n + l
           /\ \A i \in 1 .. n : (x \o y)[i] = x[i]
           /\ \A i \in 1 .. l : (x \o y)[n + i] = y[i]
        BY ONLY <2>9, Behind, SMTT(30)
    <2>11. Len(x \o y) = Len(list) /\ (x \o y)[Len(list)] = Wider(list[Len(list)])
        BY <2>2, <2>5, <2>10, Zenon DEF l
    <2>12. \A a \in 1 .. Len(list) - 1 : (x \o y)[a] = list[a]
        <3>1. \A a \in 1 .. Len(list) - 1 : a \in 1 .. n /\ 0 + a = a
            BY <2>2
        <3> QED
            BY <2>8, <2>10, <3>1, Zenon
    <2> QED
        BY <1>2, <2>1, <2>7, <2>10, <2>11, <2>12, Zenon DEF WithWider
<1> QED
    BY <1>1, <1>2, Zenon

\* The experts of the positions, as the tiles are cut.
Before(eid, order, k) == IF k = 1 THEN eid[order[k]] ELSE eid[order[k - 1]]
Kind(e) == IF e < 0 THEN "shared" ELSE "routed"
Longer(eid, order, lists, k) ==
    [lists EXCEPT ![Kind(eid[order[k]])] = Extended(@, k, eid[order[k]], Before(eid, order, k))]

\* The list of the kind grows and the other stays.
LEMMA LongerIs ==
    ASSUME NEW eid, NEW order, NEW lists \in Lists, NEW k \in Nat, eid[order[k]] \in Int
    PROVE  /\ Longer(eid, order, lists, k) \in Lists
           /\ eid[order[k]] < 0 =>
                /\ Longer(eid, order, lists, k).routed = lists.routed
                /\ Longer(eid, order, lists, k).shared
                     = Extended(lists.shared, k, eid[order[k]], Before(eid, order, k))
           /\ ~(eid[order[k]] < 0) =>
                /\ Longer(eid, order, lists, k).shared = lists.shared
                /\ Longer(eid, order, lists, k).routed
                     = Extended(lists.routed, k, eid[order[k]], Before(eid, order, k))
<1> DEFINE e == eid[order[k]]
           b == Before(eid, order, k)
           L == Longer(eid, order, lists, k)
<1>1. lists.routed \in Seq(Tile) /\ lists.shared \in Seq(Tile)
    BY Zenon DEF Lists
<1>2. \A list \in Seq(Tile) : Extended(list, k, e, b) \in Seq(Tile)
    BY ExtendedIs, Zenon DEF WithNew, WithWider
<1>3. L = [lists EXCEPT ![Kind(e)] = Extended(@, k, e, b)]
    BY DEF Longer
<1> HIDE DEF e, b, L
<1>4. CASE e < 0
    <2> DEFINE list == Extended(lists.shared, k, e, b)
    <2>1. L = [lists EXCEPT !.shared = list]
        BY <1>3, <1>4, Zenon DEF Kind
    <2>2. list \in Seq(Tile)
        BY <1>1, <1>2, Zenon
    <2> HIDE DEF list
    <2>3. L \in Lists /\ L.routed = lists.routed /\ L.shared = list
        BY <2>1, <2>2, Zenon DEF Lists
    <2> QED
        BY <1>4, <2>3, Zenon DEF e, b, L, list
<1>5. CASE ~(e < 0)
    <2> DEFINE list == Extended(lists.routed, k, e, b)
    <2>1. L = [lists EXCEPT !.routed = list]
        BY <1>3, <1>5, Zenon DEF Kind
    <2>2. list \in Seq(Tile)
        BY <1>1, <1>2, Zenon
    <2> HIDE DEF list
    <2>3. L \in Lists /\ L.shared = lists.shared /\ L.routed = list
        BY <2>1, <2>2, Zenon DEF Lists
    <2> QED
        BY <1>5, <2>3, Zenon DEF e, b, L, list
<1> QED
    BY <1>4, <1>5, Zenon

\* The lists before the first position.
NoTiles == [routed |-> << >>, shared |-> << >>]

\* The tiles are cut one position after the other.
LEMMA CutInTurn ==
    ASSUME NEW eid, NEW n \in Nat, Len(Order(eid)) = n, Order(eid) \in Seq(Nat),
           \A k \in 1 .. n : eid[Order(eid)[k]] \in Int
    PROVE  \E f : f[0] = NoTiles /\ f[n] = Tiles(eid) /\ \A k \in 1 .. n : f[k] = Longer(eid, Order(eid), f[k - 1], k)
<1> DEFINE order == Order(eid)
           xs == [k \in DOMAIN order |-> k]
           Body(g, S) == IF S = {} THEN NoTiles ELSE Longer(eid, order, g[S \ {Max(S)}], xs[Max(S)])
           fold == CHOOSE g : g = [S \in SUBSET (DOMAIN xs) |-> Body(g, S)]
           step == [k \in 1 .. n |-> [lists \in Lists |-> Longer(eid, order, lists, xs[k])]]
<1>1. DOMAIN xs = 1 .. n /\ \A k \in 1 .. n : xs[k] = k /\ k \in Nat
    OBVIOUS
<1>2. Tiles(eid) = fold[DOMAIN xs]
    BY Zenon DEF Tiles, NoTiles, Longer, Before, Kind, FoldLeft, MapThenFoldSet
<1> HIDE DEF xs
<1>3. step \in [1 .. n -> [Lists -> Lists]]
    <2>1. ASSUME NEW k \in 1 .. n, NEW lists \in Lists
          PROVE  Longer(eid, order, lists, xs[k]) \in Lists
        <3>1. lists \in Lists /\ k \in Nat /\ eid[order[k]] \in Int /\ xs[k] = k
            BY <1>1, Zenon
        <3> HIDE DEF order
        <3> QED
            BY ONLY <3>1, LongerIs, Zenon
    <2> QED
        BY <2>1, Zenon
<1> HIDE DEF step
<1>4. PICK g : FoldsOver(g, Lists, NoTiles, n, step)
    <2>1. NoTiles \in Lists
        BY DEF NoTiles, Lists
    <2> QED
        BY <1>3, <2>1, FoldExists, Zenon
<1>5. \A S \in SUBSET (1 .. n) : g[S] = Body(g, S)
    <2> TAKE S \in SUBSET (1 .. n)
    <2>1. CASE S # {}
        <3>1. S \subseteq 0 .. n /\ n \in Nat
            OBVIOUS
        <3>2. Max(S) \in S
            BY <2>1, <3>1, MaxIn, Zenon
        <3>3. Max(S) \in 1 .. n /\ S \ {Max(S)} \in SUBSET (1 .. n)
            BY <3>2, Zenon
        <3>4. g[S \ {Max(S)}] \in Lists
            BY <1>4, <3>3, Zenon DEF FoldsOver
        <3> QED
            BY <1>4, <2>1, <3>3, <3>4, Zenon DEF step, FoldsOver
    <2> QED
        BY <1>4, <2>1, Zenon DEF FoldsOver
<1>6. \A S \in SUBSET (1 .. n) : fold[S] = Body(fold, S)
    <2>1. g = [S \in SUBSET (DOMAIN xs) |-> Body(g, S)]
        <3>1. g = [S \in SUBSET (1 .. n) |-> g[S]]
            BY <1>4, Zenon DEF FoldsOver
        <3> QED
            BY <1>1, <1>5, <3>1, Zenon
    <2>2. fold = [S \in SUBSET (DOMAIN xs) |-> Body(fold, S)]
        BY <2>1, Zenon
    <2> QED
        BY <1>1, <2>2, Zenon
<1> HIDE DEF fold
<1> DEFINE f == [k \in 0 .. n |-> fold[1 .. k]]
<1>7. f[0] = NoTiles
    <2>1. (1 .. 0) = {} /\ {} \in SUBSET (1 .. n) /\ 0 \in 0 .. n
        OBVIOUS
    <2>2. fold[{}] = NoTiles
        BY <1>6, <2>1, Zenon
    <2> QED
        BY <2>1, <2>2, Zenon
<1>8. f[n] = fold[1 .. n]
    <2>1. n \in 0 .. n
        OBVIOUS
    <2> QED
        BY <2>1, Zenon
<1>9. ASSUME NEW k \in 1 .. n
      PROVE  f[k] = Longer(eid, order, f[k - 1], k)
    <2>1. /\ (1 .. k) \in SUBSET (1 .. n) /\ (1 .. k) # {} /\ k \in 0 .. n /\ k - 1 \in 0 .. n
          /\ Max(1 .. k) = k /\ (1 .. k) \ {Max(1 .. k)} = 1 .. k - 1
        BY FirstNumbers, Zenon
    <2> QED
        BY <1>1, <1>6, <2>1, Zenon
<1>10. f[n] = Tiles(eid)
    BY <1>1, <1>2, <1>8, Zenon
<1> HIDE DEF f
<1> QED
    BY <1>7, <1>9, <1>10, Zenon

\* The positions of a tile.
Holds(tile, p) == p \in tile.first .. tile.first + tile.ncols - 1

\* A tile of the first k positions, ex their experts: neg for the shared one.
TileOf(ex, tile, k, neg) ==
    /\ tile.ncols \in 1 .. MaxCols /\ tile.first >= 1 /\ tile.first + tile.ncols <= k + 1
    /\ \A p \in 1 .. k : Holds(tile, p) => ex[p] = tile.expert
    /\ tile.expert < 0 <=> neg

\* The tiles of one kind hold the first k positions of theirs, each in one.
Cut(ex, list, k, neg) ==
    /\ list \in Seq(Tile)
    /\ \A a \in 1 .. Len(list) : TileOf(ex, list[a], k, neg)
    /\ \A a, b \in 1 .. Len(list), p \in 1 .. k : Holds(list[a], p) /\ Holds(list[b], p) => a = b
    /\ \A p \in 1 .. k : (ex[p] < 0 <=> neg) => \E a \in 1 .. Len(list) : Holds(list[a], p)
    /\ k >= 1 /\ (ex[k] < 0 <=> neg) =>
         list # << >> /\ list[Len(list)].first + list[Len(list)].ncols = k + 1

LEMMA MaxColsIs == MaxCols \in Nat /\ MaxCols >= 1 /\ MaxCols >= Narrow /\ Narrow \in Nat /\ Narrow >= 1
<1>1. Narrow \in Nat /\ Narrow >= 1 /\ Ct \in {1, 2, 3}
    BY MoeAssumption
<1>2. MaxCols \in {Narrow * 1, Narrow * 2, Narrow * 3}
    BY <1>1, Zenon DEF MaxCols
<1> QED
    BY <1>1, <1>2

\* A tile of the first positions is one of more of them.
LEMMA TileStays ==
    ASSUME NEW ex, NEW k \in Nat, k >= 1, NEW tile \in Tile, NEW neg, TileOf(ex, tile, k - 1, neg)
    PROVE  TileOf(ex, tile, k, neg) /\ ~Holds(tile, k)
<1>1. tile.first \in Nat /\ tile.ncols \in Nat /\ tile.expert \in Int
    BY DEF Tile
<1>2. tile.first + tile.ncols <= k
    BY DEF TileOf
<1>3. ~Holds(tile, k)
    BY <1>1, <1>2 DEF Holds
<1>4. \A p \in 1 .. k : Holds(tile, p) => ex[p] = tile.expert
    <2> TAKE p \in 1 .. k
    <2>1. p # k => p \in 1 .. k - 1
        OBVIOUS
    <2> QED
        BY <1>3, <2>1, Zenon DEF TileOf
<1>5. tile.ncols \in 1 .. MaxCols /\ tile.first >= 1 /\ (tile.expert < 0 <=> neg)
    BY Zenon DEF TileOf
<1>6. tile.first + tile.ncols <= k + 1
    BY <1>1, <1>2
<1> QED
    BY <1>3, <1>4, <1>5, <1>6, Zenon DEF TileOf

\* A position of the other kind leaves a list what it is.
LEMMA CutOther ==
    ASSUME NEW n \in Nat, NEW ex \in [1 .. n -> Int], NEW k \in 1 .. n, NEW list, NEW neg \in BOOLEAN,
           Cut(ex, list, k - 1, neg), ~(ex[k] < 0 <=> neg)
    PROVE  Cut(ex, list, k, neg)
<1>1. list \in Seq(Tile) /\ \A a \in 1 .. Len(list) : list[a] \in Tile /\ TileOf(ex, list[a], k - 1, neg)
    BY DEF Cut
<1>2. \A a \in 1 .. Len(list) : TileOf(ex, list[a], k, neg) /\ ~Holds(list[a], k)
    <2>1. k \in Nat /\ k >= 1
        OBVIOUS
    <2> QED
        BY ONLY <1>1, <2>1, TileStays, Zenon
<1>3. \A p \in 1 .. k : p # k => p \in 1 .. k - 1
    OBVIOUS
<1>4. \A a, b \in 1 .. Len(list), p \in 1 .. k : Holds(list[a], p) /\ Holds(list[b], p) => a = b
    BY <1>2, <1>3, Zenon DEF Cut
<1>5. \A p \in 1 .. k : (ex[p] < 0 <=> neg) => \E a \in 1 .. Len(list) : Holds(list[a], p)
    BY <1>3, Zenon DEF Cut
<1> QED
    BY <1>1, <1>2, <1>4, <1>5, Zenon DEF Cut

\* A new tile holds its position and no other.
LEMMA CutNew ==
    ASSUME NEW n \in Nat, NEW ex \in [1 .. n -> Int], NEW k \in 1 .. n, NEW list, NEW neg \in BOOLEAN,
           Cut(ex, list, k - 1, neg), ex[k] < 0 <=> neg, NEW longer, WithNew(longer, list, k, ex[k])
    PROVE  Cut(ex, longer, k, neg)
<1> DEFINE m == Len(list)
<1>1. list \in Seq(Tile) /\ m \in Nat /\ \A a \in 1 .. m : list[a] \in Tile /\ TileOf(ex, list[a], k - 1, neg)
    BY DEF Cut
<1>2. /\ longer \in Seq(Tile) /\ Len(longer) = m + 1
      /\ longer[m + 1] = [expert |-> ex[k], first |-> k, ncols |-> 1]
      /\ \A a \in 1 .. m : longer[a] = list[a]
    BY Zenon DEF WithNew
<1> HIDE DEF m
<1>3. \A a \in 1 .. m : TileOf(ex, longer[a], k, neg) /\ ~Holds(longer[a], k)
    <2>1. k \in Nat /\ k >= 1
        OBVIOUS
    <2>2. \A a \in 1 .. m : TileOf(ex, list[a], k, neg) /\ ~Holds(list[a], k)
        BY ONLY <1>1, <2>1, TileStays, Zenon
    <2> QED
        BY <1>2, <2>2, Zenon
<1>4. \A p \in 1 .. k : Holds(longer[m + 1], p) <=> p = k
    BY <1>2 DEF Holds
<1>5. TileOf(ex, longer[m + 1], k, neg)
    <2>1. longer[m + 1].expert = ex[k] /\ longer[m + 1].first = k /\ longer[m + 1].ncols = 1
        BY <1>2
    <2> QED
        BY <1>4, <2>1, MaxColsIs DEF TileOf
<1>6. \A a \in 1 .. m + 1 : a # m + 1 => a \in 1 .. m
    BY <1>1
<1>7. \A p \in 1 .. k : p # k => p \in 1 .. k - 1
    OBVIOUS
<1>8. \A a \in 1 .. m + 1 : TileOf(ex, longer[a], k, neg)
    BY <1>3, <1>5, <1>6, Zenon
<1>9. ASSUME NEW a \in 1 .. m + 1, NEW b \in 1 .. m + 1, NEW p \in 1 .. k, Holds(longer[a], p), Holds(longer[b], p)
      PROVE  a = b
    <2>1. CASE p = k
        BY <1>3, <1>6, <1>9, <2>1, Zenon
    <2>2. CASE p # k
        <3>1. a \in 1 .. m /\ b \in 1 .. m /\ p \in 1 .. k - 1
            BY <1>4, <1>6, <1>7, <1>9, <2>2, Zenon
        <3>2. Holds(list[a], p) /\ Holds(list[b], p)
            BY <1>2, <1>9, <3>1, Zenon
        <3> QED
            BY <3>1, <3>2, Zenon DEF Cut, m
    <2> QED
        BY <2>1, <2>2, Zenon
<1>10. ASSUME NEW p \in 1 .. k, ex[p] < 0 <=> neg
       PROVE  \E a \in 1 .. m + 1 : Holds(longer[a], p)
    <2>1. CASE p = k
        <3>1. m + 1 \in 1 .. m + 1
            BY <1>1
        <3> QED
            BY <1>4, <2>1, <3>1, Zenon
    <2>2. CASE p # k
        <3>1. PICK a \in 1 .. m : Holds(list[a], p)
            BY <1>7, <1>10, <2>2, Zenon DEF Cut, m
        <3>2. a \in 1 .. m + 1
            BY <1>1
        <3> QED
            BY <1>2, <3>1, <3>2, Zenon
    <2> QED
        BY <2>1, <2>2, Zenon
<1>11. longer # << >> /\ longer[m + 1].first + longer[m + 1].ncols = k + 1
    BY <1>1, <1>2
<1> QED
    BY <1>2, <1>8, <1>9, <1>10, <1>11, Zenon DEF Cut

\* The last tile, one column wider, holds the position behind its others.
LEMMA CutWider ==
    ASSUME NEW n \in Nat, NEW ex \in [1 .. n -> Int], NEW k \in 2 .. n, NEW list, NEW neg \in BOOLEAN,
           Cut(ex, list, k - 1, neg), ex[k] < 0 <=> neg, ex[k] = ex[k - 1],
           NEW longer, WithWider(longer, list), list[Len(list)].ncols # MaxCols
    PROVE  Cut(ex, longer, k, neg)
<1> DEFINE m == Len(list)
<1>1. list \in Seq(Tile) /\ m \in Nat /\ list # << >> /\ \A a \in 1 .. m : list[a] \in Tile /\ TileOf(ex, list[a], k - 1, neg)
    BY DEF Cut, WithWider
<1>2. /\ longer \in Seq(Tile) /\ Len(longer) = m
      /\ longer[m] = Wider(list[m])
      /\ \A a \in 1 .. m - 1 : longer[a] = list[a]
    BY Zenon DEF WithWider
<1>3. k \in Nat /\ k - 1 \in 1 .. k - 1 /\ k - 1 >= 1 /\ k \in 1 .. n /\ k - 1 \in 1 .. n /\ m \in 1 .. m
    BY <1>1
<1>4. list[m].first + list[m].ncols = k
    <2>1. (ex[k - 1] < 0 <=> neg)
        BY Zenon
    <2>2. list[m].first + list[m].ncols = (k - 1) + 1
        BY <1>3, <2>1, Zenon DEF Cut, m
    <2> QED
        BY <2>2
<1> HIDE DEF m
<1> DEFINE last == list[m]
           wide == longer[m]
<1>5. /\ last \in Tile /\ last.first \in Nat /\ last.ncols \in Nat /\ last.expert \in Int
      /\ last.ncols \in 1 .. MaxCols /\ last.ncols # MaxCols /\ last.first >= 1 /\ last.first + last.ncols = k
      /\ (last.expert < 0 <=> neg) /\ \A p \in 1 .. k - 1 : Holds(last, p) => ex[p] = last.expert
    <2>1. last \in Tile /\ TileOf(ex, last, k - 1, neg)
        BY <1>1, <1>3, Zenon
    <2>2. last.ncols # MaxCols
        BY Zenon DEF m
    <2>3. last.first \in Nat /\ last.ncols \in Nat /\ last.expert \in Int
        BY <2>1 DEF Tile
    <2> QED
        BY <1>4, <2>1, <2>2, <2>3, Zenon DEF TileOf
<1>6. wide.first = last.first /\ wide.ncols = last.ncols + 1 /\ wide.expert = last.expert
    <2>1. last \in Tile /\ wide = Wider(last)
        BY <1>2, <1>5, Zenon
    <2> HIDE DEF last, wide
    <2> QED
        BY ONLY <2>1, WiderIs, Zenon
<1> HIDE DEF last, wide
<1>7. \A p \in 1 .. k : Holds(wide, p) <=> Holds(last, p) \/ p = k
    <2>1. /\ last.first \in Nat /\ last.ncols \in Nat /\ last.first + last.ncols = k /\ last.first >= 1
          /\ wide.first = last.first /\ wide.ncols = last.ncols + 1
        BY <1>5, <1>6, Zenon
    <2> DEFINE f == last.first
               c == last.ncols
    <2>2. f \in Nat /\ c \in Nat /\ f + c = k /\ f >= 1 /\ k \in Nat
        BY <2>1
    <2>3. wide.first = f /\ wide.ncols = c + 1
        BY <2>1, Zenon
    <2> HIDE DEF f, c
    <2>4. \A p \in 1 .. k : p \in f .. f + (c + 1) - 1 <=> p \in f .. f + c - 1 \/ p = k
        BY ONLY <2>2, SMT
    <2> QED
        BY <2>3, <2>4, Zenon DEF Holds, f, c
<1>8. Holds(last, k - 1) /\ ~Holds(last, k)
    <2> DEFINE f == last.first
               c == last.ncols
    <2>1. f \in Nat /\ c \in 1 .. MaxCols /\ f + c = k /\ k \in Nat /\ MaxCols \in Nat
        BY <1>3, <1>5, MaxColsIs, Zenon
    <2> HIDE DEF f, c
    <2>2. k - 1 \in f .. f + c - 1 /\ k \notin f .. f + c - 1
        BY ONLY <2>1, SMT
    <2> QED
        BY <2>2, Zenon DEF Holds, f, c
<1>9. ex[k] = wide.expert
    BY <1>3, <1>5, <1>6, <1>8, Zenon
<1>10. TileOf(ex, wide, k, neg)
    <2>1. wide.ncols \in 1 .. MaxCols /\ wide.first >= 1 /\ wide.first + wide.ncols <= k + 1
        <3>1. /\ last.first \in Nat /\ last.ncols \in 1 .. MaxCols /\ last.ncols # MaxCols
              /\ last.first >= 1 /\ last.first + last.ncols = k
              /\ wide.first = last.first /\ wide.ncols = last.ncols + 1 /\ MaxCols \in Nat
            BY <1>5, <1>6, MaxColsIs, Zenon
        <3> DEFINE f == last.first
                   c == last.ncols
                   W == MaxCols
        <3>2. f \in Nat /\ c \in 1 .. W /\ c # W /\ f >= 1 /\ f + c = k /\ W \in Nat /\ wide.first = f /\ wide.ncols = c + 1
            BY <3>1, Zenon
        <3> HIDE DEF f, c, W
        <3>3. c + 1 \in 1 .. W /\ f >= 1 /\ f + (c + 1) <= k + 1
            BY ONLY <3>2, SMT
        <3> QED
            BY <3>2, <3>3, Zenon DEF W
    <2>2. \A p \in 1 .. k : p # k => p \in 1 .. k - 1
        OBVIOUS
    <2>3. \A p \in 1 .. k : Holds(wide, p) => ex[p] = wide.expert
        BY <1>5, <1>6, <1>7, <1>9, <2>2, Zenon
    <2> QED
        BY <1>5, <1>6, <2>1, <2>3, Zenon DEF TileOf
<1>11. \A a \in 1 .. m - 1 : TileOf(ex, longer[a], k, neg) /\ ~Holds(longer[a], k)
    <2> TAKE a \in 1 .. m - 1
    <2>1. a \in 1 .. m
        BY <1>1
    <2>2. k \in Nat /\ k >= 1
        OBVIOUS
    <2>3. TileOf(ex, list[a], k, neg) /\ ~Holds(list[a], k)
        BY ONLY <1>1, <2>1, <2>2, TileStays, Zenon
    <2> QED
        BY <1>2, <2>3, Zenon
<1>12. \A a \in 1 .. m : a # m => a \in 1 .. m - 1
    BY <1>1
<1>13. \A p \in 1 .. k : p # k => p \in 1 .. k - 1
    OBVIOUS
<1>14. \A a \in 1 .. m : TileOf(ex, longer[a], k, neg)
    BY <1>10, <1>11, <1>12, Zenon DEF wide
<1>15. \A a \in 1 .. m, p \in 1 .. k : p # k => (Holds(longer[a], p) <=> Holds(list[a], p))
    BY <1>2, <1>7, <1>12, Zenon DEF wide, last
<1>16. ASSUME NEW a \in 1 .. m, NEW b \in 1 .. m, NEW p \in 1 .. k, Holds(longer[a], p), Holds(longer[b], p)
       PROVE  a = b
    <2>1. CASE p = k
        BY <1>11, <1>12, <1>16, <2>1, Zenon
    <2>2. CASE p # k
        <3>1. p \in 1 .. k - 1 /\ Holds(list[a], p) /\ Holds(list[b], p)
            BY <1>13, <1>15, <1>16, <2>2, Zenon
        <3> QED
            BY <3>1, Zenon DEF Cut, m
    <2> QED
        BY <2>1, <2>2, Zenon
<1>17. ASSUME NEW p \in 1 .. k, ex[p] < 0 <=> neg
       PROVE  \E a \in 1 .. m : Holds(longer[a], p)
    <2>1. CASE p = k
        BY <1>3, <1>7, <2>1, Zenon DEF wide
    <2>2. CASE p # k
        <3>1. PICK a \in 1 .. m : Holds(list[a], p)
            BY <1>13, <1>17, <2>2, Zenon DEF Cut, m
        <3> QED
            BY <1>15, <2>2, <3>1, Zenon
    <2> QED
        BY <2>1, <2>2, Zenon
<1>18. longer # << >> /\ wide.first + wide.ncols = k + 1
    <2>1. longer # << >>
        BY <1>1, <1>2, <1>3
    <2> DEFINE f == last.first
               c == last.ncols
    <2>2. f \in Nat /\ c \in Nat /\ f + c = k /\ wide.first = f /\ wide.ncols = c + 1 /\ k \in Nat
        BY <1>3, <1>5, <1>6, Zenon
    <2> HIDE DEF f, c
    <2>3. f + (c + 1) = k + 1
        BY ONLY <2>2, SMT
    <2> QED
        BY <2>1, <2>2, <2>3, Zenon
<1> QED
    BY <1>2, <1>14, <1>16, <1>17, <1>18, Zenon DEF Cut, wide

\* The columns that t tiles of experts up to e have at least are among the first k
\* positions, when the last tile has c: only the last tile of an expert is not full.
Fits(t, e, c, k) == (t - (e + 2)) * MaxCols + c <= k

\* Fits survives a wider tile, a tile behind a full one, and a tile of a higher expert.
LEMMA FitsMore ==
    ASSUME NEW t \in Nat, NEW e \in Int, NEW c \in Nat, NEW k \in Nat, Fits(t, e, c, k)
    PROVE  /\ Fits(t, e, c + 1, k + 1)
           /\ c = MaxCols => Fits(t + 1, e, 1, k + 1)
           /\ c >= 1 => \A d \in Int : d > e => Fits(t + 1, d, 1, k + 1)
<1> DEFINE W == MaxCols
           x == t - (e + 2)
<1>1. W \in Nat /\ x \in Int
    BY MaxColsIs
<1>2. x * W \in Int /\ (x + 1) * W = x * W + W
    BY <1>1
<1>3. x * W + c <= k
    BY Zenon DEF Fits
<1>4. (t + 1) - (e + 2) = x + 1
    OBVIOUS
<1>5. ASSUME NEW d \in Int, d > e
      PROVE  ((t + 1) - (d + 2)) * W <= x * W
    <2> DEFINE y == (t + 1) - (d + 2)
    <2>1. y \in Int /\ y <= x
        BY <1>5
    <2> HIDE DEF x, y, W
    <2>2. PICK z \in Nat : x = y + z
        <3>1. x - y \in Nat /\ x = y + (x - y)
            BY <1>1, <2>1
        <3> QED
            BY <3>1, Zenon
    <2>3. (y + z) * W = y * W + z * W /\ z * W \in Nat /\ y * W \in Int
        BY <1>1, <2>1, <2>2
    <2> QED
        BY <2>2, <2>3 DEF y
<1>6. \A d \in Int : ((t + 1) - (d + 2)) * W \in Int
    <2>1. \A d \in Int : (t + 1) - (d + 2) \in Int
        OBVIOUS
    <2>2. \A z \in Int : z * W \in Int
        BY <1>1
    <2> HIDE DEF W
    <2> QED
        BY <2>1, <2>2, Zenon
<1> HIDE DEF x, W
<1>7. x * W + (c + 1) <= k + 1
    BY <1>2, <1>3
<1>8. c = W => ((t + 1) - (e + 2)) * W + 1 <= k + 1
    BY <1>1, <1>2, <1>3, <1>4
<1>9. ASSUME c >= 1, NEW d \in Int, d > e
      PROVE  ((t + 1) - (d + 2)) * W + 1 <= k + 1
    <2> DEFINE y == ((t + 1) - (d + 2)) * W
               z == x * W
    <2>1. y \in Int /\ z \in Int /\ y <= z /\ z + c <= k
        BY <1>2, <1>3, <1>5, <1>6, <1>9, Zenon
    <2> HIDE DEF y, z
    <2>2. y + 1 <= k + 1
        BY <1>9, <2>1
    <2> QED
        BY <2>2 DEF y
<1> QED
    BY <1>7, <1>8, <1>9, Zenon DEF Fits, W, x

\* The first tile fits.
LEMMA FitsFirst ==
    ASSUME NEW e \in Int, e >= -1
    PROVE  Fits(0 + 1, e, 1, 1)
<1> DEFINE W == MaxCols
           x == -(e + 1)
           z == e + 1
<1>1. W \in Nat /\ z \in Nat /\ (0 + 1) - (e + 2) = -z
    BY MaxColsIs
<1> HIDE DEF W, z
<1>2. (-z) * W = -(z * W) /\ z * W \in Nat
    BY <1>1
<1>3. (-z) * W + 1 <= 1
    BY <1>2
<1> QED
    BY <1>1, <1>3 DEF Fits, W

\* Experts in order, the shared one, -1, first.
Ascending(ex, n) ==
    /\ ex \in [1 .. n -> Int]
    /\ \A k \in 1 .. n : ex[k] >= -1
    /\ \A a, b \in 1 .. n : a <= b => ex[a] <= ex[b]

\* What was cut before position k: t tiles in all, the last with c columns.
CutBefore(ex, list, k, neg, t, c) ==
    /\ Cut(ex, list, k - 1, neg)
    /\ t \in Nat
    /\ k = 1 => t = 0 /\ list = << >>
    /\ k > 1 => /\ Fits(t, ex[k - 1], c, k - 1) /\ c \in Nat /\ c >= 1
                /\ (ex[k - 1] < 0 <=> neg) => c = list[Len(list)].ncols

\* longer is what position k makes of list.
Grows(n, ex, list, k, neg, t, c, longer) ==
    /\ n \in Nat /\ Ascending(ex, n) /\ k \in 1 .. n /\ neg \in BOOLEAN /\ (ex[k] < 0 <=> neg)
    /\ CutBefore(ex, list, k, neg, t, c)
    /\ longer = Extended(list, k, ex[k], IF k = 1 THEN ex[k] ELSE ex[k - 1])

\* One more position is cut: a new tile that fits, or a wider one.
CutAfter(ex, list, k, neg, t, longer) ==
    /\ Cut(ex, longer, k, neg)
    /\ \/ Len(longer) = Len(list) + 1 /\ Fits(t + 1, ex[k], longer[Len(longer)].ncols, k)
       \/ Len(longer) = Len(list) /\ Fits(t, ex[k], longer[Len(longer)].ncols, k)

\* The list of the kind of position k is cut up to it, and fits.
LEMMA CutMore ==
    ASSUME NEW n, NEW ex, NEW list, NEW k, NEW neg, NEW t, NEW c, NEW longer,
           Grows(n, ex, list, k, neg, t, c, longer)
    PROVE  CutAfter(ex, list, k, neg, t, longer)
<1>0. /\ n \in Nat /\ Ascending(ex, n) /\ k \in 1 .. n /\ neg \in BOOLEAN /\ (ex[k] < 0 <=> neg)
      /\ CutBefore(ex, list, k, neg, t, c)
      /\ longer = Extended(list, k, ex[k], IF k = 1 THEN ex[k] ELSE ex[k - 1])
    BY Zenon DEF Grows
<1> DEFINE before == IF k = 1 THEN ex[k] ELSE ex[k - 1]
           e == ex[k]
<1>1. /\ ex \in [1 .. n -> Int] /\ e \in Int /\ e >= -1 /\ k \in Nat /\ list \in Seq(Tile) /\ Len(list) \in Nat /\ t \in Nat
      /\ Cut(ex, list, k - 1, neg) /\ (k = 1 => t = 0 /\ list = << >>)
    BY <1>0 DEF Ascending, CutBefore, Cut
<1>2. k # 1 => /\ k \in 2 .. n /\ k > 1 /\ k - 1 \in 1 .. n /\ k - 1 \in Nat /\ (k - 1) + 1 = k
               /\ ex[k - 1] \in Int /\ ex[k - 1] <= e /\ k - 1 >= 1
    BY <1>0, <1>1 DEF Ascending
<1>3. k # 1 => /\ Fits(t, ex[k - 1], c, k - 1) /\ c \in Nat /\ c >= 1
               /\ (ex[k - 1] < 0 <=> neg) => c = list[Len(list)].ncols
    BY <1>0, <1>2, Zenon DEF CutBefore
<1> HIDE DEF e
<1>4. IF Starts(list, e, before) THEN WithNew(longer, list, k, e) ELSE WithWider(longer, list)
    <2>1. longer = Extended(list, k, e, before)
        BY <1>0, Zenon DEF e
    <2> HIDE DEF before
    <2> QED
        BY <1>0, <1>1, <2>1, ExtendedIs, Zenon
<1>5. CASE Starts(list, e, before)
    <2>1. WithNew(longer, list, k, e)
        BY <1>0, <1>4, <1>5, Zenon
    <2>2. Cut(ex, longer, k, neg)
        BY <1>0, <1>1, <2>1, CutNew, Zenon DEF e
    <2>3. Len(longer) = Len(list) + 1 /\ longer[Len(longer)].ncols = 1
        BY <1>0, <2>1 DEF WithNew
    <2>4. Fits(t + 1, e, 1, k)
        <3>1. CASE k = 1
            <4>1. t + 1 = 0 + 1
                BY <1>0, <1>1, <3>1, Zenon
            <4> QED
                BY <1>0, <1>1, <3>1, <4>1, FitsFirst, Zenon
        <3>2. CASE k # 1
            <4>1. e = before => c = MaxCols
                <5>1. SUFFICES ASSUME e = before
                               PROVE  c = MaxCols
                    BY Zenon
                <5>2. e = ex[k - 1] /\ (ex[k - 1] < 0 <=> neg)
                    BY <1>0, <3>2, <5>1, Zenon DEF e
                <5>3. list # << >> /\ c = list[Len(list)].ncols
                    BY <1>0, <1>2, <1>3, <3>2, <5>2, <1>1, Zenon DEF Cut
                <5> QED
                    BY <1>0, <1>5, <5>1, <5>3, Zenon DEF Starts, Full, Last
            <4>2. e # before => e > ex[k - 1]
                BY <1>0, <1>1, <1>2, <3>2
            <4>3. /\ c = MaxCols => Fits(t + 1, ex[k - 1], 1, (k - 1) + 1)
                  /\ \A d \in Int : d > ex[k - 1] => Fits(t + 1, d, 1, (k - 1) + 1)
                BY <1>0, <1>1, <1>2, <1>3, <3>2, FitsMore, Zenon
            <4> QED
                BY <1>0, <1>1, <1>2, <3>2, <4>1, <4>2, <4>3, Zenon
        <3> QED
            BY <1>0, <3>1, <3>2, Zenon
    <2> QED
        BY <2>2, <2>3, <2>4, Zenon DEF CutAfter, e
<1>6. CASE ~Starts(list, e, before)
    <2>1. WithWider(longer, list) /\ list # << >> /\ e = before /\ list[Len(list)].ncols # MaxCols
        BY <1>0, <1>4, <1>6, Zenon DEF Starts, Full, Last
    <2>2. k # 1 /\ e = ex[k - 1] /\ (ex[k - 1] < 0 <=> neg)
        BY <1>0, <1>1, <2>1, Zenon DEF e
    <2>3. Cut(ex, longer, k, neg)
        BY <1>0, <1>1, <1>2, <2>1, <2>2, CutWider, Zenon DEF e
    <2>4. c = list[Len(list)].ncols
        BY <1>0, <1>3, <2>2, Zenon
    <2>5. Len(longer) = Len(list) /\ longer[Len(longer)].ncols = c + 1
        <3>1. Len(list) \in 1 .. Len(list) /\ list[Len(list)] \in Tile
            BY <1>0, <1>1, <2>1
        <3>2. Wider(list[Len(list)]).ncols = list[Len(list)].ncols + 1
            BY ONLY <3>1, WiderIs, Zenon
        <3> QED
            BY <1>0, <2>1, <2>4, <3>2, Zenon DEF WithWider
    <2>6. Fits(t, ex[k - 1], c + 1, (k - 1) + 1)
        BY <1>0, <1>1, <1>2, <1>3, <2>2, FitsMore, Zenon
    <2> QED
        BY <1>0, <1>2, <2>2, <2>3, <2>5, <2>6, Zenon DEF CutAfter, e
<1> QED
    BY <1>5, <1>6, Zenon

\* The last tile that got a position, and its columns.
Current(ex, lists, k) == IF ex[k] < 0 THEN lists.shared ELSE lists.routed
LastCols(ex, lists, k) == Current(ex, lists, k)[Len(Current(ex, lists, k))].ncols
Count(lists) == Len(lists.routed) + Len(lists.shared)

\* The first k positions are cut.
CutUp(ex, lists, k) ==
    /\ lists \in Lists
    /\ Cut(ex, lists.shared, k, TRUE)
    /\ Cut(ex, lists.routed, k, FALSE)
    /\ k = 0 => lists = NoTiles
    /\ k >= 1 => Fits(Count(lists), ex[k], LastCols(ex, lists, k), k)

\* What is cut before position k is what CutMore needs of either list.
LEMMA CutUpBefore ==
    ASSUME NEW n \in Nat, NEW ex, Ascending(ex, n), NEW k \in 1 .. n, NEW lists, CutUp(ex, lists, k - 1)
    PROVE  \E c : /\ CutBefore(ex, lists.shared, k, TRUE, Count(lists), c)
                  /\ CutBefore(ex, lists.routed, k, FALSE, Count(lists), c)
<1> DEFINE c == LastCols(ex, lists, k - 1)
           t == Count(lists)
<1>1. lists.routed \in Seq(Tile) /\ lists.shared \in Seq(Tile)
    BY Zenon DEF CutUp, Lists
<1>2. t \in Nat
    <2>1. Len(lists.routed) \in Nat /\ Len(lists.shared) \in Nat
        BY <1>1
    <2>2. \A a, b \in Nat : a + b \in Nat
        OBVIOUS
    <2> QED
        BY <2>1, <2>2, Zenon DEF Count
<1>3. Cut(ex, lists.shared, k - 1, TRUE) /\ Cut(ex, lists.routed, k - 1, FALSE)
    BY Zenon DEF CutUp
<1>4. k = 1 => t = 0 /\ lists.shared = << >> /\ lists.routed = << >>
    <2> HAVE k = 1
    <2>1. k - 1 = 0
        OBVIOUS
    <2>2. lists = NoTiles
        BY <2>1, Zenon DEF CutUp
    <2> QED
        BY <2>2 DEF NoTiles, Count
<1>5. ASSUME k > 1
      PROVE  /\ Fits(t, ex[k - 1], c, k - 1) /\ c \in Nat /\ c >= 1
             /\ (ex[k - 1] < 0 <=> TRUE) => c = lists.shared[Len(lists.shared)].ncols
             /\ (ex[k - 1] < 0 <=> FALSE) => c = lists.routed[Len(lists.routed)].ncols
    <2>1. k - 1 >= 1 /\ k - 1 \in Nat
        BY <1>5
    <2>2. Fits(t, ex[k - 1], c, k - 1)
        BY <2>1, Zenon DEF CutUp
    <2>3. /\ (ex[k - 1] < 0 <=> TRUE) => c = lists.shared[Len(lists.shared)].ncols
          /\ (ex[k - 1] < 0 <=> FALSE) => c = lists.routed[Len(lists.routed)].ncols
        BY Zenon DEF LastCols, Current
    <2>4. \A list \in Seq(Tile), neg \in BOOLEAN :
             Cut(ex, list, k - 1, neg) /\ (ex[k - 1] < 0 <=> neg) =>
                 list[Len(list)].ncols \in 1 .. MaxCols
        <3> TAKE list \in Seq(Tile), neg \in BOOLEAN
        <3> HAVE Cut(ex, list, k - 1, neg) /\ (ex[k - 1] < 0 <=> neg)
        <3>1. list # << >>
            BY <2>1, Zenon DEF Cut
        <3>2. Len(list) \in 1 .. Len(list)
            BY <3>1
        <3> QED
            BY <3>2, Zenon DEF Cut, TileOf
    <2>5. c \in 1 .. MaxCols
        <3>1. CASE ex[k - 1] < 0
            <4>1. (ex[k - 1] < 0 <=> TRUE) /\ TRUE \in BOOLEAN
                BY <3>1, Zenon
            <4> QED
                BY <1>1, <1>3, <2>3, <2>4, <4>1, Zenon
        <3>2. CASE ~(ex[k - 1] < 0)
            <4>1. (ex[k - 1] < 0 <=> FALSE) /\ FALSE \in BOOLEAN
                BY <3>2, Zenon
            <4> QED
                BY <1>1, <1>3, <2>3, <2>4, <4>1, Zenon
        <3> QED
            BY <3>1, <3>2, Zenon
    <2>6. c \in Nat /\ c >= 1
        <3> HIDE DEF c
        <3> QED
            BY <2>5, MaxColsIs
    <2> QED
        BY <2>2, <2>3, <2>6, Zenon
<1> HIDE DEF c, t
<1>6. CutBefore(ex, lists.shared, k, TRUE, t, c)
    BY <1>2, <1>3, <1>4, <1>5, Zenon DEF CutBefore
<1>7. CutBefore(ex, lists.routed, k, FALSE, t, c)
    BY <1>2, <1>3, <1>4, <1>5, Zenon DEF CutBefore
<1> QED
    BY <1>6, <1>7, Zenon DEF t

\* One more position is cut.
LEMMA CutUpStep ==
    ASSUME NEW n \in Nat, NEW ex, Ascending(ex, n), NEW eid, NEW order,
           \A k \in 1 .. n : ex[k] = eid[order[k]],
           NEW k \in 1 .. n, NEW lists, CutUp(ex, lists, k - 1)
    PROVE  CutUp(ex, Longer(eid, order, lists, k), k)
<1> DEFINE L == Longer(eid, order, lists, k)
           e == ex[k]
           before == IF k = 1 THEN ex[k] ELSE ex[k - 1]
<1>1. ex \in [1 .. n -> Int] /\ e \in Int /\ eid[order[k]] = e /\ k \in Nat /\ lists \in Lists
    BY DEF Ascending, CutUp
<1>2. Before(eid, order, k) = before
    <2>1. k # 1 => k - 1 \in 1 .. n
        OBVIOUS
    <2> QED
        BY <2>1, Zenon DEF Before
<1>3. /\ L \in Lists
      /\ e < 0 => L.routed = lists.routed /\ L.shared = Extended(lists.shared, k, e, before)
      /\ ~(e < 0) => L.shared = lists.shared /\ L.routed = Extended(lists.routed, k, e, before)
    <2>1. lists \in Lists /\ k \in Nat /\ eid[order[k]] \in Int
        BY <1>1, Zenon
    <2> HIDE DEF e, before
    <2>2. /\ L \in Lists
          /\ eid[order[k]] < 0 =>
                /\ L.routed = lists.routed
                /\ L.shared = Extended(lists.shared, k, eid[order[k]], Before(eid, order, k))
          /\ ~(eid[order[k]] < 0) =>
                /\ L.shared = lists.shared
                /\ L.routed = Extended(lists.routed, k, eid[order[k]], Before(eid, order, k))
        BY ONLY <2>1, LongerIs, Zenon
    <2> QED
        BY <1>1, <1>2, <2>2, Zenon
<1>4. Cut(ex, lists.shared, k - 1, TRUE) /\ Cut(ex, lists.routed, k - 1, FALSE)
    BY Zenon DEF CutUp
<1>5. PICK c : /\ CutBefore(ex, lists.shared, k, TRUE, Count(lists), c)
               /\ CutBefore(ex, lists.routed, k, FALSE, Count(lists), c)
    BY CutUpBefore, Zenon
<1>6. /\ Len(lists.routed) \in Nat /\ Len(lists.shared) \in Nat
      /\ Len(L.routed) \in Nat /\ Len(L.shared) \in Nat /\ k # 0 /\ k >= 1
    BY <1>1, <1>3 DEF Lists
<1> HIDE DEF L
<1>7. CASE e < 0
    <2> DEFINE list == lists.shared
               longer == L.shared
    <2>1. longer = Extended(list, k, ex[k], before) /\ (ex[k] < 0 <=> TRUE) /\ TRUE \in BOOLEAN
        BY <1>3, <1>7, Zenon
    <2> HIDE DEF longer
    <2>2. CutAfter(ex, list, k, TRUE, Count(lists), longer)
        <3>1. Grows(n, ex, list, k, TRUE, Count(lists), c, longer)
            BY <1>5, <2>1, Zenon DEF Grows
        <3> HIDE DEF list
        <3> QED
            BY ONLY <3>1, CutMore, Zenon
    <2>3. Cut(ex, L.routed, k, FALSE)
        <3>1. ~(ex[k] < 0 <=> FALSE) /\ FALSE \in BOOLEAN
            BY <1>7, Zenon
        <3>2. Cut(ex, lists.routed, k, FALSE)
            BY ONLY <1>1, <1>4, <3>1, n \in Nat, k \in 1 .. n, CutOther, Zenon
        <3> QED
            BY <1>3, <1>7, <3>2, Zenon
    <2>4. LastCols(ex, L, k) = longer[Len(longer)].ncols
        BY <1>7, Zenon DEF LastCols, Current, longer
    <2>5. /\ Len(longer) = Len(list) + 1 => Count(L) = Count(lists) + 1
          /\ Len(longer) = Len(list) => Count(L) = Count(lists)
        <3>1. L.routed = lists.routed
            BY <1>3, <1>7, Zenon
        <3>2. Count(L) = Len(lists.routed) + Len(longer) /\ Count(lists) = Len(lists.routed) + Len(list)
            BY <3>1, Zenon DEF Count, longer
        <3>3. \A a, b, d \in Nat : d = b + 1 => a + d = (a + b) + 1
            OBVIOUS
        <3>4. Len(longer) \in Nat /\ Len(list) \in Nat
            BY <1>6, Zenon DEF longer
        <3>5. Len(lists.routed) \in Nat
            BY <1>6, Zenon
        <3> HIDE DEF list
        <3>6. Len(longer) = Len(list) + 1 => Len(lists.routed) + Len(longer) = (Len(lists.routed) + Len(list)) + 1
            BY ONLY <3>3, <3>4, <3>5, Zenon
        <3> QED
            BY <3>2, <3>6, Zenon
    <2>6. Fits(Count(L), ex[k], LastCols(ex, L, k), k)
        BY <2>2, <2>4, <2>5, Zenon DEF CutAfter
    <2> QED
        BY <1>3, <1>6, <2>2, <2>3, <2>6, Zenon DEF CutAfter, CutUp, longer, L
<1>8. CASE ~(e < 0)
    <2> DEFINE list == lists.routed
               longer == L.routed
    <2>1. longer = Extended(list, k, ex[k], before) /\ (ex[k] < 0 <=> FALSE) /\ FALSE \in BOOLEAN
        BY <1>3, <1>8, Zenon
    <2> HIDE DEF longer
    <2>2. CutAfter(ex, list, k, FALSE, Count(lists), longer)
        <3>1. Grows(n, ex, list, k, FALSE, Count(lists), c, longer)
            BY <1>5, <2>1, Zenon DEF Grows
        <3> HIDE DEF list
        <3> QED
            BY ONLY <3>1, CutMore, Zenon
    <2>3. Cut(ex, L.shared, k, TRUE)
        <3>1. ~(ex[k] < 0 <=> TRUE) /\ TRUE \in BOOLEAN
            BY <1>8, Zenon
        <3>2. Cut(ex, lists.shared, k, TRUE)
            BY ONLY <1>1, <1>4, <3>1, n \in Nat, k \in 1 .. n, CutOther, Zenon
        <3> QED
            BY <1>3, <1>8, <3>2, Zenon
    <2>4. LastCols(ex, L, k) = longer[Len(longer)].ncols
        BY <1>8, Zenon DEF LastCols, Current, longer
    <2>5. /\ Len(longer) = Len(list) + 1 => Count(L) = Count(lists) + 1
          /\ Len(longer) = Len(list) => Count(L) = Count(lists)
        <3>1. L.shared = lists.shared
            BY <1>3, <1>8, Zenon
        <3>2. Count(L) = Len(longer) + Len(lists.shared) /\ Count(lists) = Len(list) + Len(lists.shared)
            BY <3>1, Zenon DEF Count, longer
        <3>3. \A a, b, d \in Nat : d = b + 1 => d + a = (b + a) + 1
            OBVIOUS
        <3>4. Len(longer) \in Nat /\ Len(list) \in Nat
            BY <1>6, Zenon DEF longer
        <3>5. Len(lists.shared) \in Nat
            BY <1>6, Zenon
        <3> HIDE DEF list
        <3>6. Len(longer) = Len(list) + 1 => Len(longer) + Len(lists.shared) = (Len(list) + Len(lists.shared)) + 1
            BY ONLY <3>3, <3>4, <3>5, Zenon
        <3> QED
            BY <3>2, <3>6, Zenon
    <2>6. Fits(Count(L), ex[k], LastCols(ex, L, k), k)
        BY <2>2, <2>4, <2>5, Zenon DEF CutAfter
    <2> QED
        BY <1>3, <1>6, <2>2, <2>3, <2>6, Zenon DEF CutAfter, CutUp, longer, L
<1> QED
    BY <1>7, <1>8, Zenon

\* All positions are cut.
LEMMA TilesCut ==
    ASSUME NEW n \in Nat, NEW eid \in [1 .. n -> Int], \A i \in 1 .. n : eid[i] >= -1,
           NEW ex, ex = [k \in 1 .. n |-> eid[Order(eid)[k]]]
    PROVE  CutUp(ex, Tiles(eid), n) /\ Ascending(ex, n)
<1> DEFINE order == Order(eid)
<1>1. Sorted(eid, order, n)
    BY OrderSorted, Zenon
<1>2. order \in Seq(Nat) /\ Len(order) = n /\ \A k \in 1 .. n : order[k] \in 1 .. n
    BY <1>1, Zenon DEF Sorted
<1>3. \A a, b \in 1 .. n : a <= b => eid[order[a]] <= eid[order[b]]
    BY <1>1, Zenon DEF Sorted
<1> HIDE DEF order
<1>4. \A k \in 1 .. n : ex[k] = eid[order[k]] /\ eid[order[k]] \in Int /\ eid[order[k]] >= -1
    <2>1. \A k \in 1 .. n : ex[k] = eid[order[k]]
        BY Zenon DEF order
    <2> QED
        BY <1>2, <2>1, Zenon
<1>5. Ascending(ex, n)
    <2>1. ex \in [1 .. n -> Int]
        BY <1>4, Zenon DEF order
    <2> QED
        BY <1>3, <1>4, <2>1, Zenon DEF Ascending
<1>6. PICK f : f[0] = NoTiles /\ f[n] = Tiles(eid) /\ \A k \in 1 .. n : f[k] = Longer(eid, order, f[k - 1], k)
    <2>1. /\ n \in Nat /\ Len(Order(eid)) = n /\ Order(eid) \in Seq(Nat)
          /\ \A k \in 1 .. n : eid[Order(eid)[k]] \in Int
        BY <1>2, <1>4, Zenon DEF order
    <2> QED
        BY ONLY <2>1, CutInTurn, Zenon DEF order
<1> DEFINE T == {k \in 0 .. n : ~CutUp(ex, f[k], k)}
<1>7. ASSUME T # {}
      PROVE  FALSE
    <2>1. T \subseteq Nat
        OBVIOUS
    <2> HIDE DEF T
    <2>2. PICK k \in T : \A m \in T : k <= m
        BY <1>7, <2>1, LeastNat, Zenon
    <2>3. k \in 0 .. n /\ ~CutUp(ex, f[k], k)
        BY Zenon DEF T
    <2>4. k # 0
        <3>1. CutUp(ex, NoTiles, 0)
            <4>1. NoTiles \in Lists /\ NoTiles.routed = << >> /\ NoTiles.shared = << >>
                BY DEF NoTiles, Lists
            <4>2. \A neg : Cut(ex, << >>, 0, neg)
                BY DEF Cut
            <4>3. ~(0 >= 1)
                OBVIOUS
            <4> QED
                BY <4>1, <4>2, <4>3, Zenon DEF CutUp
        <3> QED
            BY <1>6, <2>3, <3>1, Zenon
    <2>5. k - 1 \in 0 .. n /\ k - 1 \notin T /\ k \in 1 .. n
        BY <2>2, <2>3, <2>4
    <2>6. CutUp(ex, f[k - 1], k - 1)
        BY <2>5, Zenon DEF T
    <2>7. CutUp(ex, Longer(eid, order, f[k - 1], k), k)
        BY <1>4, <1>5, <2>5, <2>6, CutUpStep, Zenon
    <2> QED
        BY <1>6, <2>3, <2>5, <2>7, Zenon
<1>8. n \in 0 .. n
    OBVIOUS
<1> QED
    BY <1>5, <1>6, <1>7, <1>8, Zenon

\* Division.
LEMMA Divided ==
    ASSUME NEW a \in Nat, NEW b \in Nat, b >= 1
    PROVE  /\ a \div b \in Nat /\ a % b \in 0 .. b - 1 /\ a = (a \div b) * b + (a % b)
           /\ \A x \in Nat : x * b <= a => x <= a \div b
           /\ \A q \in Nat : a = q * b => q = a \div b
<1>1. a \div b \in Nat /\ a % b \in 0 .. b - 1
    BY SMT
<1>2. a = (a \div b) * b + (a % b)
    BY SMT
<1>3. \A x \in Nat : x * b <= a => x <= a \div b
    BY SMT
<1>4. \A q \in Nat : a = q * b => q = a \div b
    BY SMT
<1> QED
    BY <1>1, <1>2, <1>3, <1>4, Zenon

\* The slots of whole rows, the shared expert last in each.
LEMMA RowSlotsAre ==
    ASSUME NEW routed \in Seq(0 .. NExp - 1)
    PROVE  \E rows \in Nat :
              /\ rows * Wide \in Nat
              /\ RowSlots(routed) \in [1 .. rows * Wide -> Int]
              /\ \A i \in 1 .. rows * Wide :
                    RowSlots(routed)[i] = Shared \/ RowSlots(routed)[i] \in 0 .. NExp - 1
<1> DEFINE l == Len(routed)
           V == Wide - 1
           rows == l \div V
           n == rows * Wide
<1>1. l \in Nat /\ Wide \in Nat /\ Wide > 1 /\ V \in Nat /\ V >= 1 /\ Wide >= 1
    BY MoeAssumption
<1> HIDE DEF l
<1>2. rows \in Nat /\ rows * V <= l
    <2>1. l \div V \in Nat /\ l % V \in 0 .. V - 1 /\ l = (l \div V) * V + (l % V)
        BY <1>1, Divided, Zenon
    <2> QED
        BY <1>1, <2>1
<1> HIDE DEF rows
<1>3. n \in Nat
    BY <1>1, <1>2
<1>4. ASSUME NEW i \in 1 .. n, i % Wide # 0
      PROVE  i - ((i - 1) \div Wide) \in 1 .. l
    <2> DEFINE q == (i - 1) \div Wide
               r == (i - 1) % Wide
    <2>0. i - 1 \in Nat /\ i \in Nat
        BY <1>3
    <2>1. q \in Nat /\ r \in 0 .. Wide - 1 /\ i - 1 = q * Wide + r
        BY <1>1, <2>0, Divided, Zenon
    <2> HIDE DEF q, r
    <2>2. r # Wide - 1
        <3> SUFFICES ASSUME r = Wide - 1
                     PROVE  FALSE
            OBVIOUS
        <3>1. i = (q + 1) * Wide /\ q + 1 \in Nat
            BY <1>1, <2>0, <2>1
        <3> DEFINE s == q + 1
        <3>2. s \in Nat /\ i = s * Wide
            BY <3>1
        <3> HIDE DEF s
        <3>3. s = i \div Wide /\ i = (i \div Wide) * Wide + (i % Wide) /\ i % Wide \in 0 .. Wide - 1
            BY <1>1, <2>0, <3>2, Divided, Zenon
        <3>4. i = i + (i % Wide)
            BY <3>2, <3>3, Zenon
        <3>5. i % Wide = 0
            BY <1>1, <2>0, <3>3, <3>4
        <3> QED
            BY <1>4, <3>5
    <2>3. q + 1 <= rows
        <3> SUFFICES ASSUME ~(q + 1 <= rows)
                     PROVE  FALSE
            OBVIOUS
        <3>1. q - rows \in Nat
            BY <1>2, <2>1
        <3>2. PICK z \in Nat : q = rows + z
            <4>1. q = rows + (q - rows)
                BY <1>2, <2>1
            <4> QED
                BY <3>1, <4>1, Zenon
        <3>3. q * Wide = rows * Wide + z * Wide /\ z * Wide \in Nat
            BY <1>1, <1>2, <3>2
        <3> QED
            BY <1>1, <1>3, <2>0, <2>1, <3>3
    <2>4. PICK z \in Nat : rows = (q + 1) + z
        <3>1. rows - (q + 1) \in Nat /\ rows = (q + 1) + (rows - (q + 1))
            BY <1>2, <2>1, <2>3
        <3> QED
            BY <3>1, Zenon
    <2>5. rows * V = q * V + V + z * V /\ z * V \in Nat /\ q * V \in Nat /\ q * Wide = q * V + q
        <3>1. Wide = V + 1
            BY <1>1
        <3> HIDE DEF V
        <3> QED
            BY <1>1, <2>1, <2>4, <3>1
    <2>6. i - q = q * V + (r + 1)
        BY <1>1, <2>0, <2>1, <2>5
    <2>7. r + 1 <= V /\ r + 1 >= 1
        BY <1>1, <2>1, <2>2
    <2> DEFINE a == q * V
               b == z * V
               c == rows * V
    <2>8. a \in Nat /\ b \in Nat /\ c = a + V + b /\ c <= l /\ i - q = a + (r + 1)
        BY <1>2, <2>5, <2>6
    <2> HIDE DEF a, b, c, V
    <2>9. i - q \in 1 .. l
        BY <1>1, <2>1, <2>7, <2>8
    <2> QED
        BY <2>9 DEF q
<1>5. RowSlots(routed) = [i \in 1 .. n |-> IF i % Wide = 0 THEN Shared ELSE routed[i - (i - 1) \div Wide]]
    BY Zenon DEF RowSlots, rows, l
<1> HIDE DEF n
<1>6. \A i \in 1 .. n : RowSlots(routed)[i] = Shared \/ RowSlots(routed)[i] \in 0 .. NExp - 1
    <2> TAKE i \in 1 .. n
    <2>1. CASE i % Wide = 0
        BY <1>5, <2>1, Zenon
    <2>2. CASE i % Wide # 0
        <3>1. i - ((i - 1) \div Wide) \in 1 .. Len(routed)
            BY <1>4, <2>2, Zenon DEF l
        <3>2. \A j \in 1 .. Len(routed) : routed[j] \in 0 .. NExp - 1
            BY ElementOfSeq, Zenon
        <3> QED
            BY <1>5, <2>2, <3>1, <3>2, Zenon
    <2> QED
        BY <2>1, <2>2, Zenon
<1>7. RowSlots(routed) \in [1 .. n -> Int]
    <2>1. Shared \in Int /\ \A e \in 0 .. NExp - 1 : e \in Int
        BY MoeAssumption DEF Shared
    <2>2. \A i \in 1 .. n : RowSlots(routed)[i] \in Int
        BY <1>6, <2>1, Zenon
    <2> QED
        BY <1>5, <2>2, Zenon
<1> QED
    BY <1>2, <1>3, <1>6, <1>7, Zenon DEF n

\* As many tiles as Fits allows have room.
LEMMA TilesFit ==
    ASSUME NEW t \in Nat, NEW e \in Int, e <= NExp - 1, NEW c \in Nat, NEW n \in Nat, Fits(t, e, c, n)
    PROVE  t <= n \div Narrow + NExp + 2
<1> DEFINE x == t - (e + 2)
           W == MaxCols
           m == n \div Narrow
<1>1. x \in Int /\ W \in Nat /\ Narrow \in Nat /\ W >= Narrow /\ Narrow >= 1 /\ NExp \in Nat
    BY MaxColsIs, MoeAssumption
<1>2. x * W + c <= n
    BY Zenon DEF Fits
<1>3. m \in Nat /\ \A y \in Nat : y * Narrow <= n => y <= m
    BY <1>1, Divided, Zenon
<1> HIDE DEF m, W
<1>4. CASE x <= 0
    <2>1. t <= e + 2
        BY <1>4
    <2>2. t <= m + NExp + 2
        BY <1>1, <1>3, <2>1
    <2> QED
        BY <2>2 DEF m
<1>5. CASE x > 0
    <2>1. x \in Nat
        BY <1>1, <1>5
    <2> HIDE DEF x
    <2>2. PICK z \in Nat : W = Narrow + z
        <3>1. W - Narrow \in Nat /\ W = Narrow + (W - Narrow)
            BY <1>1
        <3> QED
            BY <3>1, Zenon
    <2>3. x * W = x * Narrow + x * z /\ x * z \in Nat /\ x * Narrow \in Nat
        BY <1>1, <2>1, <2>2
    <2>4. x * Narrow <= n
        BY <1>2, <2>3
    <2>5. x <= m
        BY <1>3, <2>1, <2>4, Zenon
    <2>6. t <= m + NExp + 2
        BY <1>1, <1>3, <2>5 DEF x
    <2> QED
        BY <2>6 DEF m
<1> QED
    BY <1>1, <1>4, <1>5

\* Where a slot went.
LEMMA KPosIs ==
    ASSUME NEW n \in Nat, NEW eid \in [1 .. n -> Int], NEW i \in 1 .. n
    PROVE  /\ KPos(Order(eid))[i] \in 1 .. n
           /\ Order(eid)[KPos(Order(eid))[i]] = i
           /\ RowTok(Order(eid))[KPos(Order(eid))[i]] = (i - 1) \div Wide
<1> DEFINE order == Order(eid)
           p == CHOOSE k \in DOMAIN order : order[k] = i
<1>1. Sorted(eid, order, n)
    BY OrderSorted, Zenon
<1>2. DOMAIN order = 1 .. n
    BY <1>1 DEF Sorted
<1>3. \E k \in 1 .. n : order[k] = i
    BY <1>1, Zenon DEF Sorted
<1> HIDE DEF order
<1>4. p \in 1 .. n /\ order[p] = i
    BY <1>2, <1>3, Zenon
<1>5. KPos(order)[i] = p
    BY <1>2, Zenon DEF KPos
<1> HIDE DEF p
<1>6. RowTok(order)[p] = (i - 1) \div Wide
    BY <1>2, <1>4, Zenon DEF RowTok
<1> QED
    BY <1>4, <1>5, <1>6, Zenon DEF order

\* A position lies in one tile, that of its expert, in the list of its kind.
OneTile(ex, lists, p) ==
    \E tile \in ToSet(lists.routed) \cup ToSet(lists.shared) :
        /\ {other \in ToSet(lists.routed) \cup ToSet(lists.shared) : Holds(other, p)} = {tile}
        /\ tile.expert = ex[p]
        /\ tile \in ToSet(IF ex[p] = Shared THEN lists.shared ELSE lists.routed)

\* A list that is cut holds each position of its kind once, the other list none of them.
LEMMA PositionInOneTile ==
    ASSUME NEW n \in Nat, NEW ex \in [1 .. n -> Int], NEW lists, CutUp(ex, lists, n), NEW p \in 1 .. n,
           ex[p] >= -1
    PROVE  OneTile(ex, lists, p)
<1> DEFINE own == IF ex[p] < 0 THEN lists.shared ELSE lists.routed
           other == IF ex[p] < 0 THEN lists.routed ELSE lists.shared
<1>1. PICK neg \in BOOLEAN : /\ ex[p] < 0 <=> neg
                             /\ Cut(ex, own, n, neg) /\ Cut(ex, other, n, ~neg)
    <2>1. Cut(ex, lists.shared, n, TRUE) /\ Cut(ex, lists.routed, n, FALSE) /\ TRUE \in BOOLEAN /\ FALSE \in BOOLEAN
        BY Zenon DEF CutUp
    <2>2. CASE ex[p] < 0
        <3>1. (~TRUE) = FALSE
            OBVIOUS
        <3>2. Cut(ex, own, n, TRUE) /\ Cut(ex, other, n, ~TRUE)
            BY <2>1, <2>2, <3>1, Zenon
        <3> QED
            BY <2>1, <2>2, <3>2, Zenon
    <2>3. CASE ~(ex[p] < 0)
        <3>1. (~FALSE) = TRUE
            OBVIOUS
        <3>2. Cut(ex, own, n, FALSE) /\ Cut(ex, other, n, ~FALSE)
            BY <2>1, <2>3, <3>1, Zenon
        <3> QED
            BY <2>1, <2>3, <3>2, Zenon
    <2> QED
        BY <2>2, <2>3, Zenon
<1>2. ToSet(lists.routed) \cup ToSet(lists.shared) = ToSet(own) \cup ToSet(other)
    BY Zenon
<1>3. ex[p] = Shared <=> ex[p] < 0
    BY DEF Shared
<1> HIDE DEF own, other
<1>4. \A list, x : Cut(ex, list, n, x) =>
          DOMAIN list = 1 .. Len(list) /\ ToSet(list) = {list[a] : a \in 1 .. Len(list)}
    BY DEF Cut, ToSet
<1>5. PICK a \in 1 .. Len(own) : Holds(own[a], p)
    BY <1>1, Zenon DEF Cut
<1>6. own[a] \in ToSet(own)
    BY <1>1, <1>4, <1>5, Zenon
<1>7. own[a].expert = ex[p]
    BY <1>1, <1>5, Zenon DEF Cut, TileOf
<1>8. ASSUME NEW tile \in ToSet(own), Holds(tile, p)
      PROVE  tile = own[a]
    <2>1. PICK b \in 1 .. Len(own) : tile = own[b]
        BY <1>1, <1>4, <1>8, Zenon
    <2> QED
        BY <1>1, <1>5, <1>8, <2>1, Zenon DEF Cut
<1>9. ASSUME NEW tile \in ToSet(other)
      PROVE  ~Holds(tile, p)
    <2>1. PICK b \in 1 .. Len(other) : tile = other[b]
        BY <1>1, <1>4, <1>9, Zenon
    <2>2. TileOf(ex, tile, n, ~neg)
        BY <1>1, <2>1, Zenon DEF Cut
    <2> QED
        BY <1>1, <2>2, Zenon DEF TileOf
<1>10. {t \in ToSet(own) \cup ToSet(other) : Holds(t, p)} = {own[a]}
    BY <1>5, <1>6, <1>8, <1>9, Zenon
<1>11. own = IF ex[p] = Shared THEN lists.shared ELSE lists.routed
    BY <1>3, Zenon DEF own
<1> QED
    BY <1>2, <1>6, <1>7, <1>10, <1>11, Zenon DEF OneTile

\* No tile is empty, and none wider than a kernel takes.
LEMMA TilesWide ==
    ASSUME NEW n, NEW ex, NEW lists, CutUp(ex, lists, n), NEW tile \in ToSet(lists.routed) \cup ToSet(lists.shared)
    PROVE  tile.ncols \in 1 .. MaxCols
<1>1. PICK list, neg : tile \in ToSet(list) /\ Cut(ex, list, n, neg)
    BY Zenon DEF CutUp
<1>2. PICK a \in 1 .. Len(list) : tile = list[a]
    BY <1>1 DEF Cut, ToSet
<1> QED
    BY <1>1, <1>2, Zenon DEF Cut, TileOf

\* The list of tiles fits.
LEMMA ListsFit ==
    ASSUME NEW n \in Nat, NEW ex, Ascending(ex, n), \A k \in 1 .. n : ex[k] <= NExp - 1,
           NEW lists, CutUp(ex, lists, n)
    PROVE  Count(lists) <= n \div Narrow + NExp + 2
<1>1. NExp \in Nat /\ Narrow \in Nat /\ Narrow >= 1
    BY MoeAssumption, MaxColsIs
<1>2. n \div Narrow \in Nat
    BY <1>1, Divided, Zenon
<1>3. CASE n = 0
    <2>1. Count(lists) = 0
        BY <1>3 DEF CutUp, NoTiles, Count
    <2> QED
        BY <1>1, <1>2, <2>1
<1>4. CASE n # 0
    <2>1. n >= 1 /\ n \in 1 .. n
        BY <1>4
    <2>2. Fits(Count(lists), ex[n], LastCols(ex, lists, n), n)
        BY <2>1, Zenon DEF CutUp
    <2>3. Count(lists) \in Nat
        <3>1. Len(lists.routed) \in Nat /\ Len(lists.shared) \in Nat
            BY DEF CutUp, Lists
        <3>2. \A a, b \in Nat : a + b \in Nat
            OBVIOUS
        <3> QED
            BY <3>1, <3>2, Zenon DEF Count
    <2>4. LastCols(ex, lists, n) \in Nat
        <3> DEFINE list == Current(ex, lists, n)
        <3>1. PICK neg \in BOOLEAN : Cut(ex, list, n, neg) /\ (ex[n] < 0 <=> neg)
            <4>1. TRUE \in BOOLEAN /\ FALSE \in BOOLEAN
                OBVIOUS
            <4> QED
                BY <4>1, Zenon DEF CutUp, Current
        <3> HIDE DEF list
        <3>2. list \in Seq(Tile) /\ list # << >>
            BY <2>1, <3>1, Zenon DEF Cut
        <3>3. list[Len(list)] \in Tile
            BY <3>2
        <3>4. list[Len(list)].ncols \in Nat
            BY <3>3, Zenon DEF Tile
        <3> QED
            BY <3>4, Zenon DEF LastCols, list
    <2>5. ex[n] \in Int /\ ex[n] <= NExp - 1
        BY <2>1 DEF Ascending
    <2> QED
        BY ONLY <2>2, <2>3, <2>4, <2>5, n \in Nat, TilesFit, Zenon
<1> QED
    BY <1>3, <1>4

\* What a work list keeps, for every routing of every number of rows.
Covered(eid) ==
    LET order == Order(eid)
        lists == Tiles(eid)
        all == ToSet(lists.routed) \cup ToSet(lists.shared)
    IN  /\ \A i \in DOMAIN eid :
              /\ order[KPos(order)[i]] = i
              /\ RowTok(order)[KPos(order)[i]] = (i - 1) \div Wide
              /\ \E tile \in all :
                    /\ {other \in all : Holds(other, KPos(order)[i])} = {tile}
                    /\ tile.expert = eid[i]
                    /\ tile \in ToSet(IF eid[i] = Shared THEN lists.shared ELSE lists.routed)
        /\ \A tile \in all : tile.ncols \in 1 .. MaxCols
        /\ Len(lists.routed) + Len(lists.shared) <= TileRoom(Len(eid) \div Wide)

\* The order, kpos, rowtok and the tiles of any routed rows (qwen4exp.cpp:628-645).
LEMMA SlotsCovered ==
    ASSUME NEW routed \in Seq(0 .. NExp - 1)
    PROVE  Covered(RowSlots(routed))
<1>1. PICK rows \in Nat :
        /\ rows * Wide \in Nat
        /\ RowSlots(routed) \in [1 .. rows * Wide -> Int]
        /\ \A i \in 1 .. rows * Wide : RowSlots(routed)[i] = Shared \/ RowSlots(routed)[i] \in 0 .. NExp - 1
    BY RowSlotsAre, Zenon
<1> DEFINE n == rows * Wide
           eid == RowSlots(routed)
           order == Order(eid)
           lists == Tiles(eid)
           ex == [k \in 1 .. n |-> eid[order[k]]]
<1>2. n \in Nat /\ n \div Wide = rows
    <2>1. Wide \in Nat /\ Wide >= 1
        BY MoeAssumption
    <2> DEFINE m == rows * Wide
    <2>2. m \in Nat /\ m = rows * Wide
        BY <1>1
    <2> HIDE DEF m
    <2>3. rows = m \div Wide
        BY <1>1, <2>1, <2>2, Divided, Zenon
    <2> QED
        BY <2>2, <2>3, Zenon
<1>3. n = (n \div Wide) * Wide
    BY <1>2, Zenon
<1> HIDE DEF n, eid
<1>4. eid \in [1 .. n -> Int] /\ DOMAIN eid = 1 .. n /\ Len(eid) = n
    <2>1. eid \in [1 .. n -> Int]
        BY <1>1, Zenon DEF n, eid
    <2> QED
        BY <1>2, <2>1
<1>5. NExp \in Nat /\ NExp >= 1
    BY MoeAssumption
<1>6. \A i \in 1 .. n : eid[i] >= -1 /\ eid[i] <= NExp - 1
    <2> TAKE i \in 1 .. n
    <2>1. eid[i] = -1 \/ eid[i] \in 0 .. NExp - 1
        BY <1>1, Zenon DEF n, eid, Shared
    <2> HIDE DEF eid
    <2> QED
        BY <1>5, <2>1
<1>7. CutUp(ex, lists, n) /\ Ascending(ex, n)
    <2>1. n \in Nat /\ eid \in [1 .. n -> Int] /\ \A i \in 1 .. n : eid[i] >= -1
        BY <1>2, <1>4, <1>6, Zenon
    <2>2. ex = [k \in 1 .. n |-> eid[Order(eid)[k]]]
        BY Zenon
    <2> HIDE DEF ex
    <2> QED
        BY ONLY <2>1, <2>2, TilesCut, Zenon DEF lists
<1>8. \A k \in 1 .. n : order[k] \in 1 .. n
    BY <1>2, <1>4, OrderSorted, Zenon DEF Sorted
<1>9. \A k \in 1 .. n : ex[k] = eid[order[k]] /\ ex[k] <= NExp - 1 /\ ex[k] >= -1
    BY <1>6, <1>8, Zenon
<1>10. Count(lists) <= TileRoom(Len(eid) \div Wide)
    <2> HIDE DEF ex, lists
    <2>1. Count(lists) <= n \div Narrow + NExp + 2
        BY <1>2, <1>7, <1>9, ListsFit, Zenon
    <2> QED
        BY <1>3, <1>4, <2>1, Zenon DEF TileRoom
<1>11. \A tile \in ToSet(lists.routed) \cup ToSet(lists.shared) : tile.ncols \in 1 .. MaxCols
    <2> HIDE DEF ex, lists
    <2> QED
        BY <1>7, TilesWide, Zenon
<1>12. ASSUME NEW i \in 1 .. n
       PROVE  /\ order[KPos(order)[i]] = i
              /\ RowTok(order)[KPos(order)[i]] = (i - 1) \div Wide
              /\ \E tile \in ToSet(lists.routed) \cup ToSet(lists.shared) :
                    /\ {other \in ToSet(lists.routed) \cup ToSet(lists.shared) : Holds(other, KPos(order)[i])} = {tile}
                    /\ tile.expert = eid[i]
                    /\ tile \in ToSet(IF eid[i] = Shared THEN lists.shared ELSE lists.routed)
    <2> DEFINE p == KPos(order)[i]
    <2>1. p \in 1 .. n /\ order[p] = i /\ RowTok(order)[p] = (i - 1) \div Wide
        <3>1. n \in Nat /\ eid \in [1 .. n -> Int] /\ i \in 1 .. n
            BY <1>2, <1>4, Zenon
        <3> QED
            BY ONLY <3>1, KPosIs, Zenon
    <2> HIDE DEF p
    <2>2. ex[p] = eid[i] /\ ex[p] >= -1
        BY <1>9, <2>1, Zenon
    <2>3. ex \in [1 .. n -> Int]
        BY <1>7, Zenon DEF Ascending
    <2> HIDE DEF ex, lists, order
    <2>4. OneTile(ex, lists, p)
        BY <1>2, <1>7, <2>1, <2>2, <2>3, PositionInOneTile, Zenon
    <2> QED
        BY <2>1, <2>2, <2>4, Zenon DEF OneTile, p
<1> QED
    BY <1>4, <1>10, <1>11, <1>12, Zenon DEF Covered, Count, eid

-----------------------------------------------------------------------------
(* The inputs.                                                             *)

\* The inputs of the algorithms below; of the others only the name.
InputInv ==
    \/ input = [alg |-> "none"]
    \/ \E cp \in CodePoints : input = [alg |-> "codepoint", data |-> <<cp>>]
    \/ \E routed \in Seq(0 .. NExp - 1) : input = [alg |-> "slots", data |-> routed]
    \/ \E data, table : input = [alg |-> "merges", data |-> data, table |-> table]
    \/ \E alg, data : /\ input = [alg |-> alg, data |-> data]
                      /\ alg \in {"chunks", "specials", "messages", "answer", "tensors", "row"}

\* No input is any yet; and every step leaves one of these inputs.
LEMMA InputInvInit == Init => InputInv
BY DEF Init, InputInv

LEMMA InputInvNext == InputInv /\ [Next]_input => InputInv'
<1> SUFFICES ASSUME InputInv, [Next]_input
             PROVE  InputInv'
    OBVIOUS
<1>1. CASE TypeChar
    BY <1>1 DEF TypeChar, InputInv
<1>2. CASE AddMerge
    BY <1>2 DEF AddMerge, InputInv
<1>3. CASE TypeAtom
    <2>1. PICK data, table : input = [alg |-> "merges", data |-> data, table |-> table]
        BY <1>3, SMT DEF TypeAtom, InputInv
    <2>2. PICK a \in Atom : input' = [input EXCEPT !.data = Append(@, a)]
        BY <1>3, Zenon DEF TypeAtom
    <2>3. input' = [alg |-> "merges", data |-> Append(data, a), table |-> table]
        BY <2>1, <2>2
    <2> QED
        BY <2>3, Zenon DEF InputInv
<1>4. CASE TypeSign
    BY <1>4 DEF TypeSign, InputInv
<1>5. CASE PickCodePoint
    BY <1>5 DEF PickCodePoint, InputInv
<1>6. CASE AddMessage
    BY <1>6 DEF AddMessage, InputInv
<1>7. CASE PickAnswer
    BY <1>7 DEF PickAnswer, InputInv
<1>8. CASE AddSlot
    <2>1. Data \in Seq(0 .. NExp - 1)
        <3>1. CASE input = [alg |-> "none"]
            BY <3>1 DEF Data
        <3>2. CASE input # [alg |-> "none"]
            <4>1. input.alg \in {"none", "slots"}
                BY <1>8 DEF AddSlot, Is
            <4>2. PICK routed \in Seq(0 .. NExp - 1) : input = [alg |-> "slots", data |-> routed]
                BY <3>2, <4>1 DEF InputInv
            <4> QED
                BY <4>2 DEF Data
        <3> QED
            BY <3>1, <3>2
    <2>2. PICK e \in 0 .. NExp - 1 : input' = [alg |-> "slots", data |-> Append(Data, e)]
        BY <1>8, Zenon DEF AddSlot
    <2>3. Append(Data, e) \in Seq(0 .. NExp - 1)
        BY <2>1, <2>2
    <2> QED
        BY <2>2, <2>3, Zenon DEF InputInv
<1>9. CASE AddTensor
    BY <1>9 DEF AddTensor, InputInv
<1>10. CASE PickRow
    BY <1>10 DEF PickRow, InputInv
<1>11. CASE UNCHANGED input
    BY <1>11 DEF InputInv
<1> QED
    BY <1>1, <1>2, <1>3, <1>4, <1>5, <1>6, <1>7, <1>8, <1>9, <1>10, <1>11 DEF Next

LEMMA InputInvIsInvariant == Spec => []InputInv
BY InputInvInit, InputInvNext, PTL DEF Spec

\* Whatever code point of Unicode append_cp is given, decode_cp gives it back and
\* takes all of its bytes, each of which is a byte, or those the text has of them if
\* it ends there; and no two bytes have the same
\* symbol in the byte alphabet (tokenizer.cpp:11-46), so that piece() can give back
\* the bytes a text had.
THEOREM CodePointsRoundTrip == Spec => []CodePointsSurvive
<1>1. InputInv => CodePointsSurvive
    <2> SUFFICES ASSUME InputInv, input.alg = "codepoint"
                 PROVE  LET cp == Data[1]
                            bytes == AppendCp(cp)
                        IN  /\ DecodeCp(bytes, 1) = [cp |-> cp, next |-> Len(bytes) + 1]
                            /\ \A m \in 1 .. Len(bytes) : DecodeCp(SubSeq(bytes, 1, m), 1).next = m + 1
                            /\ \A b \in 1 .. Len(bytes) : bytes[b] \in 0 .. 255
                            /\ cp \in 0 .. 255 => \A b \in (0 .. 255) \ {cp} : ByteCp(b) # ByteCp(cp)
        BY DEF CodePointsSurvive
    <2>1. Data[1] \in CodePoints
        BY DEF InputInv, Data
    <2> QED
        <3> DEFINE cp == Data[1]
        <3>1. cp \in CodePoints
            BY <2>1, Zenon
        <3> HIDE DEF cp
        <3>2. /\ Survives(cp, AppendCp(cp))
              /\ cp \in 0 .. 255 => \A b \in (0 .. 255) \ {cp} : ByteCp(b) # ByteCp(cp)
            BY ONLY <3>1, CodePointsKept, SMT
        <3> QED
            BY ONLY <3>2, SMT DEF Survives, ReadToEnd, cp
<1> QED
    BY <1>1, InputInvIsInvariant, PTL

\* Whatever experts the rows of a prefill pass are routed to, and however many rows
\* there are, every slot lies in exactly one tile, that of its expert, in the list of
\* its kind; kpos and rowtok lead from a slot to its position and from there to its
\* row; no tile is wider than a kernel takes, and all tiles fit the device buffer
\* (qwen4exp.cpp:628-645, 203).
THEOREM TilesCover == Spec => []TilesCoverTheSlots
<1>1. InputInv => TilesCoverTheSlots
    <2> SUFFICES ASSUME InputInv, input.alg = "slots"
                 PROVE  Covered(RowSlots(Data))
        BY Zenon DEF TilesCoverTheSlots, Covered, Holds
    <2>1. Data \in Seq(0 .. NExp - 1)
        BY DEF InputInv, Data
    <2> QED
        BY <2>1, SlotsCovered, Zenon
<1> QED
    BY <1>1, InputInvIsInvariant, PTL
=============================================================================
