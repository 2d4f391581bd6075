----------------------------- MODULE Algorithms -----------------------------
(***************************************************************************)
(* The pure algorithms of the program against definitions of what they     *)
(* compute.  The state is the input of one of them; every step makes it    *)
(* one piece longer, so that the runs reach every input up to the bounds   *)
(* below, the shortest first.                                              *)
(***************************************************************************)
EXTENDS ChatText, Tokenizer, MoeTiles, ModelLoad, WeightFormats

CONSTANTS
    Char, MaxText,          \* texts for the pre-tokenizer
    Atom, MaxMerges, MaxAtoms,  \* merge tables and chunks
    Sign, MaxSigns, Table,  \* texts with special tokens in them, and their table
    CodePoints,             \* code points to take apart and put together
    Roles, MaxMessages,     \* conversations
    Answers,                \* assistant messages
    MaxSlots,               \* slots of a prefill pass
    Tensor, MaxTensors,     \* tensors a writer may put in a file, [bytes, type]
    Headers, Aligns,        \* what the files of one model say of themselves
    Paces,                  \* what the pread calls of one load return at most
    Types, MaxBlocks        \* types of tensors, and blocks of 256 weights in a row

\* The last code point of Unicode, U+10FFFF.
LastCodePoint == 1114111

ASSUME AlgorithmsAssumption == CodePoints \subseteq 0 .. LastCodePoint

VARIABLE input

-----------------------------------------------------------------------------
(* Inputs                                                                  *)

Is(alg) == input.alg \in {"none", alg}
Data == IF input.alg = "none" THEN << >> ELSE input.data

TypeChar ==
    /\ Is("chunks")
    /\ Len(Data) < MaxText
    /\ \E c \in Char : input' = [alg |-> "chunks", data |-> Append(Data, c)]

\* A merge joins two symbols there are already into one there is not yet.
AddMerge ==
    LET table == IF input.alg = "none" THEN << >> ELSE input.table
        symbols == {<<a>> : a \in Atom} \cup {m[1] \o m[2] : m \in ToSet(table)}
    IN  /\ Is("merges")
        /\ Data = << >>
        /\ Len(table) < MaxMerges
        /\ \E a, b \in symbols :
              /\ a \o b \notin symbols
              /\ input' = [alg |-> "merges", data |-> << >>, table |-> Append(table, <<a, b>>)]

TypeAtom ==
    /\ input.alg = "merges"
    /\ Len(Data) < MaxAtoms
    /\ \E a \in Atom : input' = [input EXCEPT !.data = Append(@, a)]

TypeSign ==
    /\ Is("specials")
    /\ Len(Data) < MaxSigns
    /\ \E c \in Sign : input' = [alg |-> "specials", data |-> Append(Data, c)]

PickCodePoint ==
    /\ input.alg = "none"
    /\ \E cp \in CodePoints : input' = [alg |-> "codepoint", data |-> <<cp>>]

\* A message of each role; every assistant message calls a tool.
Message(role) ==
    [role |-> role, reasoning |-> << >>, content |-> IF role = "developer" THEN << >> ELSE <<"hi">>,
     calls |-> IF role = "assistant" THEN <<[name |-> "f", args |-> << >>]>> ELSE << >>]

AddMessage ==
    /\ Is("messages")
    /\ Len(Data) < MaxMessages
    /\ \E role \in Roles : input' = [alg |-> "messages", data |-> Append(Data, Message(role))]

PickAnswer ==
    /\ input.alg = "none"
    /\ \E m \in Answers : input' = [alg |-> "answer", data |-> <<m>>]

AddSlot ==
    /\ Is("slots")
    /\ Len(Data) < MaxSlots
    /\ \E e \in 0 .. NExp - 1 : input' = [alg |-> "slots", data |-> Append(Data, e)]

AddTensor ==
    /\ Is("tensors")
    /\ Len(Data) < MaxTensors
    /\ \E t \in Tensor : input' = [alg |-> "tensors", data |-> Append(Data, t)]

PickRow ==
    /\ input.alg = "none"
    /\ \E type \in Types, nb \in 1 .. MaxBlocks : input' = [alg |-> "row", data |-> <<type, nb>>]

Init == input = [alg |-> "none"]

Next ==
    \/ TypeChar
    \/ AddMerge
    \/ TypeAtom
    \/ TypeSign
    \/ PickCodePoint
    \/ AddMessage
    \/ PickAnswer
    \/ AddSlot
    \/ AddTensor
    \/ PickRow

Spec == Init /\ [][Next]_input

-----------------------------------------------------------------------------
(* Tokenizer                                                               *)

\* The longest match of the first alternative of the regular expression that
\* has one at i, read off the expression and not off the code.
RegexEnd(t, i) ==
    LET Ends(In(_)) == {e \in i + 1 .. Len(t) + 1 : In(SubSeq(t, i, e - 1))}
        All(w, S) == ToSet(w) \subseteq S
        Other == ToSet(t) \ (White \cup Wordly \cup Digit)
        Split(w, A(_), B(_)) ==
            \E m \in 0 .. Len(w) : A(SubSeq(w, 1, m)) /\ B(SubSeq(w, m + 1, Len(w)))
        Some(S, w) == w # << >> /\ All(w, S)
        Opt(S, w) == w = << >> \/ (Len(w) = 1 /\ All(w, S))
        alternatives ==
            <<Ends(LAMBDA w : w \in {<<Quote, c>> : c \in Short} \cup {<<Quote, p[1], p[2]>> : p \in Long}),
              Ends(LAMBDA w : Split(w, LAMBDA v : Opt(ToSet(t) \ (Newline \cup Letter \cup Digit), v),
                                       LAMBDA v : Some(Wordly, v))),
              Ends(LAMBDA w : Len(w) = 1 /\ All(w, Digit)),
              Ends(LAMBDA w : Split(w, LAMBDA v : \E m \in 0 .. Len(v) :
                                            Opt({Space}, SubSeq(v, 1, m)) /\ Some(Other, SubSeq(v, m + 1, Len(v))),
                                       LAMBDA v : All(v, Newline))),
              Ends(LAMBDA w : Split(w, LAMBDA v : All(v, White), LAMBDA v : Some(Newline, v))),
              {e \in Ends(LAMBDA w : Some(White, w)) : e > Len(t) \/ t[e] \in White},
              Ends(LAMBDA w : Some(White, w))>>
    IN  Max(alternatives[SelectInSeq(alternatives, LAMBDA S : S # {})])

\* Line breaks with blanks between them follow: here the code stops at the first
\* group of line breaks where the expression goes on to the last.
BlankLines(t, i) ==
    \E a, b, c \in i .. RunEnd(t, i, White) - 1 :
        a < b /\ b < c /\ t[a] \in Newline /\ t[b] \in Blank /\ t[c] \in Newline

\* At every place of every text the hand-written pre-tokenizer
\* (tokenizer.cpp:75-107) takes the chunk its regular expression (line 67) would
\* take, blank lines with blanks in them left out.
ChunksFollowTheRegex ==
    input.alg = "chunks" =>
        \A i \in DOMAIN Data : BlankLines(Data, i) \/ ChunkEnd(Data, i) = RegexEnd(Data, i)

\* One merge of the training run: every occurrence of the pair, from the left.
MergeAll(sym, m) ==
    FoldLeft(LAMBDA out, s : IF out # << >> /\ <<Last(out), s>> = m
                             THEN Append(Front(out), Last(out) \o s)
                             ELSE Append(out, s),
             << >>, sym)

\* The merge loop, which looks for the best pair again after every single merge
\* (tokenizer.cpp:117-122), splits a chunk as the training run did, which took
\* the merges in their order, each everywhere at once.
TokensAsTrained ==
    input.alg = "merges" /\ Data # << >> =>
        Bpe(Data, input.table) =
            IF Data \in Vocabulary(input.table) THEN <<Data>>
            ELSE FoldLeft(MergeAll, [i \in DOMAIN Data |-> <<Data[i]>>], input.table)

\* Special tokens that begin at place i of a text.
SpecialsAt(t, i, S) == {sp \in S : IsPrefix(sp, SubSeq(t, i, Len(t)))}

\* Every token begins where the ones before it end in their text; it is the
\* longest of the special tokens that begin there, and covers none otherwise.
Whole(tokens, parse) ==
    LET At(n) == Len(Decode(SubSeq(tokens, 1, n - 1))) + 1
        Best(i) == IF SpecialsAt(Data, i, UserDefined) # {} THEN SpecialsAt(Data, i, UserDefined)
                   ELSE IF parse THEN SpecialsAt(Data, i, Control) ELSE {}
    IN  \A n \in DOMAIN tokens :
            IF Best(At(n)) # {}
            THEN tokens[n] \in Best(At(n)) /\ \A sp \in Best(At(n)) : Len(sp) <= Len(tokens[n])
            ELSE \A i \in At(n) .. At(n) + Len(tokens[n]) - 1 : Best(i) = {}

\* The tokens of a text spell it (tok_test.cpp:37); the longest special token
\* that begins at a place is taken whole, user-defined ones before control
\* tokens, and no other token hides the beginning of one (tokenizer.cpp:126-134).
SpecialsStayWhole ==
    input.alg = "specials" =>
        \A parse \in BOOLEAN :
            LET tokens == Encode(Data, parse, Table) IN Decode(tokens) = Data /\ Whole(tokens, parse)

\* A code point survives append_cp and decode_cp, its bytes are read up to the end
\* of the text and no further wherever that cuts them off, and no two bytes share a
\* symbol (tokenizer.cpp:11-46): what piece() relies on to give back the bytes a
\* text had, and the scanner to get through any text.
CodePointsSurvive ==
    input.alg = "codepoint" =>
        LET cp == Data[1]
            bytes == AppendCp(cp)
        IN  /\ DecodeCp(bytes, 1) = [cp |-> cp, next |-> Len(bytes) + 1]
            /\ \A m \in 1 .. Len(bytes) : DecodeCp(SubSeq(bytes, 1, m), 1).next = m + 1
            /\ \A b \in 1 .. Len(bytes) : bytes[b] \in 0 .. 255
            /\ cp \in 0 .. 255 => \A b \in (0 .. 255) \ {cp} : ByteCp(b) # ByteCp(cp)

-----------------------------------------------------------------------------
(* Chat template                                                           *)

\* Every conversation is refused or becomes turns that open and close in
\* alternation, one for each user and assistant message, one for each run of
\* tool results, with the answer's turn left open (chat.cpp:17-71).
TurnsClose ==
    input.alg = "messages" =>
        \A tools, thinking \in BOOLEAN, effort \in {"high", "medium", "none"} :
            LET text == Render(Data, [tools |-> tools, thinking |-> thinking, effort |-> effort])
                tags == SelectSeq(text, LAMBDA w : w \in {Start, Stop})
                Is1(i, roles) == Data[i].role \in roles
                late == \E i \in DOMAIN Data : i > NumSys(Data) /\ Is1(i, System)
                turns == {i \in DOMAIN Data : Is1(i, {"user", "assistant"})
                                              \/ (Is1(i, {"tool"}) /\ (i = 1 \/ ~Is1(i - 1, {"tool"})))}
                first == IF \/ tools \/ (thinking /\ effort = "high")
                            \/ \E i \in 1 .. NumSys(Data) : Trim(Data[i].content) # << >>
                         THEN 1 ELSE 0
            IN  IF late \/ (thinking /\ effort = "none") \/ \E i \in DOMAIN Data : Is1(i, {"other"})
                THEN text = Refused
                ELSE tags = [k \in 1 .. 2 * (Cardinality(turns) + first) + 1 |-> IF k % 2 = 1 THEN Start ELSE Stop]

\* parse_output undoes render: the answer a message is rendered as parses back to
\* its reasoning, its content and its calls, and an answer cut off anywhere still
\* to what it has of each, its finished calls unchanged (chat.cpp:73-102).  String
\* values that begin like JSON are left out, for the code reads them as JSON.
AnswerParsesBack ==
    input.alg = "answer" =>
        LET m == Data[1]
            text == Answer(m)
            whole == ParseOutput(text, TRUE)
            Finished(n) == Cardinality({i \in 1 .. n : text[i] = "</tool_call>"})
        IN  /\ whole = [reasoning |-> Trim(m.reasoning), content |-> Trim(m.content), calls |-> m.calls]
            /\ \A n \in 0 .. Len(text) :
                  LET cut == ParseOutput(SubSeq(text, 1, n), TRUE) IN
                  /\ IsPrefix(cut.reasoning, whole.reasoning)
                  /\ IsPrefix(cut.content, whole.content)
                  /\ IsPrefix(SubSeq(m.calls, 1, Finished(n)), cut.calls)
                  /\ Len(cut.calls) <= Finished(n) + 1

-----------------------------------------------------------------------------
(* Experts and weights                                                     *)

\* The slots of rows of Wide - 1 routed experts and the shared one each.
RowSlots(routed) ==
    LET rows == Len(routed) \div (Wide - 1)
    IN  [i \in 1 .. rows * Wide |->
            IF i % Wide = 0 THEN Shared ELSE routed[i - (i - 1) \div Wide]]

\* Every sorted position lies in exactly one tile, which is that of its expert, in
\* the list of its kind and no wider than a kernel takes; kpos and rowtok lead from
\* a slot to its position and from there to its row; all tiles fit the device
\* buffer (qwen4exp.cpp:628-645, 203).
TilesCoverTheSlots ==
    input.alg = "slots" =>
        LET eid == RowSlots(Data)
            order == Order(eid)
            lists == Tiles(eid)
            all == ToSet(lists.routed) \cup ToSet(lists.shared)
            Holds(tile, k) == k \in tile.first .. tile.first + tile.ncols - 1
        IN  /\ \A i \in DOMAIN eid :
                  /\ order[KPos(order)[i]] = i
                  /\ RowTok(order)[KPos(order)[i]] = (i - 1) \div Wide
                  /\ \E tile \in all :
                        /\ {other \in all : Holds(other, KPos(order)[i])} = {tile}
                        /\ tile.expert = eid[i]
                        /\ tile \in ToSet(IF eid[i] = Shared THEN lists.shared ELSE lists.routed)
            /\ \A tile \in all : tile.ncols \in 1 .. MaxCols
            /\ Len(lists.routed) + Len(lists.shared) <= TileRoom(Len(eid) \div Wide)

\* Where GGUF has a file's data lie: on the alignment the file names, or on the
\* default if it names none (0), whatever other files say.
Own(align) == IF align = 0 THEN DefaultAlign ELSE align

\* A file a writer makes of some of the tensors, data and each tensor on an
\* aligned place.
Written(tensors, from, to, header, align) ==
    LET off[k \in from .. to + 1] ==
            IF k = from THEN 0 ELSE Up(off[k - 1] + tensors[k - 1].bytes, Own(align))
    IN  [header |-> header, align |-> align, size |-> Up(header, Own(align)) + off[to + 1],
         tensors |-> [k \in 1 .. to - from + 1 |->
            [name |-> from + k - 1, type |-> tensors[from + k - 1].type,
             nbytes |-> tensors[from + k - 1].bytes, off |-> off[from + k - 1]]]]

\* The first n tensors in one shard, the others in a second.
Shards(tensors, n, header, aligns) ==
    <<Written(tensors, 1, n, header, aligns[1]),
      Written(tensors, n + 1, Len(tensors), header, aligns[2])>>

\* The second shard names no alignment, and that of the first, which kv_ still
\* holds (gguf.cpp:104, 116), puts its data elsewhere: its tensors are read from
\* other places than they were written to.
CarriedOver(shards) ==
    /\ shards[2].align = 0 /\ shards[2].tensors # << >>
    /\ Up(shards[2].header, Own(shards[1].align)) # Up(shards[2].header, DefaultAlign)

\* Whatever pread returns at a time, a load either throws or leaves every tensor
\* in a region of its own, inside an arena, made of all of its bytes and no others
\* (gguf.cpp:88-156; qwen35.cpp:20-67).  It throws only for a read that returned
\* nothing or a tensor no arena holds.  Each shard names an alignment of its own or
\* none; shards whose alignment is carried over to where it does not belong are
\* left out.
WeightsInPlace ==
    input.alg = "tensors" =>
        \A n \in 0 .. Len(Data), header \in Headers, aligns \in [1 .. 2 -> {0} \cup Aligns] :
            LET shards == Shards(Data, n, header, aligns)
                Place(k) == IF k <= n THEN <<1, k>> ELSE <<2, k - n>>
                Byte1(k, b) ==
                    LET shard == shards[Place(k)[1]]
                    IN  <<Place(k)[1], Up(header, Own(shard.align)) + shard.tensors[Place(k)[2]].off + b>>
                Cap(r) == IF r.number = 1 THEN FirstArena ELSE NextArena
            IN  CarriedOver(shards) \/ \A reads \in Paces :
                LET device == Load(shards, [k \in DOMAIN Data |-> k], reads) IN
                IF device = Throws
                THEN \/ \E r \in ToSet(reads) : r = 0
                     \/ \E t \in ToSet(Data) : DeviceBytes([type |-> t.type, nbytes |-> t.bytes]) > NextArena
                ELSE /\ Len(device.regions) = Len(Data)
                     /\ \A k \in DOMAIN Data :
                           LET r == device.regions[k] IN
                           /\ r.stage = [b \in 1 .. Data[k].bytes |-> Byte1(k, b)]
                           /\ r.at + r.bytes <= Cap(r)
                           /\ \A l \in DOMAIN Data \ {k} :
                                 LET s == device.regions[l] IN
                                 r.number # s.number \/ r.at + r.bytes <= s.at \/ s.at + s.bytes <= r.at

\* A row whose bits are named by their places.
Stored(type, blocks) ==
    [i \in 0 .. blocks * GtypeBlock(type)[2] - 1 |-> [k \in 1 .. 8 |-> 8 * i + k]]

\* A row of nb times 256 weights, as it is stored and as the reference reads it.
RowReads(type, nb, stored, reference) ==
    LET n == 256 * nb
        blocks == n \div GtypeBlock(type)[1]
        Parts(x) == ToSet(x.d) \cup ToSet(x.s) \cup ToSet(x.q) \cup ToSet(x.m)
        Renewed(fmt, e) ==
            Weight(Fresh("d", e \div 32, 16), None, Fresh("q", e, IF fmt = "Q8_0_SOA" THEN 8 ELSE 5),
                   IF fmt = "Q8_0_SOA" THEN None ELSE Fresh("m", e \div 32, 16))
    IN  /\ \A row \in {UploadLin(type, stored, blocks)} \cup {ToLin(type, stored, blocks, dense) : dense \in BOOLEAN} :
              \A e \in 0 .. n - 1 :
                  DqElem(row.fmt, row.w, e \div 256, e % 256, nb)
                      = IF row.new THEN Renewed(row.fmt, e) ELSE reference[e + 1]
        /\ Len(reference) = n
        /\ UNION {Parts(reference[e]) : e \in 1 .. n} = 1 .. 8 * blocks * GtypeBlock(type)[2]
        /\ Cardinality(UNION {ToSet(reference[e].q) : e \in 1 .. n})
              = Cardinality(UNION {{e} \X DOMAIN reference[e].q : e \in 1 .. n})

\* A block of Q5_0, which quant.h does not read, is d, 32 high bits and 32 halves,
\* and a weight d (q - 16) (gemv.hip:1447-1452).
RowOfQ50(nb, stored) ==
    LET row == ToLin("Q5_0", stored, 8 * nb, FALSE)
        Block(e) == 22 * (e \div 32)
    IN  \A e \in 0 .. 256 * nb - 1 :
            LET d == Num(stored, Block(e), 2)
                place == (e % 32) + 1
            IN  DqElem(row.fmt, row.w, e \div 256, e % 256, nb)
                    = Weight(d, None,
                             Halves(stored, Block(e) + 6, place) \o Bits(Num(stored, Block(e) + 2, 4), place - 1, 1),
                             MinusSixteen(d))

\* Whichever model uploads a row, the kernel computes each weight from the very
\* bits the reference does, in the blocks of the file or in rows put in another
\* order, or from the new numbers of that weight and its block; and the reference
\* reads all bits of a row, no bit as part of two weights (quant.h:9,
\* qwen4exp.cpp:33-67, qwen35.cpp:33-58, gemm.hip:15-62).
KernelReadsTheReference ==
    input.alg = "row" =>
        LET blocks == (256 * Data[2]) \div GtypeBlock(Data[1])[1]
            stored == Stored(Data[1], blocks)
        IN  IF Data[1] = "Q5_0" THEN RowOfQ50(Data[2], stored)
            ELSE RowReads(Data[1], Data[2], stored, DequantRow(Data[1], stored, blocks))
=============================================================================
