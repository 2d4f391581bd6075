---------------------------- MODULE MCAlgorithms ----------------------------
(***************************************************************************)
(* Small inputs and documents of Algorithms and JsonText for TLC.          *)
(***************************************************************************)
EXTENDS JsonText

\* Texts for the pre-tokenizer: letters with and without a part in contractions,
\* a mark, a digit, a line break, two blanks and two signs.
MCLetter == {"s", "r", "e", "a", "b"}
MCChar == {"s", "r", "e", "^", "1", "n", " ", "t", "'", "!"}
MCShort == {"s"}
MCLong == {<<"r", "e">>}

\* Texts with special tokens: some begin others, and two kinds overlap.
MCUserDefined == {<<"<", "a">>, <<"<", "a", "b">>}
MCControl == {<<"<", "<", "a">>, <<"b", "<">>}
MCTable == <<<<<<"a">>, <<"b">>>>, <<<<"a">>, <<"a">>>>>>

\* Both sides of every change of length, and of every gap in the printable bytes.
MCCodePoints == {0, 32, 33, 126, 127, 128, 160, 161, 172, 173, 174, 255, 256, 2047, 2048, 65535, 65536, 262143, 1114111}

Arg(key, type, text) == [key |-> key, type |-> type, text |-> text]
Values == {<< >>, <<"w">>, <<"\n", "w", "\n">>}
ArgLists ==
    {<< >>, <<Arg("k", "num", <<"7">>)>>} \cup {<<Arg("k", "str", v), Arg("l", "num", <<"7">>)>> : v \in Values}
Calls == {[name |-> "f", args |-> a] : a \in ArgLists}
MCAnswers ==
    [role : {"assistant"}, reasoning : {<< >>, <<"\n", "w">>, <<"w", "\n", "v">>},
     content : {<< >>, <<"w", "\n">>, <<"w", "\n", "v">>}, calls : {<< >>} \cup {<<c>> : c \in Calls} \cup (Calls \X Calls)]

\* Bytes with an escape of their own, one that needs \u, a letter of an escape and
\* one of a longer character; documents of two levels.
Texts == UNION {[1 .. n -> {34, 92, 10, 1, 117, 200}] : n \in 0 .. 2}
Leaves == {J!Nul, J!Bool(TRUE), J!Bool(FALSE), J!Num(7)}
Small == Leaves \cup {J!Str(t) : t \in {<< >>, <<34>>, <<92, 117>>}}
Lists(S) == UNION {[1 .. n -> S] : n \in 0 .. 2}
Pairs(S) == UNION {[1 .. n -> {<<34>>, <<92>>} \X S] : n \in 0 .. 2}
MCJsonValues ==
    Leaves \cup {J!Str(t) : t \in Texts} \cup {J!Arr(a) : a \in Lists(Small)}
        \cup {J!Obj(o) : o \in Pairs({J!Nul, J!Str(<<34>>), J!Str(<<92, 117>>)})}
        \cup {J!Arr(<<v, J!Nul>>) : v \in {J!Arr(a) : a \in Lists(Leaves)}}
        \cup {J!Obj(<<<<<<117>>, v>>>>) : v \in {J!Arr(a) : a \in Lists(Leaves)} \cup {J!Obj(o) : o \in Pairs({J!Num(7)})}}

MCTensor == {[bytes |-> b, type |-> "kept"] : b \in {1, 3, 5, 7}} \cup {[bytes |-> 3, type |-> "other"]}
MCTypes == {"F32", "F16", "BF16", "Q3_K", "IQ3_S", "IQ4_NL", "Q4_K", "Q5_K", "Q6_K", "IQ4_XS", "Q8_0", "Q5_1", "Q5_0"}
MCRequantized(n) == n + 2
MCPaces == {<<9>>, <<1, 2>>, <<2, 0>>}
=============================================================================
