-------------------------------- MODULE Json --------------------------------
(***************************************************************************)
(* JSON as it is written and read by src/front/json.h.                     *)
(*                                                                         *)
(* A text is a sequence of bytes, in which a number and each of the three  *)
(* literals is one symbol of its own, below 0: the printing of numbers is  *)
(* left out.  A value is [type, ...] with the field of its type.           *)
(***************************************************************************)
EXTENDS Integers, Sequences, FiniteSets, SequencesExt, FiniteSetsExt

CONSTANT Failed     \* no value: an exception was thrown

Nul == [type |-> "nul"]
Bool(b) == [type |-> "bool", b |-> b]
Num(n) == [type |-> "num", n |-> n]
Str(s) == [type |-> "str", s |-> s]
Arr(a) == [type |-> "arr", a |-> a]
Obj(o) == [type |-> "obj", o |-> o]

Literals == <<Nul, Bool(TRUE), Bool(FALSE)>>
NumSymbol(n) == -10 - n

Ascii == [quote |-> 34, comma |-> 44, colon |-> 58, open |-> 91, back |-> 92, close |-> 93, u |-> 117, begin |-> 123, end |-> 125]
White == {9, 10, 13, 32}

-----------------------------------------------------------------------------
(* Writing                                                                 *)

HexDigit(d) == IF d < 10 THEN 48 + d ELSE 87 + d
Spelled(c) == <<Ascii.back, Ascii.u>> \o [k \in 1 .. 4 |-> HexDigit((c \div (16 ^ (4 - k))) % 16)]

\* Faulty variant: the backslash is written as it is.
EscapedLess(c) ==
    CASE c = Ascii.quote -> <<Ascii.back, c>> [] c < 32 -> Spelled(c) [] OTHER -> <<c>>

Escaped(c) ==
    CASE c \in {Ascii.quote, Ascii.back} -> <<Ascii.back, c>>
      [] c = 10 -> <<Ascii.back, 110>>
      [] c = 13 -> <<Ascii.back, 114>>
      [] c = 9 -> <<Ascii.back, 116>>
      [] c < 32 /\ c \notin {9, 10, 13} -> Spelled(c)
      [] OTHER -> <<c>>

Escape(s) == <<Ascii.quote>> \o FlattenSeq([i \in DOMAIN s |-> Escaped(s[i])]) \o <<Ascii.quote>>

\* Texts with a comma between each two.
Listed(texts) == FlattenSeq([i \in DOMAIN texts |-> IF i = 1 THEN texts[i] ELSE <<Ascii.comma>> \o texts[i]])

RECURSIVE Dump(_)
Dump(v) ==
    CASE v \in ToSet(Literals) -> <<0 - SelectInSeq(Literals, LAMBDA w : w = v)>>
      [] v.type = "num" -> <<NumSymbol(v.n)>>
      [] v.type = "str" -> Escape(v.s)
      [] v.type = "arr" -> <<Ascii.open>> \o Listed([i \in DOMAIN v.a |-> Dump(v.a[i])]) \o <<Ascii.close>>
      [] v.type = "obj" ->
            <<Ascii.begin>>
                \o Listed([i \in DOMAIN v.o |-> Escape(v.o[i][1]) \o <<Ascii.colon>> \o Dump(v.o[i][2])])
                \o <<Ascii.end>>

-----------------------------------------------------------------------------
(* Reading: what is at place i, [v, next], or Failed                       *)

\* A std::string ends with a byte 0.
At(s, i) == IF i <= Len(s) THEN s[i] ELSE 0

Ws(s, i) == Min({j \in i .. Len(s) + 1 : j > Len(s) \/ s[j] \notin White} \cup {Max({i, Len(s) + 1})})

\* cp: the UTF-8 bytes of a code point.
Cp(c) ==
    LET Tail6(k) == 128 + ((c \div (64 ^ k)) % 64)
    IN  CASE c < 128 -> <<c>>
          [] c >= 128 /\ c < 2048 -> <<192 + c \div 64, Tail6(0)>>
          [] c >= 2048 /\ c < 65536 -> <<224 + c \div 4096, Tail6(1), Tail6(0)>>
          [] OTHER -> <<240 + c \div 262144, Tail6(2), Tail6(1), Tail6(0)>>

\* std::stoul of the four characters at i: as many as are digits, one at least.
HexValue(c) ==
    CASE c \in 48 .. 57 -> c - 48 [] c \in 97 .. 102 -> c - 87 [] c \in 65 .. 70 -> c - 55 [] OTHER -> -1
Hex4(s, i) ==
    LET n == Max({k \in 0 .. 4 : \A j \in i .. i + k - 1 : HexValue(At(s, j)) >= 0})
    IN  IF n = 0 THEN Failed ELSE FoldLeft(LAMBDA c, d : 16 * c + HexValue(d), 0, SubSeq(s, i, i + n - 1))

\* What follows \u, at i, where the four digits say c1, and six places on c2; the
\* second half of a surrogate pair is not looked at.
CodePoint(s, i, c1, c2) ==
    LET paired == c1 \in 55296 .. 56319 /\ At(s, i + 4) = Ascii.back /\ At(s, i + 5) = Ascii.u
    IN  IF c1 = Failed THEN Failed
        ELSE IF ~paired THEN [v |-> Cp(c1), next |-> i + 4]
        ELSE IF c2 = Failed THEN Failed
        ELSE [v |-> Cp(65536 + (c1 - 55296) * 1024 + (c2 - 56320)), next |-> i + 10]

\* The bytes the character at i stands for.
Character(s, i) ==
    LET c == At(s, i + 1)
        Plain == [n |-> 110, t |-> 116, r |-> 114, b |-> 98, f |-> 102]
    IN  CASE At(s, i) # Ascii.back -> [v |-> <<s[i]>>, next |-> i + 1]
          [] At(s, i) = Ascii.back /\ c = Ascii.u -> CodePoint(s, i + 2, Hex4(s, i + 2), Hex4(s, i + 8))
          [] OTHER ->
                [v |-> <<CASE c = Plain.n -> 10 [] c = Plain.t -> 9 [] c = Plain.r -> 13
                           [] c = Plain.b -> 8 [] c = Plain.f -> 12 [] OTHER -> c>>,
                 next |-> i + 2]

Join(v, rest) == IF rest = Failed THEN Failed ELSE [rest EXCEPT !.v = v \o @]

\* string
String(s, i) ==
    LET from[j \in Nat] ==
            LET After(ch) == IF ch = Failed THEN Failed ELSE Join(ch.v, from[ch.next])
            IN  CASE j > Len(s) -> Failed
                  [] j <= Len(s) /\ s[j] = Ascii.quote -> [v |-> << >>, next |-> j + 1]
                  [] OTHER -> After(Character(s, j))
    IN  IF At(s, i) = Ascii.quote THEN from[i + 1] ELSE Failed

\* What follows one item of a list: its end, or the rest of it.
More(s, item, j, last, rest) ==
    CASE At(s, j) = last -> [v |-> <<item>>, next |-> j + 1]
      [] At(s, j) = Ascii.comma -> Join(<<item>>, rest)
      [] OTHER -> Failed

\* value: Items and Members are the rest of an array or object that has begun.
RECURSIVE Value(_, _), Items(_, _), Members(_, _)
Items(s, i) ==
    LET From(item, j) == More(s, item.v, j, Ascii.close, Items(s, j + 1))
        After(item) == IF item = Failed THEN Failed ELSE From(item, Ws(s, item.next))
    IN  After(Value(s, i))

Members(s, i) ==
    LET From(key, item, j) == More(s, <<key.v, item.v>>, j, Ascii.end, Members(s, j + 1))
        Told(key, item) == IF item = Failed THEN Failed ELSE From(key, item, Ws(s, item.next))
        After(key, j) == IF At(s, j) # Ascii.colon THEN Failed ELSE Told(key, Value(s, j + 1))
        Of(key) == IF key = Failed THEN Failed ELSE After(key, Ws(s, key.next))
    IN  Of(String(s, Ws(s, i)))

Value(s, from) ==
    LET Typed(type(_), r) == IF r = Failed THEN Failed ELSE [r EXCEPT !.v = type(@)]
        Read(i, inside) ==
            CASE i > Len(s) -> Failed
              [] At(s, i) = Ascii.begin ->
                    IF At(s, inside) = Ascii.end THEN [v |-> Obj(<< >>), next |-> inside + 1]
                    ELSE Typed(Obj, Members(s, inside))
              [] At(s, i) = Ascii.open ->
                    IF At(s, inside) = Ascii.close THEN [v |-> Arr(<< >>), next |-> inside + 1]
                    ELSE Typed(Arr, Items(s, inside))
              [] At(s, i) = Ascii.quote -> Typed(Str, String(s, i))
              [] At(s, i) \in -3 .. -1 -> [v |-> Literals[0 - s[i]], next |-> i + 1]
              [] At(s, i) <= -10 -> [v |-> Num(-10 - s[i]), next |-> i + 1]
              [] OTHER -> Failed
        Skipped(i) == Read(i, Ws(s, i + 1))
    IN  Skipped(Ws(s, from))

\* parse; what follows the value is not looked at.
Parse(s) ==
    LET r == Value(s, 1) IN IF r = Failed THEN Failed ELSE r.v
=============================================================================
