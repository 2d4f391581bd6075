------------------------------ MODULE JsonText ------------------------------
(***************************************************************************)
(* Algorithms, and what Json writes and reads against what it is for: the  *)
(* second variable is a document, or a code point that a client may spell  *)
(* in one.  Json is recursive, so that this is apart from the algorithms   *)
(* something is proved of.                                                 *)
(***************************************************************************)
EXTENDS Algorithms

CONSTANT JsonValues     \* documents

VARIABLE document

J == INSTANCE Json WITH Failed <- Refused

PickJson == \E v \in JsonValues : document' = [kind |-> "value", value |-> v]

PickSpelling == \E cp \in CodePoints : document' = [kind |-> "codepoint", value |-> cp]

TextInit == Init /\ document = [kind |-> "none"]

\* An input grows as long as there is no document, and a document is picked as long
\* as there is no input.
TextNext ==
    \/ document.kind = "none" /\ Next /\ UNCHANGED document
    \/ /\ input.alg = "none" /\ document.kind = "none"
       /\ PickJson \/ PickSpelling
       /\ UNCHANGED input

TextSpec == TextInit /\ [][TextNext]_<<input, document>>

\* A document reads back as the value it was written from, whatever its strings
\* hold, with a blank between any two of its symbols as well, and not at all when
\* it is cut short (json.h:31-74).
ValueReadsBack(v) ==
    LET text == J!Dump(v)
        Cut(n) == SubSeq(text, 1, n)
        After(n) == SubSeq(text, n + 1, Len(text))
    IN  /\ J!Parse(text) = v
        /\ Contains(text, J!Ascii.quote) \/ \A n \in 0 .. Len(text), w \in J!White : J!Parse(Cut(n) \o <<w>> \o After(n)) = v
        /\ v.type \in {"str", "arr", "obj"} => \A n \in 0 .. Len(text) - 1 : J!Parse(Cut(n)) = Refused

\* A code point that is spelled with \u, as a surrogate pair where it needs two,
\* reads as its UTF-8 bytes (json.h:46-62).
SpellingReads(cp) ==
    LET units == IF cp < 65536 THEN <<cp>> ELSE <<55296 + (cp - 65536) \div 1024, 56320 + ((cp - 65536) % 1024)>>
        text == <<J!Ascii.quote>> \o FlattenSeq([k \in DOMAIN units |-> J!Spelled(units[k])]) \o <<J!Ascii.quote>>
    IN  J!Parse(text) = J!Str(AppendCp(cp))

\* Every document reads back, and every spelling of a character is that character.
JsonReadsBack ==
    /\ document.kind = "value" => ValueReadsBack(document.value)
    /\ document.kind = "codepoint" => SpellingReads(document.value)
=============================================================================
