------------------------------ MODULE Emission ------------------------------
(***************************************************************************)
(* How a job's tokens become text (front/serve.cpp, Server::out and        *)
(* finish): thinking tags switch a flag and are swallowed, the bytes of a  *)
(* token go behind the bytes held back so far, and what ends in whole      *)
(* characters is handed to emit under the flag in force.                   *)
(*                                                                         *)
(* A byte is modelled by its role in UTF-8: 0 continues a character, 1 is  *)
(* one by itself, 2, 3 and 4 lead a character of that many bytes.          *)
(***************************************************************************)
EXTENDS Integers, Sequences, FiniteSets, SequencesExt

CONSTANTS
    Tokens,         \* token ids, those that stop a job left out
    Piece,          \* Piece[id]: the bytes of a token (Tokenizer::piece)
    ThinkOpen, ThinkClose

Byte == 0 .. 4

ASSUME EmissionAssumption ==
    /\ {ThinkOpen, ThinkClose} \subseteq Tokens
    /\ ThinkOpen # ThinkClose
    /\ Piece \in [Tokens -> Seq(Byte)]

\* Bytes of the character a byte begins, as the code reads it off the byte: a
\* continuation byte counts as a character.
Need(b) == IF b \in {2, 3, 4} THEN b ELSE 1

\* Faulty variant: the search for the lead byte stops after one byte.
Look1 == 1

\* How many continuation bytes the search for the last lead byte passes over.
MaxBack == 4

\* Faulty variant: a character is complete one byte after its last.
LacksMore(held, p) == Len(held) - (p - 1) <= Need(held[p])

\* The character that begins at byte p is not all there.
Lacks(held, p) == Len(held) - (p - 1) < Need(held[p])

\* How many bytes of the held-back text end in whole characters.
Boundary(held) ==
    LET n == Len(held)
        back == Max({k \in 0 .. MaxBack : k <= n /\ \A i \in n - k + 1 .. n : held[i] = 0})
        p == n - back
    IN  IF p > 0 /\ Lacks(held, p) THEN p - 1 ELSE n

\* What out(id) does to the text of a job: the bytes held back, the thinking
\* flag, and the piece it hands to emit ("said", nothing when empty).
Taken(text, id) ==
    IF id = ThinkClose /\ text.thinking THEN [text EXCEPT !.thinking = FALSE, !.said = << >>]
    ELSE IF id = ThinkOpen THEN [text EXCEPT !.thinking = TRUE, !.said = << >>]
    ELSE LET held == text.held \o Piece[id]
             ok == Boundary(held)
         IN  [text EXCEPT !.held = SubSeq(held, ok + 1, Len(held)), !.said = SubSeq(held, 1, ok)]

-----------------------------------------------------------------------------
(* What the text of a token sequence is, independent of when it is emitted. *)

Tags(ids) == {i \in DOMAIN ids : ids[i] \in {ThinkOpen, ThinkClose}}

\* The flag after the tokens of ids, when it was t before.
FlagAfter(ids, t) == IF Tags(ids) = {} THEN t ELSE ids[Max(Tags(ids))] = ThinkOpen

\* The bytes of ids in order, each with the flag in force when it arrived.  A
\* closing tag outside of thinking is text.
Arrived(ids, t) ==
    LET Before(i) == FlagAfter(SubSeq(ids, 1, i - 1), t)
        Swallowed(i) == ids[i] = ThinkOpen \/ (ids[i] = ThinkClose /\ Before(i))
        BytesOf(i) == IF Swallowed(i) THEN << >>
                      ELSE [k \in DOMAIN Piece[ids[i]] |-> [byte |-> Piece[ids[i]][k], rs |-> Before(i)]]
    IN  FlattenSeq([i \in DOMAIN ids |-> BytesOf(i)])

\* The first and the last byte of the character byte i belongs to.
FirstOf(text, i) == Max({k \in 1 .. i : text[k].byte # 0} \cup {1})
LastOf(text, i) == FirstOf(text, i) + Need(text[FirstOf(text, i)].byte) - 1

\* The text is UTF-8, cut off at most inside its last character.
IsUtf8(text) ==
    \A i \in DOMAIN text :
        (text[i].byte = 0) <=> \E k \in 1 .. i - 1 : text[k].byte # 0 /\ i < k + Need(text[k].byte)
=============================================================================
