---------------------------- MODULE MCScheduler ----------------------------
(***************************************************************************)
(* Small instances of Scheduler for TLC.                                   *)
(***************************************************************************)
EXTENDS Scheduler

CONSTANTS r1, r2, r3, r4

MCToken == {1, 2, 3}
MCStop == {3}

\* A target model that tells prompts apart: the next token depends on the
\* first token and on the length of the sequence, and it ends at length 4.
MCGreedy(w) ==
    IF Len(w) >= 4 THEN 3
    ELSE IF w = << >> THEN 1
    ELSE 1 + ((w[1] + Len(w)) % 2)

\* r4 brings a prompt no context of these instances has room for.
MCPrompt == [j \in Jobs |->
    CASE j = r1 -> <<1>> [] j = r2 -> <<2, 1>> [] j = r3 -> <<1, 2>> [] OTHER -> <<1, 1, 1, 1, 1, 1, 1>>]
MCMaxTokens == [j \in Jobs |-> CASE j = r1 -> 2 [] j = r2 -> 4 [] OTHER -> 1]
=============================================================================
