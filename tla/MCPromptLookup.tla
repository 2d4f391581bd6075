--------------------------- MODULE MCPromptLookup ---------------------------
(***************************************************************************)
(* Small instance of PromptLookup for TLC.                                 *)
(***************************************************************************)
EXTENDS PromptLookup

MCToken == {1, 2}

\* Buckets shared by different n-grams.
MCHash(gram) == FoldLeft(+, 0, gram) % 2
MCBuckets == {0, 1}

\* Every prompt of six tokens.
MCPrompts == [1 .. 6 -> MCToken]

\* Models that repeat themselves with period t, up to a slip now and then.
MCTargets == {2, 3, 4}
MCGreedy(t, text) ==
    IF Len(text) % 7 = 0 THEN 1 ELSE text[Len(text) - t + 1]
=============================================================================
