----------------------------- MODULE SlotEngine -----------------------------
(***************************************************************************)
(* The slots of the Flash-Next engine (engine/src/qwen4exp.cpp): per slot  *)
(* a double-buffered recurrent state (GDN, conv), the PLE conv history,    *)
(* the n-gram history, attention keys and values by position, and pooled   *)
(* indexer keys by block of R positions.  A pass writes the spare buffer   *)
(* and the caches; accept swaps buffers, or replays the state from the     *)
(* saved inputs of the pass when only a prefix is accepted.  Nothing       *)
(* written to a cache is ever taken back: rejected rows must be overwritten*)
(* before they are read.                                                   *)
(*                                                                         *)
(* A state or a cache row is modelled by the token sequence it was         *)
(* computed from.  A row of a pass reads the committed state, the keys of  *)
(* every earlier position and the pooled keys of every complete block; if  *)
(* one of them does not belong to its own sequence, the logits of the row  *)
(* are not exact.                                                          *)
(***************************************************************************)
EXTENDS Integers, Sequences

CONSTANTS
    Slots, Token, MaxCtx, MaxRows,
    MaxRun,         \* rows of one slot in a pass: the last token and its drafts
    MaxPrefill,     \* tokens of one prefill call (max_prefill_)
    R               \* positions of one pooled block (qsa::R)

ASSUME SlotEngineAssumption ==
    /\ Slots # {}
    /\ MaxCtx \in Nat
    /\ MaxRows \in Nat \ {0}
    /\ MaxRun \in 1 .. MaxRows
    /\ MaxPrefill \in Nat
    /\ R \in Nat \ {0}

VARIABLES
    cur,            \* cur[s]: the committed buffer of slot s
    rec,            \* rec[s][b]: tokens behind GDN and conv state, buffer b
    ple,            \* ple[s][b]: tokens behind the PLE conv history
    hist,           \* hist[s]: the last two tokens of the sequence
    kc,             \* kc[s][p]: sequence behind the key and value at p
    pooled,         \* pooled[s][b]: sequences behind the pooled key of block b
    saved,          \* saved[r]: the token whose GDN and PLE inputs row r saved, for replay
    exact,          \* exact[r]: logits row r is that of its own sequence
    pend, lr0, lT   \* tokens, first row and row count of s in the last pass

vars == <<cur, rec, ple, hist, kc, pooled, saved, exact, pend, lr0, lT>>

Positions == 0 .. MaxCtx - 1
RowIds == 0 .. MaxRows - 1
Blocks == 0 .. (MaxCtx \div R) - 1
Buffers == {0, 1}

Committed(s) == rec[s][cur[s]]
Spare(s) == 1 - cur[s]
Take(w, n) == SubSeq(w, 1, n)

LastTwo(w) == IF Len(w) <= 2 THEN w ELSE SubSeq(w, Len(w) - 1, Len(w))

\* Faulty variant: the history is not trimmed.
TrimNothing(w) == w

\* hist after the tokens of w went into it.
Trim(w) == LastTwo(w)

SeqsUpTo(S, n) == UNION {[1 .. i -> S] : i \in 1 .. n}

\* The position the caller passes for slot s (Scheduler!EngineInStep).
Pos(s) == Len(Committed(s))

-----------------------------------------------------------------------------
(* The rows toks of slot s in a pass, at positions Pos(s), Pos(s) + 1, ... *)

View(s, toks, t) == Committed(s) \o Take(toks, t)

KeysAfter(s, toks) ==
    [p \in Positions |->
        IF p \in Pos(s) .. Pos(s) + Len(toks) - 1
        THEN View(s, toks, p - Pos(s) + 1) ELSE kc[s][p]]

\* Faulty variant: a block that began before the pass is not pooled again.
PooledWhole(s, toks) ==
    [b \in Blocks |->
        IF b \in (Pos(s) + R - 1) \div R .. ((Pos(s) + Len(toks)) \div R) - 1
        THEN [i \in 1 .. R |-> KeysAfter(s, toks)[R * b + i - 1]]
        ELSE pooled[s][b]]

\* Pooled keys of the blocks the pass completes, from the raw keys.  A rejected
\* row may have completed a block before: they are redone in every pass.
PooledAfter(s, toks) ==
    [b \in Blocks |->
        IF b \in Pos(s) \div R .. ((Pos(s) + Len(toks)) \div R) - 1
        THEN [i \in 1 .. R |-> KeysAfter(s, toks)[R * b + i - 1]]
        ELSE pooled[s][b]]

\* The key and pooled key that belong to sequence w.
OwnKey(w, p) == Take(w, p + 1)
OwnPool(w, b) == [i \in 1 .. R |-> Take(w, R * b + i)]

\* What row t reads belongs to its own sequence: the keys it attends to, the
\* pooled keys it selects blocks by, the history its n-grams are hashed from, and
\* the history of the PLE convolution.
AttendsOwn(s, toks, t) ==
    LET w == View(s, toks, t)
    IN  \A p \in 0 .. Len(w) - 1 : KeysAfter(s, toks)[p] = OwnKey(w, p)

SelectsOwn(s, toks, t) ==
    LET w == View(s, toks, t)
    IN  \A b \in 0 .. (Len(w) \div R) - 1 : PooledAfter(s, toks)[b] = OwnPool(w, b)

HashesOwn(s, toks, t) ==
    LastTwo(hist[s] \o Take(toks, t - 1)) = LastTwo(Committed(s) \o Take(toks, t - 1))

ConvolvesOwn(s) == ple[s][cur[s]] = Committed(s)

ReadsOwn(s, toks, t) ==
    ConvolvesOwn(s) /\ HashesOwn(s, toks, t) /\ SelectsOwn(s, toks, t) /\ AttendsOwn(s, toks, t)

-----------------------------------------------------------------------------

Init ==
    /\ cur = [s \in Slots |-> 0]
    /\ rec = [s \in Slots |-> [b \in Buffers |-> << >>]]
    /\ ple = [s \in Slots |-> [b \in Buffers |-> << >>]]
    /\ hist = [s \in Slots |-> << >>]
    /\ kc = [s \in Slots |-> [p \in Positions |-> << >>]]
    /\ pooled = [s \in Slots |-> [b \in Blocks |-> << >>]]
    /\ saved = [r \in RowIds |-> << >>]
    /\ exact = [r \in RowIds |-> TRUE]       \* no row has been computed
    /\ pend = [s \in Slots |-> << >>]
    /\ lr0 = [s \in Slots |-> 0]
    /\ lT = [s \in Slots |-> 0]

\* No slot has rows of a pass left to accept.
AllAccepted == \A s \in Slots : lT[s] = 0

\* Faulty variant: the n-gram history survives the request.
ResetKeepsHistory(s) ==
    /\ rec' = [rec EXCEPT ![s] = [b \in Buffers |-> << >>]]
    /\ ple' = [ple EXCEPT ![s] = [b \in Buffers |-> << >>]]
    /\ cur' = [cur EXCEPT ![s] = 0]
    /\ lT' = [lT EXCEPT ![s] = 0]
    /\ UNCHANGED <<hist, kc, pooled, saved, exact, pend, lr0>>

\* reset_slot: recurrent state and histories; the caches keep their rows.
ResetSlot(s) ==
    /\ rec' = [rec EXCEPT ![s] = [b \in Buffers |-> << >>]]
    /\ ple' = [ple EXCEPT ![s] = [b \in Buffers |-> << >>]]
    /\ hist' = [hist EXCEPT ![s] = << >>]
    /\ cur' = [cur EXCEPT ![s] = 0]
    /\ lT' = [lT EXCEPT ![s] = 0]
    /\ UNCHANGED <<kc, pooled, saved, exact, pend, lr0>>

\* prefill: one chunk of a prompt, committed without accept.  Its logits take
\* row 0; the caller has accepted every pass by then (Scheduler!EveryPassAccepted).
Prefill(s, toks) ==
    /\ Len(toks) \in 1 .. MaxPrefill
    /\ AllAccepted
    /\ Pos(s) + Len(toks) <= MaxCtx
    /\ kc' = [kc EXCEPT ![s] = KeysAfter(s, toks)]
    /\ pooled' = [pooled EXCEPT ![s] = PooledAfter(s, toks)]
    /\ rec' = [rec EXCEPT ![s][Spare(s)] = Committed(s) \o toks]
    /\ ple' = [ple EXCEPT ![s][Spare(s)] = ple[s][cur[s]] \o toks]
    /\ exact' = [exact EXCEPT ![0] = ReadsOwn(s, toks, Len(toks))]
    /\ hist' = [hist EXCEPT ![s] = Trim(@ \o toks)]
    /\ cur' = [cur EXCEPT ![s] = Spare(s)]
    /\ lT' = [lT EXCEPT ![s] = 0]
    /\ UNCHANGED <<saved, pend, lr0>>

\* forward: a pass over the slots DOMAIN toks; the rows of slot s start at
\* first[s] and the slots follow each other without gaps.  The saved inputs are
\* shared, so every slot of the last pass has been accepted by then.
RowsOf(toks, first, s) == first[s] .. first[s] + Len(toks[s]) - 1

Packed(toks, first) ==
    \A s \in DOMAIN toks :
        /\ first[s] = 0 \/ \E u \in DOMAIN toks : first[s] = first[u] + Len(toks[u])
        /\ \A u \in DOMAIN toks \ {s} : RowsOf(toks, first, s) \cap RowsOf(toks, first, u) = {}

\* The tokens a pass over the slots running may bring.
Candidates(running) ==
    {toks \in [running -> SeqsUpTo(Token, MaxRun)] :
        \A s \in running : Pos(s) + Len(toks[s]) <= MaxCtx}

Forward(toks, first) ==
    LET running == DOMAIN toks
        inPass(r) == \E s \in running : r \in RowsOf(toks, first, s)
        owner(r) == CHOOSE s \in running : r \in RowsOf(toks, first, s)
        offset(r) == r - first[owner(r)] + 1
    IN  /\ \A s \in running : first[s] + Len(toks[s]) <= MaxRows
        /\ Packed(toks, first)
        /\ kc' = [s \in Slots |-> IF s \in running THEN KeysAfter(s, toks[s]) ELSE kc[s]]
        /\ pooled' = [s \in Slots |-> IF s \in running THEN PooledAfter(s, toks[s]) ELSE pooled[s]]
        /\ rec' = [s \in Slots |-> IF s \in running
                    THEN [rec[s] EXCEPT ![Spare(s)] = Committed(s) \o toks[s]] ELSE rec[s]]
        /\ ple' = [s \in Slots |-> IF s \in running
                    THEN [ple[s] EXCEPT ![Spare(s)] = ple[s][cur[s]] \o toks[s]] ELSE ple[s]]
        /\ saved' = [r \in RowIds |-> IF inPass(r)
                    THEN <<toks[owner(r)][offset(r)]>> ELSE saved[r]]
        /\ exact' = [r \in RowIds |-> IF inPass(r)
                    THEN ReadsOwn(owner(r), toks[owner(r)], offset(r)) ELSE exact[r]]
        /\ pend' = [s \in Slots |-> IF s \in running THEN toks[s] ELSE pend[s]]
        /\ lr0' = [s \in Slots |-> IF s \in running THEN first[s] ELSE lr0[s]]
        /\ lT' = [s \in Slots |-> IF s \in running THEN Len(toks[s]) ELSE lT[s]]
        /\ UNCHANGED <<cur, hist>>

Pass ==
    /\ AllAccepted
    /\ \E running \in SUBSET Slots \ {{}} : \E toks \in Candidates(running) :
        \E first \in [running -> RowIds] : Forward(toks, first)

\* Faulty variant: the saved inputs are read from the first row of the pass.
ReplayFromTop(old, s, m) == old[cur[s]] \o [i \in 1 .. m |-> saved[i - 1][1]]

\* The state m rows of the last pass lead to, from the committed buffer old.
Replay(old, s, m) == old[cur[s]] \o [i \in 1 .. m |-> saved[lr0[s] + i - 1][1]]

Accept(s, m) ==
    /\ m \in 1 .. lT[s]
    /\ IF m < lT[s]
       THEN /\ rec' = [rec EXCEPT ![s][Spare(s)] = Replay(rec[s], s, m)]
            /\ ple' = [ple EXCEPT ![s][Spare(s)] = Replay(ple[s], s, m)]
       ELSE UNCHANGED <<rec, ple>>
    /\ hist' = [hist EXCEPT ![s] = Trim(@ \o Take(pend[s], m))]
    /\ cur' = [cur EXCEPT ![s] = Spare(s)]
    /\ lT' = [lT EXCEPT ![s] = 0]
    /\ UNCHANGED <<kc, pooled, saved, exact, pend, lr0>>

Next ==
    \/ \E s \in Slots : ResetSlot(s)
    \/ \E s \in Slots : \E toks \in SeqsUpTo(Token, MaxPrefill) : Prefill(s, toks)
    \/ Pass
    \/ \E s \in Slots : \E m \in 1 .. MaxRun : Accept(s, m)

Spec == Init /\ [][Next]_vars

-----------------------------------------------------------------------------
(* Properties                                                              *)

Views == Seq(Token)

TypeOK ==
    /\ cur \in [Slots -> Buffers]
    /\ rec \in [Slots -> [Buffers -> Views]]
    /\ ple \in [Slots -> [Buffers -> Views]]
    /\ hist \in [Slots -> UNION {[1 .. n -> Token] : n \in 0 .. 2}]
    /\ kc \in [Slots -> [Positions -> Views]]
    /\ pooled \in [Slots -> [Blocks -> Seq(Views)]]
    /\ saved \in [RowIds -> Views]
    /\ exact \in [RowIds -> BOOLEAN]
    /\ pend \in [Slots -> Seq(Token)]
    /\ lr0 \in [Slots -> RowIds]
    /\ lT \in [Slots -> 0 .. MaxRows]

\* The caches and histories of a slot belong to the sequence it committed: every
\* key below its position, every pooled key of a complete block, the PLE state
\* and the n-gram history.  Rows of rejected drafts and of earlier requests lie
\* only above, whatever was accepted and reset before.
CachesBelong ==
    \A s \in Slots :
        /\ ple[s][cur[s]] = Committed(s)
        /\ hist[s] = LastTwo(Committed(s))
        /\ \A p \in 0 .. Pos(s) - 1 : kc[s][p] = OwnKey(Committed(s), p)
        /\ \A b \in 0 .. (Pos(s) \div R) - 1 : pooled[s][b] = OwnPool(Committed(s), b)

\* Every row of a pass or of a prompt chunk is computed from its own sequence
\* alone: no other slot, rejected draft or former request of the slot shows in
\* its logits (the exactness the speculative rounds rely on).
LogitsExact == \A r \in RowIds : exact[r]

-----------------------------------------------------------------------------
(* What a caller sees of the slots: the committed sequence and the rows    *)
(* that wait for accept.                                                   *)

Tokens == INSTANCE TokenEngine WITH
    seq <- [s \in Slots |-> Committed(s)],
    pass <- [s \in Slots |-> IF lT[s] = 0 THEN << >> ELSE pend[s]]

\* Swapping or replaying the double buffers commits exactly the accepted tokens.
ImplementsTokenEngine == Tokens!EngineSpec
=============================================================================
