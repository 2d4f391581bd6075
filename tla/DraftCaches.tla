----------------------------- MODULE DraftCaches -----------------------------
(***************************************************************************)
(* What both backends keep so that drafts can be made (front/serve.cpp,    *)
(* FnBackend and B27Backend): a draft cache per slot, written by drafts,   *)
(* rewritten after every accept, and the target's h behind it.             *)
(*                                                                         *)
(*   "fn"   Flash-Next: the row of a position in the KV of the MTP block   *)
(*          comes from the token there and the h before it; the first draft*)
(*          takes the slot's pending h (hp_), a prompt's catch-up starts   *)
(*          from hprev_, which all slots share.                            *)
(*   "b27"  27B: the row of a position in the KV of DFlash2 comes from the *)
(*          features the target captured there (dflash_encode); a draft    *)
(*          block writes rows of its own over the positions it guesses.    *)
(*                                                                         *)
(* Requests are numbered; a token is the one request j has at position p,  *)
(* or a wrong draft.  A state of the target, and the h and the features of *)
(* a row, is modelled by what it was computed from: [req |-> j, n |-> k]   *)
(* is the state after the first k tokens of j.                             *)
(***************************************************************************)
EXTENDS Integers, Sequences, FiniteSets, SequencesExt

CONSTANTS
    Slots,
    MaxReqs,        \* bound on the requests served
    MaxCtx,         \* positions of a slot
    MaxRows,        \* rows of a pass that can be replayed (MAXR)
    Short,          \* 27B: a chunk of this many tokens or less takes the GEMV path
    Chunk,          \* tokens of a prompt chunk
    PromptLens,     \* lengths of prompts
    Mtp, NDraft     \* drafts asked for: --mtp of "fn", --ndraft of "b27"

ASSUME DraftAssumption ==
    /\ Slots # {} /\ IsFiniteSet(Slots)
    /\ {MaxReqs, MaxCtx, Short, Mtp, NDraft} \subseteq Nat
    /\ Chunk \in Nat \ {0} /\ MaxRows \in Nat
    /\ PromptLens \subseteq 1 .. MaxCtx
    /\ Mtp + 1 <= MaxRows /\ 2 * (NDraft + 1) <= MaxRows

Reqs == 1 .. MaxReqs
Positions == 0 .. MaxCtx - 1
State == [req : Reqs \cup {0}, n : 0 .. MaxCtx]
Clean == [req |-> 0, n |-> 0]       \* a reset state, and hprev_ at the start of a prompt
Junk == [req |-> 0, n |-> 1]        \* computed from a wrong token or from rows of another slot
Wrong == [req |-> 0, p |-> 0]       \* a draft the target does not agree with
Tok(j, p) == [req |-> j, p |-> p]

\* The state after token x.
Step(st, x) == IF st \in {Clean, [req |-> x.req, n |-> x.p]} /\ st.n = x.p /\ x # Wrong
               THEN [req |-> x.req, n |-> x.p + 1] ELSE Junk
Run(st, xs) == FoldLeft(Step, st, xs)

VARIABLES
    backend,
    reqs,           \* requests admitted so far
    req, spec,      \* req[s]: the request slot s serves, or 0; spec[s]: it is drafted for
    pos,            \* pos[s]: tokens committed
    active,         \* slots in the rounds, in order of admission
    filling, plen,  \* the slot whose prompt is being read ({} or one), and the prompt's length
    cur, rec,       \* rec[s][b]: recurrent state of slot s, buffer b; the committed one is cur[s]
    saved,          \* inputs the last pass saved for replay: tokens, by row
    hrow,           \* h_nextn of "fn", features of "b27": by row of the last pass
    lr0, lT, lastGm,    \* first row and row count of a slot's last pass; it was a GEMM pass
    hp, hprev,      \* "fn": pending h by slot, last h of the prompt chunk before
    kv,             \* kv[s][p]: draft cache, [of |-> token or features, h |-> h it was made with]
    plain,          \* plain[s]: positions of slot s that a round without drafts started at
    left, good      \* slots the round still has to accept, and how many drafts it accepts there

vars == <<backend, reqs, req, spec, pos, active, filling, plen, cur, rec, saved, hrow, lr0, lT, lastGm,
          hp, hprev, kv, plain, left, good>>

Empty == [of |-> Wrong, h |-> Junk]

Init ==
    /\ backend \in {"fn", "b27"}
    /\ reqs = 0 /\ active = << >> /\ filling = {} /\ plen = 0 /\ left = << >>
    /\ req = [s \in Slots |-> 0] /\ spec = [s \in Slots |-> FALSE] /\ pos = [s \in Slots |-> 0]
    /\ cur = [s \in Slots |-> 0] /\ rec = [s \in Slots |-> <<Clean, Clean>>]
    /\ saved = << >> /\ hrow = << >> /\ lastGm = FALSE
    /\ lr0 = [s \in Slots |-> 0] /\ lT = [s \in Slots |-> 0]
    /\ hp = [s \in Slots |-> Clean] /\ hprev = Clean
    /\ kv = [s \in Slots |-> [p \in Positions |-> Empty]]
    /\ plain = [s \in Slots |-> {}] /\ good = [s \in Slots |-> 0]

Cur(s) == rec[s][cur[s] + 1]
Tokens(j, p, n) == [i \in 1 .. n |-> Tok(j, p + i - 1)]

-----------------------------------------------------------------------------
(* The target: forward, accept, reset_slot.                                *)

\* What a slot's rows of a pass leave: its state after each of them.
States(s, xs) == [i \in DOMAIN xs |-> Run(Cur(s), SubSeq(xs, 1, i))]

\* Faulty variant: only the passes of plain decoding can be replayed.
ManyGm(n, T) == n = 1 /\ T > 1

\* A single request of more rows than can be replayed is a prompt's.
IsGm(n, T) == n = 1 /\ T > MaxRows

\* forward over the slots of order, slot s with the rows toks[s].
Forward(order, toks) ==
    LET all == FlattenSeq([i \in DOMAIN order |-> toks[order[i]]])
        before(i) == Len(FlattenSeq([k \in 1 .. i - 1 |-> toks[order[k]]]))
        here == Range(order)
        at(s) == CHOOSE i \in DOMAIN order : order[i] = s
        gm == IsGm(Len(order), Len(all))
    IN  /\ lr0' = [s \in Slots |-> IF s \in here THEN before(at(s)) ELSE lr0[s]]
        /\ lT' = [s \in Slots |-> IF s \in here THEN Len(toks[s]) ELSE lT[s]]
        /\ rec' = [s \in Slots |-> IF s \in here THEN [rec[s] EXCEPT ![2 - cur[s]] = Run(Cur(s), toks[s])] ELSE rec[s]]
        /\ hrow' = FlattenSeq([i \in DOMAIN order |-> States(order[i], toks[order[i]])])
        /\ saved' = IF gm THEN saved ELSE all
        /\ lastGm' = gm
        /\ UNCHANGED cur

\* accept(s, m): the spare buffer of a pass that is kept whole, or the state
\* replayed from the inputs of the slot's first m rows.
Accepted(s, m) ==
    /\ cur' = [cur EXCEPT ![s] = 1 - @]
    /\ lT' = [lT EXCEPT ![s] = 0]
    /\ rec' = IF m = lT[s] THEN rec
              ELSE [rec EXCEPT ![s][2 - cur[s]] = IF lastGm THEN Junk ELSE Run(Cur(s), SubSeq(saved, lr0[s] + 1, lr0[s] + m))]
    /\ UNCHANGED <<saved, hrow, lr0, lastGm>>

-----------------------------------------------------------------------------
(* Requests and prompts.                                                   *)

\* The 27B is built with two slots at most.
NSlots == IF backend = "b27" THEN Min({2, Cardinality(Slots)}) ELSE Cardinality(Slots)

\* The scheduler gives a free slot to a request and resets it; greedy requests
\* are drafted for.  It reads the whole prompt before anything else.
Admit(s, sp, n) ==
    /\ filling = {} /\ left = << >> /\ req[s] = 0
    /\ reqs < MaxReqs /\ Len(active) < NSlots
    /\ reqs' = reqs + 1
    /\ req' = [req EXCEPT ![s] = reqs + 1] /\ spec' = [spec EXCEPT ![s] = sp]
    /\ pos' = [pos EXCEPT ![s] = 0] /\ plain' = [plain EXCEPT ![s] = {}]
    /\ filling' = {s} /\ plen' = n
    /\ cur' = [cur EXCEPT ![s] = 0] /\ rec' = [rec EXCEPT ![s] = <<Clean, Clean>>]
    /\ lT' = [lT EXCEPT ![s] = 0]
    /\ UNCHANGED <<backend, active, saved, hrow, lr0, lastGm, hp, hprev, kv, left, good>>

\* Faulty variant: the last chunk is not cut to what is left of the prompt.
WholeChunk(c0) == Chunk

\* Tokens of the chunk that begins at c0.
ChunkLen(c0) == Min({Chunk, plen - c0})

\* Rows of the next pass over the prompt of s: a chunk, which the 27B cuts into
\* passes of the GEMV path when it is short.
PassRows(s) ==
    LET c0 == (pos[s] \div Chunk) * Chunk
        chunk == ChunkLen(c0)
    IN  IF backend = "b27" /\ chunk <= Short THEN Min({MaxRows, c0 + chunk - pos[s]}) ELSE c0 + chunk - pos[s]

\* Faulty variant: hprev_ is not cleared for a new prompt.
KeepH(p) == hprev

\* mtp_catchup, the h before the first row: none at the start of a prompt, else
\* the last row of the chunk before, whichever slot that was read for.
HBefore(p) == IF p = 0 THEN Clean ELSE hprev

\* One pass over the prompt, accepted whole, and the draft cache behind it.
PrefillPass ==
    \E s \in filling :
        LET p == pos[s]
            n == PassRows(s)
            toks == Tokens(req[s], p, n)
            sts == States(s, toks)
            row(i) == IF backend = "b27" THEN [of |-> Clean, h |-> sts[i + 1]]
                      ELSE [of |-> toks[i + 1], h |-> IF i = 0 THEN HBefore(p) ELSE sts[i]]
            gm == backend = "fn" \/ IsGm(1, n)
        IN  /\ pos' = [pos EXCEPT ![s] = p + n]
            /\ rec' = [rec EXCEPT ![s][2 - cur[s]] = sts[n]]
            /\ cur' = [cur EXCEPT ![s] = 1 - @]
            /\ lr0' = [lr0 EXCEPT ![s] = 0] /\ lT' = [lT EXCEPT ![s] = 0]
            /\ hrow' = IF backend = "fn" THEN <<sts[n]>> ELSE sts
            /\ saved' = IF gm THEN saved ELSE toks
            /\ lastGm' = IF backend = "fn" THEN lastGm ELSE gm
            /\ hp' = IF backend = "fn" THEN [hp EXCEPT ![s] = sts[n]] ELSE hp
            /\ hprev' = IF backend = "fn" /\ spec[s] THEN sts[n] ELSE hprev
            /\ kv' = IF ~spec[s] THEN kv
                     ELSE [kv EXCEPT ![s] = [x \in Positions |-> IF x \in p .. p + n - 1 THEN row(x - p) ELSE @[x]]]
            /\ filling' = IF p + n = plen THEN {} ELSE filling
            /\ active' = IF p + n = plen THEN Append(active, s) ELSE active
            /\ UNCHANGED <<backend, reqs, req, spec, plen, plain, left, good>>

-----------------------------------------------------------------------------
(* Rounds.                                                                 *)

\* draft_n: the 27B always drafts; with Flash-Next drafts pay for one slot, one
\* draft each for two.
DraftN(n) == IF backend = "b27" THEN NDraft
             ELSE IF n = 1 THEN Mtp ELSE IF n = 2 THEN Min({Mtp, 1}) ELSE 0

Drafting(s) == IF spec[s] THEN DraftN(Len(active)) ELSE 0

\* Row i of a chain of MTP drafts: the first has the slot's pending h and the
\* last token, which is certain, the others a guess and the h of the step before.
ChainedRow(s, i) ==
    [of |-> IF i <= good'[s] THEN Tok(req[s], pos[s] + i) ELSE Wrong, h |-> IF i = 0 THEN hp[s] ELSE Junk]

\* A row of the block DFlash2 drafts in one pass, the mask token at most places.
BlockRow == Empty

\* The draft cache of slot s after k drafts: one row for each MTP step, in the
\* block of DFlash2 one more for the last token.
Drafted(s, k) ==
    LET n == pos[s]
        last == IF k = 0 THEN n - 1 ELSE IF backend = "fn" THEN n + k - 1 ELSE n + k
        row(i) == IF backend = "fn" THEN ChainedRow(s, i) ELSE BlockRow
    IN  [x \in Positions |-> IF x \in n .. last THEN row(x - n) ELSE kv[s][x]]

\* Draft and verify: one pass over the active slots, each with its last token
\* and its drafts.  g says how many drafts of a slot the target will agree to.
Round(g) ==
    /\ filling = {} /\ left = << >> /\ active # << >>
    /\ \A s \in Range(active) : g[s] <= Drafting(s) /\ pos[s] + Drafting(s) < MaxCtx
    /\ \A s \in Slots \ Range(active) : g[s] = 0
    /\ good' = g
    /\ kv' = [s \in Slots |-> IF s \in Range(active) THEN Drafted(s, Drafting(s)) ELSE kv[s]]
    /\ plain' = [s \in Slots |-> IF s \in Range(active) /\ Drafting(s) = 0 THEN plain[s] \cup {pos[s]} ELSE plain[s]]
    /\ Forward(active, [s \in Range(active) |->
                           [i \in 1 .. 1 + Drafting(s) |-> IF i - 1 <= g[s] THEN Tok(req[s], pos[s] + i - 1) ELSE Wrong]])
    /\ left' = active
    /\ UNCHANGED <<backend, reqs, req, spec, pos, active, filling, plen, hp, hprev>>

\* Faulty variant: the h of the last token, whatever was accepted after it.
FirstRow(s, mm) == lr0[s] + 1

\* Row of the pass with the h of the last of mm accepted drafts.
PendingRow(s, mm) == lr0[s] + mm + 1

\* The draft cache at position x of slot s from the rows of the last pass: the
\* MTP block over the token with the h of the position before, or the features
\* of the position itself.
CaughtUpRow(s, x) == [of |-> Tok(req[s], x), h |-> hrow[lr0[s] + x - pos[s]]]
EncodedRow(s, x) == [of |-> Clean, h |-> hrow[lr0[s] + x - pos[s] + 1]]

\* Backend::accept of the next slot with its mm drafts, and the draft cache of
\* the accepted rows; the job goes on or is finished, which resets the slot.
AcceptSlot(ends) ==
    /\ left # << >>
    /\ LET s == Head(left)
           mm == good[s]
           n == pos[s]
           row(x) == IF backend = "b27" THEN EncodedRow(s, x) ELSE CaughtUpRow(s, x)
           first == IF backend = "b27" THEN n ELSE n + 1
       IN  /\ kv' = [kv EXCEPT ![s] = [x \in Positions |-> IF x \in first .. n + mm THEN row(x) ELSE @[x]]]
           /\ hp' = IF backend = "fn" THEN [hp EXCEPT ![s] = hrow[PendingRow(s, mm)]] ELSE hp
           /\ left' = Tail(left)
           /\ IF ends
              THEN /\ req' = [req EXCEPT ![s] = 0] /\ pos' = [pos EXCEPT ![s] = 0]
                   /\ active' = RemoveFirst(active, s)
                   /\ cur' = [cur EXCEPT ![s] = 0] /\ rec' = [rec EXCEPT ![s] = <<Clean, Clean>>]
                   /\ lT' = [lT EXCEPT ![s] = 0]
                   /\ UNCHANGED <<saved, hrow, lr0, lastGm>>
              ELSE /\ pos' = [pos EXCEPT ![s] = n + mm + 1]
                   /\ Accepted(s, mm + 1)
                   /\ UNCHANGED <<req, active>>
    /\ UNCHANGED <<backend, reqs, spec, filling, plen, hprev, plain, good>>

Next ==
    \/ \E s \in Slots, sp \in BOOLEAN, n \in PromptLens : Admit(s, sp, n)
    \/ PrefillPass
    \/ \E g \in [Slots -> 0 .. Max({Mtp, NDraft})] : Round(g)
    \/ \E ends \in BOOLEAN : AcceptSlot(ends)
    \/ filling = {} /\ left = << >> /\ UNCHANGED vars

Spec == Init /\ [][Next]_vars

-----------------------------------------------------------------------------
(* Properties.                                                             *)

TypeOK ==
    /\ backend \in {"fn", "b27"} /\ reqs \in 0 .. MaxReqs
    /\ req \in [Slots -> Reqs \cup {0}] /\ spec \in [Slots -> BOOLEAN] /\ pos \in [Slots -> 0 .. MaxCtx]
    /\ Range(active) \subseteq Slots /\ filling \subseteq Slots /\ plen \in 0 .. MaxCtx
    /\ cur \in [Slots -> {0, 1}] /\ rec \in [Slots -> [1 .. 2 -> State]]
    /\ lr0 \in [Slots -> Nat] /\ lT \in [Slots -> Nat] /\ lastGm \in BOOLEAN
    /\ hp \in [Slots -> State] /\ hprev \in State /\ plain \in [Slots -> SUBSET Positions]

\* Whatever was accepted in part or whole, after whichever other slot, the
\* committed state of a slot is the one after the tokens it has committed.
TargetInStep ==
    \A s \in Slots : Cur(s) = IF pos[s] = 0 THEN Clean ELSE [req |-> req[s], n |-> pos[s]]

Exact(s, p) ==
    IF backend = "b27" THEN kv[s][p].h = [req |-> req[s], n |-> p + 1]
    ELSE kv[s][p] = [of |-> Tok(req[s], p), h |-> IF p = 0 THEN Clean ELSE [req |-> req[s], n |-> p]]

\* Before every draft the cache below the slot's position is that of its own
\* request with the target's h, nothing of an earlier request, another slot's
\* prompt, a chained guess or a rejected draft -- except where a round without
\* drafts started, which leaves one row of Flash-Next unwritten.
DraftCacheExact ==
    \A s \in Slots : spec[s] =>
        \A p \in 0 .. pos[s] - 1 : Exact(s, p) \/ (backend = "fn" /\ p \in plain[s])

\* The first draft of a slot continues from the target's h of its last token.
DraftStartsExact ==
    (backend = "fn" /\ left = << >>) =>
        \A s \in Range(active) : spec[s] => hp[s] = [req |-> req[s], n |-> pos[s]]
=============================================================================
