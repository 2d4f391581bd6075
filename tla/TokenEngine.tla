---------------------------- MODULE TokenEngine ----------------------------
(***************************************************************************)
(* What an inference engine promises to the serving loop, token by token.  *)
(* Each slot holds one sequence; a pass presents candidate tokens to one   *)
(* or more slots, and accept commits a prefix of a slot's candidates.      *)
(* Nothing of a pass is visible until it is accepted.                      *)
(*                                                                         *)
(* This is the interface of engine/src/qwen4exp.h and engine/src/qwen35.h. *)
(* The double-buffered states, replay buffers and KV caches behind it are  *)
(* in SlotEngine, which implements this specification.  The Scheduler      *)
(* drives its slots with the operations of this module.                    *)
(***************************************************************************)
EXTENDS Integers, Sequences

CONSTANTS
    Slots,      \* sequences the engine holds at once (n_slots_)
    Token,      \* vocabulary
    MaxCtx,     \* positions of one slot's caches (max_ctx_)
    MaxRows     \* rows of one GEMV pass over the slots (MAXR)

VARIABLES
    seq,        \* seq[s]: the tokens slot s has committed
    pass        \* pass[s]: the tokens s ran in the last pass, until accepted

engineVars == <<seq, pass>>

EngineTypeOK ==
    /\ seq \in [Slots -> Seq(Token)]
    /\ pass \in [Slots -> Seq(Token)]

EngineInit ==
    /\ seq = [s \in Slots |-> << >>]
    /\ pass = [s \in Slots |-> << >>]

\* The recurrent state and the token history of one slot go back to the start.
ResetSlot(s) ==
    /\ seq' = [seq EXCEPT ![s] = << >>]
    /\ pass' = [pass EXCEPT ![s] = << >>]

\* One chunk of a prompt, committed at once.
Prefill(s, toks) ==
    /\ toks # << >>
    /\ Len(seq[s]) + Len(toks) <= MaxCtx
    /\ seq' = [seq EXCEPT ![s] = @ \o toks]
    /\ pass' = [pass EXCEPT ![s] = << >>]

\* reqs maps each slot of a pass to the tokens it runs, starting at its position.
FitsContext(reqs) ==
    \A s \in DOMAIN reqs : Len(seq[s]) + Len(reqs[s]) <= MaxCtx

Forward(reqs) ==
    /\ UNCHANGED seq
    /\ FitsContext(reqs)
    /\ pass' = [s \in Slots |-> IF s \in DOMAIN reqs THEN reqs[s] ELSE pass[s]]

\* Commit the first m tokens slot s ran in the last pass.
Accept(s, m) ==
    /\ m \in 1 .. Len(pass[s])
    /\ seq' = [seq EXCEPT ![s] = @ \o SubSeq(pass[s], 1, m)]
    /\ pass' = [pass EXCEPT ![s] = << >>]

Chunks == UNION {[1 .. n -> Token] : n \in 1 .. MaxCtx}
Rows == UNION {[1 .. n -> Token] : n \in 1 .. MaxRows}

\* The caller accepts every slot of a pass before it starts another or a prompt.
Accepted == \A s \in Slots : pass[s] = << >>

EngineNext ==
    \/ \E s \in Slots : ResetSlot(s) \/ \E m \in 1 .. MaxRows : Accept(s, m)
    \/ Accepted /\ \E s \in Slots : \E toks \in Chunks : Prefill(s, toks)
    \/ Accepted /\ \E ss \in SUBSET Slots : \E reqs \in [ss -> Rows] : Forward(reqs)

EngineSpec == EngineInit /\ [][EngineNext]_engineVars
=============================================================================
