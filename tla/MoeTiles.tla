------------------------------ MODULE MoeTiles ------------------------------
(***************************************************************************)
(* The work list of a prefill pass over the experts (engine/src/           *)
(* qwen4exp.cpp, prefill): the slots of all rows, each a row and the       *)
(* expert it is routed to, are sorted by expert and cut into tiles of at   *)
(* most MaxCols columns; each grouped GEMM reads one expert's weights per  *)
(* tile, and the results are put back by kpos.                             *)
(*                                                                         *)
(* eid[i] is the expert of slot i, Shared for the expert every row uses.   *)
(* Positions count from 1.                                                 *)
(***************************************************************************)
EXTENDS Integers, Sequences, FiniteSets, SequencesExt, FiniteSetsExt

CONSTANTS
    NExp,       \* number of routed experts
    Narrow, Ct, \* a tile has up to Narrow * Ct columns (16 and HIPSTER_MOE_CT)
    Wide        \* slots of a row, D::n_used + 1

ASSUME MoeAssumption ==
    /\ {NExp, Narrow} \subseteq Nat \ {0}
    /\ Ct \in 1 .. 3
    /\ Wide \in Nat /\ Wide > 1

Shared == -1

MaxCols == Narrow * Ct

\* A slot goes behind the last one of its expert or of a lower one.
Placed(eid, order, i) ==
    InsertAt(order, Max({0} \cup {k \in DOMAIN order : eid[order[k]] <= eid[i]}) + 1, i)

\* The slots in the order of their expert, those of one expert in order: what
\* the sort leaves, however it gets there.
Order(eid) == FoldLeft(LAMBDA order, i : Placed(eid, order, i), << >>, [i \in DOMAIN eid |-> i])

\* Where each slot went, and the row each position takes its input from.
KPos(order) == [i \in DOMAIN order |-> CHOOSE k \in DOMAIN order : order[k] = i]
RowTok(order) == [k \in DOMAIN order |-> (order[k] - 1) \div Wide]

\* Faulty variant: a tile ends only where the expert changes.
NeverFull(tile) == FALSE

Full(tile) == tile.ncols = MaxCols

\* The list after position k, whose slot is routed to expert e, the slot before
\* it to expert before.
Extended(list, k, e, before) ==
    IF list = << >> \/ e # before \/ Full(Last(list))
    THEN Append(list, [expert |-> e, first |-> k, ncols |-> 1])
    ELSE Front(list) \o <<[Last(list) EXCEPT !.ncols = @ + 1]>>

\* The tiles of the routed experts and those of the shared one.
Tiles(eid) ==
    LET order == Order(eid)
        Step(lists, k) ==
            LET e == eid[order[k]]
                before == IF k = 1 THEN e ELSE eid[order[k - 1]]
                which == IF e < 0 THEN "shared" ELSE "routed"
            IN  [lists EXCEPT ![which] = Extended(@, k, e, before)]
    IN  FoldLeft(Step, [routed |-> << >>, shared |-> << >>], [k \in DOMAIN order |-> k])

\* Tiles the device buffer has room for when a pass has so many rows at most.
TileRoom(rows) == (rows * Wide) \div Narrow + NExp + 2
=============================================================================
