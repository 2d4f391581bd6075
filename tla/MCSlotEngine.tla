---------------------------- MODULE MCSlotEngine ----------------------------
(***************************************************************************)
(* Small instances of SlotEngine for TLC: two tokens, so that a stale row  *)
(* differs from a fresh one, and pooled blocks of two positions.  Neither  *)
(* tokens nor slots have an order the module could tell apart.             *)
(***************************************************************************)
EXTENDS SlotEngine, TLC

CONSTANTS s0, s1, ta, tb

Symmetry == Permutations({ta, tb}) \cup Permutations({s0, s1})

\* Rows and buffers that wait for an accept; the others are overwritten before
\* they are read, so states that differ in them alone behave alike.
Pending(s) == IF lT[s] = 0 THEN << >>
              ELSE <<pend[s], lr0[s], rec[s][Spare(s)], ple[s][Spare(s)], [t \in 1 .. lT[s] |-> saved[lr0[s] + t - 1]]>>

LiveState ==
    <<[s \in Slots |-> <<Committed(s), ple[s][cur[s]], hist[s], kc[s], pooled[s], Pending(s)>>], exact>>
=============================================================================
