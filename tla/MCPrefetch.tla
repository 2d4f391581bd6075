----------------------------- MODULE MCPrefetch -----------------------------
(***************************************************************************)
(* A small instance of Prefetch: three layers, the middle one with         *)
(* attention, and an MTP pass between two trunk passes.                    *)
(***************************************************************************)
EXTENDS Prefetch

MCPasses == <<"trunk", "mtp", "trunk">>
=============================================================================
