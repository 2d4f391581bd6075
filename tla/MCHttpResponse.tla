--------------------------- MODULE MCHttpResponse ---------------------------
(***************************************************************************)
(* Small instance of HttpResponse for TLC: tokens that end inside a        *)
(* character, that continue one, and both thinking tags.                   *)
(***************************************************************************)
EXTENDS HttpResponse

MCPiece == [a |-> <<1>>, three |-> <<1, 3>>, four |-> <<4>>, more |-> <<0>>, two |-> <<0, 0>>,
            open |-> <<1>>, close |-> <<1>>]
MCTokens == DOMAIN MCPiece
=============================================================================
