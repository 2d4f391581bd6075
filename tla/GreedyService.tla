--------------------------- MODULE GreedyService ---------------------------
(***************************************************************************)
(* What hipster-serve promises a request, with no slots, no drafts, no     *)
(* batches and no other requests in sight: the greedy continuation of its  *)
(* prompt (or any sampled one), token by token, until the model stops, the *)
(* token limit is reached or the client leaves.  Scheduler implements this *)
(* specification, which is the exactness claim of docs/serving.md and      *)
(* docs/speculative-27b.md: output is identical alone or concurrent, with  *)
(* or without drafts.                                                      *)
(***************************************************************************)
EXTENDS Integers, Sequences

CONSTANTS
    Jobs, Token, Stop, Greedy(_), Prompt, MaxTokens, Sampled, Streaming,
    MaxCtx, Margin

VARIABLES
    status,     \* status[j]: "idle", "refused", "running" or "answered"
    answer,     \* answer[j]: the tokens given so far
    reason      \* reason[j]: why the answer ended, "" until it has

serviceVars == <<status, answer, reason>>

\* At least one token is given, whatever the limit.
TokenLimit(j) == IF MaxTokens[j] < 1 THEN 1 ELSE MaxTokens[j]

Wants(j, id) == j \in Sampled \/ id = Greedy(Prompt[j] \o answer[j])

Take(j) ==
    /\ status[j] = "idle"
    /\ Len(Prompt[j]) + Margin <= MaxCtx
    /\ status' = [status EXCEPT ![j] = "running"]
    /\ UNCHANGED <<answer, reason>>

RefuseLong(j) ==
    /\ status[j] = "idle"
    /\ Len(Prompt[j]) + Margin > MaxCtx
    /\ status' = [status EXCEPT ![j] = "refused"]
    /\ UNCHANGED <<answer, reason>>

Say(j) ==
    /\ status[j] = "running"
    /\ Len(answer[j]) < TokenLimit(j)
    /\ \E id \in Token \ Stop :
        /\ Wants(j, id)
        /\ answer' = [answer EXCEPT ![j] = Append(@, id)]
    /\ UNCHANGED <<status, reason>>

MayEnd(j, why) ==
    \/ why = "stop" /\ \E id \in Stop : Wants(j, id)
    \/ why = "length" /\ Len(answer[j]) = TokenLimit(j)
    \/ why = "abort" /\ j \in Streaming

End(j) ==
    /\ status[j] = "running"
    /\ \E why \in {"stop", "length", "abort"} :
        /\ MayEnd(j, why)
        /\ reason' = [reason EXCEPT ![j] = why]
    /\ status' = [status EXCEPT ![j] = "answered"]
    /\ UNCHANGED answer

ServiceInit ==
    /\ status = [j \in Jobs |-> "idle"]
    /\ answer = [j \in Jobs |-> << >>]
    /\ reason = [j \in Jobs |-> ""]

ServiceNext == \E j \in Jobs : Take(j) \/ RefuseLong(j) \/ Say(j) \/ End(j)

ServiceSpec == ServiceInit /\ [][ServiceNext]_serviceVars
=============================================================================
