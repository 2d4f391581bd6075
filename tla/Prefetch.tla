------------------------------ MODULE Prefetch ------------------------------
(***************************************************************************)
(* The GEMM path of the 27B (engine/src/qwen35.cpp): the host walks the    *)
(* layers and queues work on two GPU streams.  Weights are dequantised one *)
(* GEMM ahead on the second stream into one of two scratch buffers; events *)
(* keep a buffer from being refilled under a GEMM that reads it, and a     *)
(* GEMM from reading a buffer that is not filled.  The host runs ahead of  *)
(* both streams and meets them only at the end of a trunk pass.            *)
(*                                                                         *)
(* A call of the host is one action: the streams see its operations in     *)
(* order either way, and a wait names the record issued before it.  A      *)
(* stream starts and ends the operation at the head of its queue in two    *)
(* steps, so that operations of the two streams overlap.                   *)
(***************************************************************************)
EXTENDS Integers, Sequences

CONSTANTS
    NLayers,
    Attention,      \* the layers with attention, the others are GDN
    Passes,         \* the GEMM passes the host makes: "trunk" or "mtp"
    PrefetchOn      \* prefetch_on_ (HIPSTER_PREFETCH)

ASSUME PrefetchAssumption ==
    /\ NLayers \in Nat \ {0}
    /\ Attention \subseteq 0 .. NLayers - 1
    /\ Passes \in Seq({"trunk", "mtp"})
    /\ PrefetchOn \in BOOLEAN

VARIABLES
    pass, layer, stage,         \* where the host is
    next, next2,                \* weights of the next prefetches, or NoWeight
    pending, current, wanted,   \* pf_pending_, pf_buf_, pf_w_
    queue,                      \* queue[s]: operations of stream s not yet done
    running,                    \* running[s]: the head of its queue has started
    issued, recorded,           \* records of an event queued and done
    buffer                      \* the weights a scratch buffer holds

hostVars == <<pass, layer, stage, next, next2>>
prefetchVars == <<pending, current, wanted>>
gpuVars == <<queue, running, issued, recorded, buffer>>
vars == <<hostVars, prefetchVars, gpuVars>>

NoWeight == <<"none", 0>>
Groups == {"in", "out", "gateup", "down", "eh"}
Weights == Groups \X (0 .. NLayers)
Mtp == NLayers              \* the weights of the MTP block, after those of the layers

Scratch == {0, 1}           \* wscratch2_
Own == 2                    \* wscratch_, filled on the GEMM's own stream
Streams == {1, 2}
Events == {"free0", "free1", "ready"}
Free(b) == IF b = 0 THEN "free0" ELSE "free1"

Dequant(w, b) == [op |-> "dequant", w |-> w, b |-> b]
Gemm(w, b) == [op |-> "gemm", w |-> w, b |-> b]
Record(e) == [op |-> "record", e |-> e]
Wait(e, n) == [op |-> "wait", e |-> e, n |-> n]

-----------------------------------------------------------------------------
(* Host: prefetch and lin_multi                                            *)

Current == <<stage, IF pass <= Len(Passes) /\ Passes[pass] = "mtp" THEN Mtp ELSE layer>>

\* Faulty variant: the flip of pf_buf_ does not come back to 0.
OtherNext(b) == b + 1

\* The scratch buffer that is not b (pf_buf_ ^ 1).
Other(b) == 1 - b

\* Faulty variant: the buffer is filled without regard to the GEMM that reads it.
FillAtOnce(w, b, counts) == <<Dequant(w, b), Record("ready")>>

\* What prefetch queues on the second stream for weights w into buffer b.
Fill(w, b, counts) == <<Wait(Free(b), counts[Free(b)]), Dequant(w, b), Record("ready")>>

Prefetches(w, busy) == PrefetchOn /\ ~busy /\ w # NoWeight

\* The weights of this call have been prefetched.
Hit(w) == pending /\ wanted = w

\* lin_multi(w) with nw in next_pf_: the GEMM, on prefetched weights or on weights
\* it dequantises itself, then the prefetch of nw.
LinMulti(w, nw) ==
    LET used == IF Hit(w) THEN Other(current) ELSE current
        b == IF Hit(w) THEN used ELSE Own
        head == IF Hit(w) THEN <<Wait("ready", issued["ready"]), Gemm(w, b), Record(Free(b))>>
                ELSE <<Dequant(w, b), Gemm(w, b)>>
        counts == IF Hit(w) THEN [issued EXCEPT ![Free(b)] = @ + 1] ELSE issued
        busy == pending /\ ~Hit(w)
        ahead == Prefetches(nw, busy)
    IN  /\ queue' = [s \in Streams |->
                        IF s = 1 THEN queue[1] \o head
                        ELSE IF ahead THEN queue[2] \o Fill(nw, Other(used), counts) ELSE queue[2]]
        /\ issued' = IF ahead THEN [counts EXCEPT !["ready"] = @ + 1] ELSE counts
        /\ current' = used
        /\ pending' = (busy \/ ahead)
        /\ wanted' = IF ahead THEN nw ELSE wanted
        /\ UNCHANGED <<running, recorded, buffer>>

-----------------------------------------------------------------------------
(* Host: forward, attn_block, ffn_block, mtp_forward                       *)

At(kind, st) == pass <= Len(Passes) /\ Passes[pass] = kind /\ stage = st
InAttention == layer \in Attention

\* A trunk pass begins with the prefetch of the first group of layer 0.
Begin ==
    /\ At("trunk", "begin")
    /\ LET w == <<"in", 0>>
       IN  IF Prefetches(w, pending)
           THEN /\ queue' = [queue EXCEPT ![2] = @ \o Fill(w, Other(current), issued)]
                /\ issued' = [issued EXCEPT !["ready"] = @ + 1]
                /\ pending' = TRUE /\ wanted' = w
           ELSE UNCHANGED <<queue, issued, pending, wanted>>
    /\ stage' = "in"
    /\ UNCHANGED <<pass, layer, next, next2, current, running, recorded, buffer>>

\* qkv, z, beta, alpha of a GDN layer or q, k, v of an attention layer.  With
\* attention, gate and up are set aside in next2_pf_ and put back behind it.
InProjection ==
    /\ At("trunk", "in")
    /\ LinMulti(Current, <<"out", layer>>)
    /\ next' = IF InAttention THEN <<"gateup", layer>> ELSE NoWeight
    /\ next2' = IF InAttention THEN NoWeight ELSE next2
    /\ stage' = "out"
    /\ UNCHANGED <<pass, layer>>

OutProjection ==
    /\ At("trunk", "out")
    /\ LinMulti(Current, IF InAttention THEN next ELSE <<"gateup", layer>>)
    /\ next' = <<"down", layer>>
    /\ next2' = IF layer + 1 < NLayers THEN <<"in", layer + 1>> ELSE NoWeight
    /\ stage' = "gateup"
    /\ UNCHANGED <<pass, layer>>

\* Faulty variant: what the call took stays in next_pf_.
NotTaken == next

\* What is in next_pf_ when next2_pf_ has been moved there, after a call took it.
Promoted == next2

GateUp ==
    /\ stage = "gateup" /\ pass <= Len(Passes)
    /\ LinMulti(Current, next)
    /\ next' = Promoted /\ next2' = NoWeight
    /\ stage' = "down"
    /\ UNCHANGED <<pass, layer>>

\* The down projection ends a layer, and with it a pass; a trunk pass ends when
\* the GPU has done what it queued on the first stream.
Down ==
    /\ stage = "down" /\ pass <= Len(Passes)
    /\ LinMulti(Current, next)
    /\ next' = NoWeight
    /\ IF Passes[pass] = "trunk" /\ layer + 1 < NLayers
       THEN layer' = layer + 1 /\ stage' = "in"
       ELSE layer' = layer /\ stage' = "end"
    /\ UNCHANGED <<pass, next2>>

EndPass ==
    /\ stage = "end" /\ pass <= Len(Passes)
    /\ Passes[pass] = "trunk" => queue[1] = << >>
    /\ pass' = pass + 1 /\ layer' = 0 /\ stage' = "begin"
    /\ UNCHANGED <<next, next2, prefetchVars, gpuVars>>

\* mtp_forward sets nothing to prefetch itself, but its attention does.
MtpBegin ==
    /\ At("mtp", "begin")
    /\ LinMulti(<<"eh", Mtp>>, next)
    /\ next' = NoWeight
    /\ stage' = "in"
    /\ UNCHANGED <<pass, layer, next2>>

MtpIn ==
    /\ At("mtp", "in")
    /\ LinMulti(Current, <<"out", Mtp>>)
    /\ next' = next /\ next2' = NoWeight    \* set aside and put back
    /\ stage' = "out"
    /\ UNCHANGED <<pass, layer>>

MtpOut ==
    /\ At("mtp", "out")
    /\ LinMulti(Current, next)
    /\ next' = NoWeight
    /\ stage' = "gateup"
    /\ UNCHANGED <<pass, layer, next2>>

Host ==
    \/ Begin \/ InProjection \/ OutProjection \/ GateUp \/ Down \/ EndPass
    \/ MtpBegin \/ MtpIn \/ MtpOut

-----------------------------------------------------------------------------
(* The streams                                                             *)

HeadOf(s) == queue[s][1]

Garbage == <<"none", 1>>    \* a buffer while it is being filled

Start(s) ==
    /\ queue[s] # << >> /\ ~running[s]
    /\ HeadOf(s).op = "wait" => recorded[HeadOf(s).e] >= HeadOf(s).n
    /\ running' = [running EXCEPT ![s] = TRUE]
    /\ buffer' = IF HeadOf(s).op = "dequant" THEN [buffer EXCEPT ![HeadOf(s).b] = Garbage] ELSE buffer
    /\ UNCHANGED <<hostVars, prefetchVars, queue, issued, recorded>>

Finish(s) ==
    /\ running[s]
    /\ running' = [running EXCEPT ![s] = FALSE]
    /\ buffer' = IF HeadOf(s).op = "dequant" THEN [buffer EXCEPT ![HeadOf(s).b] = HeadOf(s).w] ELSE buffer
    /\ recorded' = IF HeadOf(s).op = "record" THEN [recorded EXCEPT ![HeadOf(s).e] = @ + 1] ELSE recorded
    /\ queue' = [queue EXCEPT ![s] = Tail(@)]
    /\ UNCHANGED <<hostVars, prefetchVars, issued>>

Gpu(s) == Start(s) \/ Finish(s)

Init ==
    /\ pass = 1 /\ layer = 0 /\ stage = "begin"
    /\ next = NoWeight /\ next2 = NoWeight
    /\ pending = FALSE /\ current = 0 /\ wanted = NoWeight
    /\ queue = [s \in Streams |-> << >>]
    /\ running = [s \in Streams |-> FALSE]
    /\ issued = [e \in Events |-> IF e = "ready" THEN 0 ELSE 1]     \* the constructor records both
    /\ recorded = issued
    /\ buffer = [b \in Scratch \cup {Own} |-> NoWeight]

Done ==
    /\ pass > Len(Passes)
    /\ \A s \in Streams : queue[s] = << >>
    /\ UNCHANGED vars

Next == Host \/ (\E s \in Streams : Gpu(s)) \/ Done

Spec == Init /\ [][Next]_vars

-----------------------------------------------------------------------------
(* Properties                                                              *)

Operation ==
    [op : {"dequant", "gemm"}, w : Weights, b : Scratch \cup {Own}]
        \cup [op : {"record"}, e : Events] \cup [op : {"wait"}, e : Events, n : Nat]

TypeOK ==
    /\ pass \in 1 .. Len(Passes) + 1 /\ layer \in 0 .. NLayers - 1
    /\ stage \in {"begin", "in", "out", "gateup", "down", "end"}
    /\ {next, next2, wanted} \subseteq Weights \cup {NoWeight}
    /\ pending \in BOOLEAN /\ current \in Scratch
    /\ queue \in [Streams -> Seq(Operation)]
    /\ running \in [Streams -> BOOLEAN]
    /\ issued \in [Events -> Nat] /\ recorded \in [Events -> Nat]
    /\ buffer \in [Scratch \cup {Own} -> Weights \cup {NoWeight, Garbage}]

\* A GEMM multiplies with its own weights from start to end: its buffer has been
\* filled and is not refilled while it runs, however far the host is ahead.
GemmReadsItsWeights ==
    running[1] /\ HeadOf(1).op = "gemm" => buffer[HeadOf(1).b] = HeadOf(1).w

\* A prefetch is for the very next GEMM: the host never leaves one behind, which
\* would keep every later call from prefetching.
PrefetchIsUsed ==
    pending => /\ pass <= Len(Passes)
               /\ wanted = IF Passes[pass] = "mtp" /\ stage = "begin" THEN <<"eh", Mtp>> ELSE Current
=============================================================================
