---------------------------- MODULE PrefetchProofs ----------------------------
(***************************************************************************)
(* Proofs about Prefetch, for any number of layers, any layers with        *)
(* attention and any sequence of passes.                                   *)
(*                                                                         *)
(* PrefetchIsUsed says nothing of next_pf_ and next2_pf_, which the next   *)
(* calls take, so it is not inductive: Ahead says what they hold at each   *)
(* stage of a layer.  WellTyped adds to the types that a stream which runs *)
(* has an operation to run.                                                *)
(***************************************************************************)
EXTENDS Prefetch, SequenceTheorems, TLAPS

-----------------------------------------------------------------------------
(* The invariant.                                                          *)

WellTyped == TypeOK /\ \A s \in Streams : running[s] => queue[s] # << >>

Trunk == pass <= Len(Passes) /\ Passes[pass] = "trunk"

\* The first weights of the layer behind this one.
NextLayer == IF layer + 1 < NLayers THEN <<"in", layer + 1>> ELSE NoWeight

\* The weights that next_pf_ and next2_pf_ hold at each stage: those of the call
\* after the next one, and NoWeight between two layers.
Ahead ==
    /\ stage \in {"begin", "in", "end"} => next = NoWeight /\ next2 = NoWeight
    /\ stage = "out" =>
          /\ next = IF Trunk /\ InAttention THEN <<"gateup", layer>> ELSE NoWeight
          /\ Trunk \/ next2 = NoWeight
    /\ stage = "gateup" =>
          /\ next = IF Trunk THEN <<"down", layer>> ELSE NoWeight
          /\ next2 = IF Trunk THEN NextLayer ELSE NoWeight
    /\ stage = "down" =>
          /\ next = IF Trunk THEN NextLayer ELSE NoWeight
          /\ next2 = NoWeight

\* The weights of the next call.
Wanted == IF pass <= Len(Passes) /\ Passes[pass] = "mtp" /\ stage = "begin" THEN <<"eh", Mtp>> ELSE Current

HostInv ==
    /\ WellTyped
    /\ Ahead
    /\ pending => pass <= Len(Passes) /\ wanted = Wanted /\ stage # "end"
    /\ stage = "begin" => layer = 0

-----------------------------------------------------------------------------
(* A call of lin_multi.                                                    *)

LEMMA InitHostInv == Init => HostInv
<1> SUFFICES ASSUME Init PROVE HostInv
    OBVIOUS
<1>1. Len(Passes) \in Nat /\ NLayers \in Nat /\ NLayers > 0
    BY PrefetchAssumption, LenProperties
<1>2. << >> \in Seq(Operation)
    BY EmptySeq
<1>3. TypeOK
    <2>1. pass \in 1 .. Len(Passes) + 1 /\ layer \in 0 .. NLayers - 1
        BY <1>1 DEF Init
    <2>2. queue \in [Streams -> Seq(Operation)] /\ running \in [Streams -> BOOLEAN]
        BY <1>2 DEF Init
    <2>3. issued \in [Events -> Nat] /\ recorded \in [Events -> Nat]
        BY DEF Init
    <2>4. stage = "begin" /\ {next, next2, wanted} \subseteq Weights \cup {NoWeight}
        BY DEF Init
    <2>5. pending \in BOOLEAN /\ current \in Scratch
        BY DEF Init, Scratch
    <2>6. buffer \in [Scratch \cup {Own} -> Weights \cup {NoWeight, Garbage}]
        BY DEF Init
    <2> QED
        BY <2>1, <2>2, <2>3, <2>4, <2>5, <2>6 DEF TypeOK
<1>4. WellTyped
    BY <1>3 DEF WellTyped, Init
<1>5. Ahead /\ ~pending /\ layer = 0 /\ stage = "begin"
    BY DEF Init, Ahead
<1> QED
    BY <1>4, <1>5 DEF HostInv

\* The operations of a call are operations, and its flags have their types.
LEMMA LinMultiTypes ==
    ASSUME WellTyped, NEW w \in Weights, NEW nw \in Weights \cup {NoWeight}, LinMulti(w, nw)
    PROVE  /\ queue' \in [Streams -> Seq(Operation)]
           /\ \A s \in Streams : running'[s] => queue'[s] # << >>
           /\ issued' \in [Events -> Nat]
           /\ pending' \in BOOLEAN /\ current' \in Scratch
           /\ wanted' \in Weights \cup {NoWeight}
           /\ running' = running /\ recorded' = recorded /\ buffer' = buffer
<1> DEFINE used == IF Hit(w) THEN Other(current) ELSE current
           b == IF Hit(w) THEN used ELSE Own
           head == IF Hit(w) THEN <<Wait("ready", issued["ready"]), Gemm(w, b), Record(Free(b))>>
                   ELSE <<Dequant(w, b), Gemm(w, b)>>
           counts == IF Hit(w) THEN [issued EXCEPT ![Free(b)] = @ + 1] ELSE issued
           busy == pending /\ ~Hit(w)
           ahead == Prefetches(nw, busy)
<1>1. /\ queue' = [s \in Streams |->
                      IF s = 1 THEN queue[1] \o head
                      ELSE IF ahead THEN queue[2] \o Fill(nw, Other(used), counts) ELSE queue[2]]
      /\ issued' = IF ahead THEN [counts EXCEPT !["ready"] = @ + 1] ELSE counts
      /\ current' = used
      /\ pending' = (busy \/ ahead)
      /\ wanted' = IF ahead THEN nw ELSE wanted
      /\ UNCHANGED <<running, recorded, buffer>>
    BY DEF LinMulti
<1>2. /\ issued \in [Events -> Nat] /\ current \in Scratch /\ queue \in [Streams -> Seq(Operation)]
      /\ wanted \in Weights \cup {NoWeight} /\ pending \in BOOLEAN /\ PrefetchOn \in BOOLEAN
    BY PrefetchAssumption DEF WellTyped, TypeOK
<1>3. used \in Scratch /\ Other(used) \in Scratch /\ b \in Scratch \cup {Own}
    BY <1>2 DEF Other, Scratch
<1>4. \A x : Free(x) \in Events
    BY DEF Free, Events
<1>5. counts \in [Events -> Nat]
    BY <1>2, <1>4
<1>6. /\ \A x \in Weights, y \in Scratch \cup {Own} : Dequant(x, y) \in Operation /\ Gemm(x, y) \in Operation
      /\ \A e \in Events : Record(e) \in Operation
      /\ \A e \in Events, n \in Nat : Wait(e, n) \in Operation
    BY DEF Operation, Dequant, Gemm, Record, Wait
<1>7. "ready" \in Events
    BY DEF Events
<1>8. head \in Seq(Operation) /\ Len(head) > 0
    <2>1. CASE Hit(w)
        <3>1. /\ Wait("ready", issued["ready"]) \in Operation /\ Gemm(w, b) \in Operation
              /\ Record(Free(b)) \in Operation
            BY <1>2, <1>3, <1>4, <1>6, <1>7
        <3> HIDE DEF b
        <3> QED
            BY <2>1, <3>1
    <2>2. CASE ~Hit(w)
        <3>1. Dequant(w, b) \in Operation /\ Gemm(w, b) \in Operation
            BY <1>3, <1>6
        <3> HIDE DEF b
        <3> QED
            BY <2>2, <3>1
    <2> QED
        BY <2>1, <2>2
<1>9. ASSUME ahead
      PROVE  nw \in Weights /\ Fill(nw, Other(used), counts) \in Seq(Operation)
                /\ Len(Fill(nw, Other(used), counts)) > 0
    <2>1. nw \in Weights
        BY <1>9 DEF Prefetches
    <2>2. /\ Wait(Free(Other(used)), counts[Free(Other(used))]) \in Operation
          /\ Dequant(nw, Other(used)) \in Operation /\ Record("ready") \in Operation
        BY <2>1, <1>3, <1>4, <1>5, <1>6, <1>7
    <2> QED
        BY <2>1, <2>2 DEF Fill
<1> HIDE DEF head, counts, ahead, used, busy
<1>10. queue[1] \in Seq(Operation) /\ queue[2] \in Seq(Operation) /\ Streams = {1, 2}
    BY <1>2 DEF Streams
<1>11. queue[1] \o head \in Seq(Operation) /\ queue[1] \o head # << >>
    <2>1. Len(queue[1] \o head) = Len(queue[1]) + Len(head) /\ queue[1] \o head \in Seq(Operation)
        BY <1>8, <1>10, ConcatProperties
    <2>2. Len(queue[1]) \in Nat /\ Len(head) \in Nat
        BY <1>8, <1>10, LenProperties
    <2>3. Len(queue[1] \o head) # 0
        BY <2>1, <2>2, <1>8
    <2> QED
        BY <2>1, <2>3, EmptySeq
<1>12. ASSUME ahead
       PROVE  /\ queue[2] \o Fill(nw, Other(used), counts) \in Seq(Operation)
              /\ queue[2] \o Fill(nw, Other(used), counts) # << >>
    <2> DEFINE f == Fill(nw, Other(used), counts)
    <2>1. f \in Seq(Operation) /\ Len(f) > 0
        BY <1>9, <1>12
    <2> HIDE DEF f
    <2>2. Len(queue[2] \o f) = Len(queue[2]) + Len(f) /\ queue[2] \o f \in Seq(Operation)
        BY <2>1, <1>10, ConcatProperties
    <2>3. Len(queue[2]) \in Nat /\ Len(f) \in Nat
        BY <2>1, <1>10, LenProperties
    <2>4. Len(queue[2] \o f) # 0
        BY <2>1, <2>2, <2>3
    <2>5. queue[2] \o f # << >>
        BY <2>2, <2>4, EmptySeq
    <2> QED
        BY <2>2, <2>5 DEF f
<1>13. queue' \in [Streams -> Seq(Operation)]
    BY <1>1, <1>10, <1>11, <1>12
<1>14. \A s \in Streams : running'[s] => queue'[s] # << >>
    BY <1>1, <1>10, <1>11, <1>12 DEF WellTyped
<1>15. issued' \in [Events -> Nat]
    BY <1>1, <1>5, <1>7
<1>16. wanted' \in Weights \cup {NoWeight} /\ pending' \in BOOLEAN /\ current' \in Scratch
    <2>1. pending' \in BOOLEAN
        BY <1>1 DEF busy, ahead, Prefetches
    <2>2. wanted' \in Weights \cup {NoWeight}
        BY <1>1, <1>2, <1>9
    <2> QED
        BY <2>1, <2>2, <1>1, <1>3
<1> QED
    BY <1>1, <1>13, <1>14, <1>15, <1>16

\* When the weights of the call are those prefetched, the only ones prefetched
\* behind it are its nw.
LEMMA LinMultiTakes ==
    ASSUME NEW w, NEW nw, LinMulti(w, nw), pending => wanted = w
    PROVE  pending' => wanted' = nw /\ nw # NoWeight
<1>1. ~(pending /\ ~Hit(w))
    BY DEF Hit
<1> QED
    BY <1>1 DEF LinMulti, Prefetches

-----------------------------------------------------------------------------
(* The steps of the host.                                                  *)

\* What a call leaves behind, with the stage it leads to, is the invariant again.
LEMMA CallKeepsTypes ==
    ASSUME HostInv, NEW w \in Weights, NEW nw \in Weights \cup {NoWeight}, LinMulti(w, nw),
           pass' = pass, layer' \in 0 .. NLayers - 1,
           stage' \in {"begin", "in", "out", "gateup", "down", "end"},
           {next', next2'} \subseteq Weights \cup {NoWeight}
    PROVE  WellTyped'
<1>1. WellTyped /\ TypeOK
    BY DEF HostInv, WellTyped
<1>2. /\ queue' \in [Streams -> Seq(Operation)]
      /\ \A s \in Streams : running'[s] => queue'[s] # << >>
      /\ issued' \in [Events -> Nat]
      /\ pending' \in BOOLEAN /\ current' \in Scratch
      /\ wanted' \in Weights \cup {NoWeight}
      /\ running' = running /\ recorded' = recorded /\ buffer' = buffer
    BY <1>1, LinMultiTypes
<1>3. /\ pass' \in 1 .. Len(Passes) + 1 /\ running' \in [Streams -> BOOLEAN] /\ recorded' \in [Events -> Nat]
      /\ buffer' \in [Scratch \cup {Own} -> Weights \cup {NoWeight, Garbage}]
    BY <1>1, <1>2 DEF TypeOK
<1>4. TypeOK'
    BY <1>2, <1>3 DEF TypeOK
<1> QED
    BY <1>2, <1>4 DEF WellTyped

\* The weights of a stage are weights.
LEMMA WeightTypes ==
    ASSUME TypeOK
    PROVE  /\ \A g \in Groups : <<g, layer>> \in Weights /\ <<g, Mtp>> \in Weights
           /\ NextLayer \in Weights \cup {NoWeight}
           /\ stage \in Groups => Current \in Weights
           /\ layer \in Nat /\ NLayers \in Nat
<1>1. layer \in Nat /\ layer <= NLayers - 1 /\ NLayers \in Nat /\ NLayers > 0
    BY PrefetchAssumption DEF TypeOK
<1>2. layer \in 0 .. NLayers /\ Mtp \in 0 .. NLayers /\ (layer + 1 < NLayers => layer + 1 \in 0 .. NLayers)
    BY <1>1 DEF Mtp
<1>3. "in" \in Groups
    BY DEF Groups
<1> QED
    BY <1>1, <1>2, <1>3 DEF Weights, NextLayer, Current

\* A call for the wanted weights keeps the invariant when what it prefetches is
\* what the next call wants.
LEMMA CallKeepsInv ==
    ASSUME HostInv, NEW nw \in Weights \cup {NoWeight},
           pass <= Len(Passes), Wanted \in Weights, LinMulti(Wanted, nw),
           pass' = pass, layer' \in 0 .. NLayers - 1,
           stage' \in {"in", "out", "gateup", "down", "end"},
           {next', next2'} \subseteq Weights \cup {NoWeight},
           Ahead', nw # NoWeight => nw = Wanted' /\ stage' # "end"
    PROVE  HostInv'
<1>1. WellTyped'
    BY CallKeepsTypes
<1>2. pending => wanted = Wanted
    BY DEF HostInv
<1>3. pending' => wanted' = nw /\ nw # NoWeight
    BY <1>2, LinMultiTakes
<1> QED
    BY <1>1, <1>3 DEF HostInv

LEMMA BeginInv == HostInv /\ Begin => HostInv'
<1> SUFFICES ASSUME HostInv, Begin PROVE HostInv'
    OBVIOUS
<1> DEFINE w == <<"in", 0>>
           f == Fill(w, Other(current), issued)
           ahead == Prefetches(w, pending)
<1>1. /\ TypeOK /\ WellTyped /\ Ahead /\ Trunk /\ stage = "begin" /\ layer = 0
      /\ next = NoWeight /\ next2 = NoWeight
    BY DEF HostInv, WellTyped, Begin, At, Trunk, Ahead
<1>2. pass <= Len(Passes) /\ Passes[pass] = "trunk"
    BY <1>1 DEF Trunk
<1>3. ~pending
    <2>1. pending => wanted = <<"begin", 0>>
        BY <1>1, <1>2 DEF HostInv, Wanted, Current
    <2>2. wanted \in Weights \cup {NoWeight}
        BY <1>1 DEF TypeOK
    <2>3. <<"begin", 0>> \notin Weights \cup {NoWeight}
        BY DEF Weights, NoWeight, Groups
    <2> QED
        BY <2>1, <2>2, <2>3
<1>4. w \in Weights
    BY <1>1, WeightTypes DEF Groups
<1>5. /\ queue' = IF ahead THEN [queue EXCEPT ![2] = queue[2] \o f] ELSE queue
      /\ issued' = IF ahead THEN [issued EXCEPT !["ready"] = @ + 1] ELSE issued
      /\ pending' = (IF ahead THEN TRUE ELSE FALSE)
      /\ wanted' = IF ahead THEN w ELSE wanted
      /\ stage' = "in"
      /\ UNCHANGED <<pass, layer, next, next2, current, running, recorded, buffer>>
    <2>1. pending = FALSE
        BY <1>1, <1>3 DEF TypeOK
    <2>2. CASE ahead
        BY <2>2 DEF Begin
    <2>3. CASE ~ahead
        BY <2>1, <2>3 DEF Begin
    <2> QED
        BY <2>2, <2>3
<1>6. f \in Seq(Operation) /\ Len(f) = 3
    <2>1. Other(current) \in Scratch /\ Free(Other(current)) \in Events /\ issued[Free(Other(current))] \in Nat
        BY <1>1 DEF TypeOK, Other, Scratch, Free, Events
    <2>2. /\ Wait(Free(Other(current)), issued[Free(Other(current))]) \in Operation
          /\ Dequant(w, Other(current)) \in Operation /\ Record("ready") \in Operation
        BY <1>4, <2>1 DEF Wait, Dequant, Record, Operation, Events
    <2> QED
        BY <2>2 DEF Fill
<1> HIDE DEF f
<1>7. queue[2] \in Seq(Operation) /\ queue \in [Streams -> Seq(Operation)] /\ Streams = {1, 2}
    BY <1>1 DEF TypeOK, Streams
<1>8. queue[2] \o f \in Seq(Operation) /\ queue[2] \o f # << >>
    <2>1. queue[2] \o f \in Seq(Operation) /\ Len(queue[2] \o f) = Len(queue[2]) + Len(f)
        BY <1>6, <1>7, ConcatProperties
    <2>2. Len(queue[2]) \in Nat
        BY <1>7, LenProperties
    <2>3. Len(queue[2] \o f) # 0
        BY <2>1, <2>2, <1>6
    <2> QED
        BY <2>1, <2>3, EmptySeq
<1>9. /\ queue' \in [Streams -> Seq(Operation)]
      /\ \A s \in Streams : running'[s] => queue'[s] # << >>
    BY <1>1, <1>5, <1>7, <1>8 DEF WellTyped
<1>10. issued' \in [Events -> Nat]
    BY <1>1, <1>5 DEF TypeOK, Events
<1>11. pending' \in BOOLEAN /\ wanted' \in Weights \cup {NoWeight}
    BY <1>1, <1>4, <1>5, PrefetchAssumption DEF TypeOK, Prefetches
<1>12. WellTyped'
    <2>1. TypeOK'
        BY <1>1, <1>5, <1>9, <1>10, <1>11 DEF TypeOK
    <2> QED
        BY <2>1, <1>9 DEF WellTyped
<1>13. Ahead'
    BY <1>1, <1>5 DEF Ahead
<1>14. pending' => pass' <= Len(Passes) /\ wanted' = Wanted' /\ stage' # "end"
    BY <1>1, <1>2, <1>5 DEF Wanted, Current
<1> QED
    BY <1>1, <1>5, <1>12, <1>13, <1>14 DEF HostInv

LEMMA HostStepInv == HostInv /\ Host => HostInv'
<1> SUFFICES ASSUME HostInv, Host PROVE HostInv'
    OBVIOUS
<1>1. TypeOK /\ WellTyped /\ Ahead /\ (stage = "begin" => layer = 0)
      /\ (pending => pass <= Len(Passes) /\ wanted = Wanted /\ stage # "end")
    BY DEF HostInv, WellTyped
<1>2. /\ \A g \in Groups : <<g, layer>> \in Weights /\ <<g, Mtp>> \in Weights
      /\ NextLayer \in Weights \cup {NoWeight}
      /\ stage \in Groups => Current \in Weights
      /\ layer \in Nat /\ NLayers \in Nat
    BY <1>1, WeightTypes
<1>3. layer \in 0 .. NLayers - 1 /\ {next, next2} \subseteq Weights \cup {NoWeight}
    BY <1>1 DEF TypeOK
<1>4. "in" \in Groups /\ "out" \in Groups /\ "gateup" \in Groups /\ "down" \in Groups /\ "eh" \in Groups
    BY DEF Groups
<1>5. stage \in Groups /\ pass <= Len(Passes) => Wanted = Current
    BY DEF Wanted, Groups
<1>6. CASE Begin
    BY <1>6, BeginInv
<1>7. CASE InProjection
    <2>1. /\ Trunk /\ stage = "in" /\ next = NoWeight /\ next2 = NoWeight /\ pass <= Len(Passes)
          /\ Passes[pass] = "trunk" /\ LinMulti(Wanted, <<"out", layer>>) /\ Wanted \in Weights
        BY <1>1, <1>2, <1>4, <1>5, <1>7 DEF InProjection, At, Trunk, Ahead
    <2>2. /\ next' = IF InAttention THEN <<"gateup", layer>> ELSE NoWeight
          /\ next2' = IF InAttention THEN NoWeight ELSE next2
          /\ stage' = "out" /\ pass' = pass /\ layer' = layer
        BY <1>7 DEF InProjection
    <2>3. <<"out", layer>> \in Weights /\ {next', next2'} \subseteq Weights \cup {NoWeight}
        BY <2>1, <2>2, <1>2, <1>4
    <2>4. Ahead'
        BY <2>1, <2>2 DEF Ahead, Trunk, InAttention
    <2>5. <<"out", layer>> = Wanted'
        BY <2>1, <2>2 DEF Wanted, Current
    <2> QED
        BY <2>1, <2>2, <2>3, <2>4, <2>5, <1>3, CallKeepsInv
<1>8. CASE OutProjection
    <2> DEFINE nw == IF InAttention THEN next ELSE <<"gateup", layer>>
    <2>1. /\ Trunk /\ stage = "out" /\ pass <= Len(Passes) /\ Passes[pass] = "trunk"
          /\ LinMulti(Wanted, nw) /\ Wanted \in Weights /\ nw = <<"gateup", layer>>
        BY <1>1, <1>2, <1>4, <1>5, <1>8 DEF OutProjection, At, Trunk, Ahead
    <2>2. /\ next' = <<"down", layer>> /\ next2' = NextLayer
          /\ stage' = "gateup" /\ pass' = pass /\ layer' = layer
        BY <1>8 DEF OutProjection, NextLayer
    <2>3. nw \in Weights /\ {next', next2'} \subseteq Weights \cup {NoWeight}
        BY <2>1, <2>2, <1>2, <1>4
    <2>4. Ahead'
        BY <2>1, <2>2 DEF Ahead, Trunk, NextLayer
    <2>5. nw = Wanted'
        BY <2>1, <2>2 DEF Wanted, Current
    <2> HIDE DEF nw
    <2> QED
        BY <2>1, <2>2, <2>3, <2>4, <2>5, <1>3, CallKeepsInv
<1>9. CASE GateUp
    <2>1. /\ stage = "gateup" /\ pass <= Len(Passes) /\ LinMulti(Wanted, next) /\ Wanted \in Weights
          /\ next = (IF Trunk THEN <<"down", layer>> ELSE NoWeight)
          /\ next2 = (IF Trunk THEN NextLayer ELSE NoWeight)
        BY <1>1, <1>2, <1>4, <1>5, <1>9 DEF GateUp, Ahead
    <2>2. /\ next' = next2 /\ next2' = NoWeight
          /\ stage' = "down" /\ pass' = pass /\ layer' = layer
        BY <1>9 DEF GateUp, Promoted
    <2>3. next \in Weights \cup {NoWeight} /\ {next', next2'} \subseteq Weights \cup {NoWeight}
        BY <2>2, <1>3
    <2>4. Ahead'
        BY <2>1, <2>2 DEF Ahead, Trunk, NextLayer
    <2>5. next # NoWeight => next = Wanted'
        BY <2>1, <2>2 DEF Wanted, Current, Trunk
    <2> QED
        BY <2>1, <2>2, <2>3, <2>4, <2>5, <1>3, CallKeepsInv
<1>10. CASE Down
    <2>1. /\ stage = "down" /\ pass <= Len(Passes) /\ LinMulti(Wanted, next) /\ Wanted \in Weights
          /\ next = (IF Trunk THEN NextLayer ELSE NoWeight) /\ next2 = NoWeight
        BY <1>1, <1>2, <1>4, <1>5, <1>10 DEF Down, Ahead
    <2>2. /\ next' = NoWeight /\ next2' = NoWeight /\ pass' = pass
          /\ IF Passes[pass] = "trunk" /\ layer + 1 < NLayers
             THEN layer' = layer + 1 /\ stage' = "in"
             ELSE layer' = layer /\ stage' = "end"
        BY <2>1, <1>10 DEF Down
    <2>3. next \in Weights \cup {NoWeight} /\ {next', next2'} \subseteq Weights \cup {NoWeight}
          /\ layer' \in 0 .. NLayers - 1 /\ stage' \in {"in", "end"}
        BY <2>2, <1>2, <1>3
    <2>4. Ahead'
        BY <2>2, <2>3 DEF Ahead
    <2>5. next # NoWeight => next = Wanted' /\ stage' # "end"
        BY <2>1, <2>2 DEF Wanted, Current, Trunk, NextLayer
    <2> QED
        BY <2>1, <2>2, <2>3, <2>4, <2>5, <1>3, CallKeepsInv
<1>11. CASE EndPass
    <2>1. stage = "end" /\ next = NoWeight /\ next2 = NoWeight /\ ~pending /\ pass <= Len(Passes)
        BY <1>1, <1>11 DEF EndPass, Ahead
    <2>2. pass' = pass + 1 /\ layer' = 0 /\ stage' = "begin"
          /\ UNCHANGED <<next, next2, prefetchVars, gpuVars>>
        BY <1>11 DEF EndPass
    <2>3. pass' \in 1 .. Len(Passes) + 1 /\ layer' \in 0 .. NLayers - 1
        <3>1. Len(Passes) \in Nat /\ NLayers \in Nat \ {0} /\ pass \in 1 .. Len(Passes) + 1
            BY <1>1, PrefetchAssumption, LenProperties DEF TypeOK
        <3> QED
            BY <3>1, <2>1, <2>2
    <2>4. TypeOK'
        BY <1>1, <2>2, <2>3 DEF TypeOK, prefetchVars, gpuVars
    <2>5. WellTyped'
        BY <1>1, <2>2, <2>4 DEF WellTyped, gpuVars
    <2>6. Ahead'
        BY <2>1, <2>2 DEF Ahead
    <2>7. ~pending'
        BY <2>1, <2>2 DEF prefetchVars
    <2> QED
        BY <2>2, <2>5, <2>6, <2>7 DEF HostInv
<1>12. CASE MtpBegin
    <2>1. /\ stage = "begin" /\ pass <= Len(Passes) /\ Passes[pass] = "mtp" /\ next = NoWeight /\ next2 = NoWeight
          /\ Wanted = <<"eh", Mtp>> /\ Wanted \in Weights /\ LinMulti(Wanted, next)
        BY <1>1, <1>2, <1>4, <1>12 DEF MtpBegin, At, Ahead, Wanted
    <2>2. next' = NoWeight /\ stage' = "in" /\ UNCHANGED <<pass, layer, next2>>
        BY <1>12 DEF MtpBegin
    <2>3. Ahead'
        BY <2>1, <2>2 DEF Ahead
    <2> QED
        BY <2>1, <2>2, <2>3, <1>3, CallKeepsInv
<1>13. CASE MtpIn
    <2>1. /\ stage = "in" /\ pass <= Len(Passes) /\ Passes[pass] = "mtp" /\ next = NoWeight
          /\ LinMulti(Wanted, <<"out", Mtp>>) /\ Wanted \in Weights
        BY <1>1, <1>2, <1>4, <1>5, <1>13 DEF MtpIn, At, Ahead
    <2>2. next' = next /\ next2' = NoWeight /\ stage' = "out" /\ UNCHANGED <<pass, layer>>
        BY <1>13 DEF MtpIn
    <2>3. Ahead'
        BY <2>1, <2>2 DEF Ahead, Trunk
    <2>4. <<"out", Mtp>> \in Weights /\ <<"out", Mtp>> = Wanted'
        BY <2>1, <2>2, <1>2, <1>4 DEF Wanted, Current
    <2> QED
        BY <2>1, <2>2, <2>3, <2>4, <1>3, CallKeepsInv
<1>14. CASE MtpOut
    <2>1. /\ stage = "out" /\ pass <= Len(Passes) /\ Passes[pass] = "mtp" /\ next = NoWeight /\ next2 = NoWeight
          /\ LinMulti(Wanted, next) /\ Wanted \in Weights
        BY <1>1, <1>2, <1>4, <1>5, <1>14 DEF MtpOut, At, Ahead, Trunk
    <2>2. next' = NoWeight /\ stage' = "gateup" /\ UNCHANGED <<pass, layer, next2>>
        BY <1>14 DEF MtpOut
    <2>3. Ahead'
        BY <2>1, <2>2 DEF Ahead, Trunk
    <2> QED
        BY <2>1, <2>2, <2>3, <1>3, CallKeepsInv
<1> QED
    BY <1>6, <1>7, <1>8, <1>9, <1>10, <1>11, <1>12, <1>13, <1>14 DEF Host

-----------------------------------------------------------------------------
(* The steps of the streams.                                               *)

LEMMA GpuStepInv ==
    ASSUME HostInv, NEW s \in Streams, Gpu(s)
    PROVE  HostInv'
<1>1. TypeOK /\ WellTyped /\ (running[s] => queue[s] # << >>)
    BY DEF HostInv, WellTyped
<1>2. UNCHANGED <<hostVars, prefetchVars, issued>>
    BY DEF Gpu, Start, Finish
<1>3. queue[s] # << >>
    BY <1>1 DEF Gpu, Start, Finish
<1>4. queue[s] \in Seq(Operation) /\ HeadOf(s) \in Operation /\ Tail(queue[s]) \in Seq(Operation)
    <2>1. queue[s] \in Seq(Operation)
        BY <1>1 DEF TypeOK
    <2>2. Len(queue[s]) \in Nat /\ Len(queue[s]) # 0
        BY <2>1, <1>3, EmptySeq, LenProperties
    <2>3. HeadOf(s) \in Operation
        BY <2>1, <2>2, ElementOfSeq DEF HeadOf
    <2>4. Tail(queue[s]) \in Seq(Operation)
        BY <2>1, <1>3, HeadTailProperties
    <2> QED
        BY <2>1, <2>3, <2>4
<1>5. /\ HeadOf(s).op = "dequant" => HeadOf(s).w \in Weights
      /\ HeadOf(s).op = "record" => HeadOf(s).e \in Events
    BY <1>4 DEF Operation
<1>6. /\ recorded' \in [Events -> Nat]
      /\ buffer' \in [Scratch \cup {Own} -> Weights \cup {NoWeight, Garbage}]
      /\ running' \in [Streams -> BOOLEAN]
      /\ queue' \in [Streams -> Seq(Operation)]
      /\ \A u \in Streams : running'[u] => queue'[u] # << >>
    <2>1. CASE Start(s)
        BY <2>1, <1>1, <1>3 DEF Start, TypeOK, WellTyped
    <2>2. CASE Finish(s)
        <3>1. recorded' \in [Events -> Nat]
            BY <2>2, <1>1, <1>5 DEF Finish, TypeOK
        <3>2. buffer' \in [Scratch \cup {Own} -> Weights \cup {NoWeight, Garbage}]
            BY <2>2, <1>1, <1>5 DEF Finish, TypeOK
        <3>3. running' = [running EXCEPT ![s] = FALSE] /\ queue' = [queue EXCEPT ![s] = Tail(queue[s])]
            BY <2>2, <1>1 DEF Finish, TypeOK
        <3>4. running' \in [Streams -> BOOLEAN] /\ queue' \in [Streams -> Seq(Operation)]
            BY <3>3, <1>1, <1>4 DEF TypeOK
        <3>5. \A u \in Streams : running'[u] => queue'[u] # << >>
            BY <3>3, <1>1 DEF TypeOK, WellTyped
        <3> QED
            BY <3>1, <3>2, <3>4, <3>5
    <2> QED
        BY <2>1, <2>2 DEF Gpu
<1>7. TypeOK'
    BY <1>1, <1>2, <1>6 DEF TypeOK, hostVars, prefetchVars
<1>8. WellTyped'
    BY <1>6, <1>7 DEF WellTyped
<1>9. Ahead' /\ Wanted' = Wanted /\ pending' = pending /\ wanted' = wanted /\ pass' = pass /\ stage' = stage
      /\ layer' = layer
    BY <1>2 DEF HostInv, Ahead, Wanted, Current, Trunk, InAttention, NextLayer, hostVars, prefetchVars
<1> QED
    BY <1>8, <1>9 DEF HostInv

LEMMA NextHostInv == HostInv /\ [Next]_vars => HostInv'
<1> SUFFICES ASSUME HostInv, [Next]_vars PROVE HostInv'
    OBVIOUS
<1>1. CASE Host
    BY <1>1, HostStepInv
<1>2. ASSUME NEW s \in Streams, Gpu(s) PROVE HostInv'
    BY <1>2, GpuStepInv
<1>3. CASE UNCHANGED vars
    BY <1>3 DEF vars, hostVars, prefetchVars, gpuVars, HostInv, WellTyped, TypeOK, HeadOf, Ahead, Wanted,
        Current, Trunk, InAttention, NextLayer
<1> QED
    BY <1>1, <1>2, <1>3 DEF Next, Done

LEMMA HostAlways == Spec => []HostInv
<1> QED
    BY InitHostInv, NextHostInv, PTL DEF Spec

-----------------------------------------------------------------------------
(* The results.                                                            *)

\* The flags of qwen35.cpp, the operations on both streams and the buffers have
\* their types; a stream never runs an operation it does not have.
THEOREM PrefetchTypes == Spec => []TypeOK
<1>1. HostInv => TypeOK
    BY DEF HostInv, WellTyped
<1> QED
    BY <1>1, HostAlways, PTL

\* A prefetch is always for the very next GEMM, whatever layers have attention
\* and however trunk and MTP passes follow each other: pf_pending_ never stays set
\* past a call, which would end all prefetching (qwen35.cpp:187, 229-233).
THEOREM PrefetchAlwaysUsed == Spec => []PrefetchIsUsed
<1>1. HostInv => PrefetchIsUsed
    BY DEF HostInv, PrefetchIsUsed, Wanted
<1> QED
    BY <1>1, HostAlways, PTL

-----------------------------------------------------------------------------
(***************************************************************************)
(* The streams: no GEMM reads a buffer with other weights, however far the *)
(* host is ahead of them.                                                  *)
(*                                                                         *)
(* Prefetches and the GEMMs that use them are numbered from 1 in the order *)
(* the host makes them; the n-th prefetch is for the n-th such GEMM, and   *)
(* goes to buffer Par(n).  An operation in a queue carries no number of    *)
(* its own, so StreamInv asserts that a numbering exists, one that grows   *)
(* behind every record.                                                    *)
(***************************************************************************)

Par(n) == n % 2
Half(n) == n \div 2

\* GEMMs on prefetched weights the host has called, and those that are done.
Hits == issued["free0"] + issued["free1"] - 2
HitsDone == recorded["free0"] + recorded["free1"] - 2

\* Prefetches the host has queued, and those that are done.
Fills == issued["ready"]
FillsDone == recorded["ready"]

Counts ==
    /\ Hits \in Nat /\ HitsDone \in Nat /\ FillsDone <= Fills
    /\ Fills = IF pending THEN Hits + 1 ELSE Hits
    /\ current = Par(Hits)
    /\ issued["free0"] = 1 + Half(Hits) /\ issued["free1"] = 1 + Half(Hits + 1)
    /\ recorded["free0"] = 1 + Half(HitsDone) /\ recorded["free1"] = 1 + Half(HitsDone + 1)

\* num numbers the operations of ops, from first to the one that follows.
Numbers(ops, num, first, last) ==
    /\ num[1] = first /\ num[Len(ops) + 1] = last
    /\ \A p \in 1 .. Len(ops) : num[p + 1] = IF ops[p].op = "record" THEN num[p] + 1 ELSE num[p]

\* An operation of the GEMMs' stream at number n; the n-th prefetch is of W[n].
GemmOp(o, n, W) ==
    /\ o.op = "wait" => o.e = "ready" /\ o.n = n
    /\ o.op = "dequant" => o.b = Own
    /\ o.op = "gemm" /\ o.b # Own => o.w = W[n] /\ o.b = Par(n) /\ n <= Hits
    /\ o.op = "record" => o.e = Free(Par(n)) /\ n <= Hits

\* An operation of the prefetching stream: the wait is for the GEMM that used
\* the buffer last, two prefetches ago.
FillOp(o, n, W) ==
    /\ n <= Fills
    /\ o.op = "wait" => o.e = Free(Par(n)) /\ o.n = 1 + Half(n - 1 + Par(n))
    /\ o.op = "dequant" => o.w = W[n] /\ o.b = Par(n)
    /\ o.op = "record" => o.e = "ready"
    /\ o.op # "gemm"

\* What comes before an operation, in the queue or done already.
GemmNeeds(ops, p, n) ==
    ops[p].op = "gemm" =>
        IF ops[p].b = Own
        THEN IF p = 1 THEN buffer[Own] = ops[p].w
                      ELSE ops[p - 1].op = "dequant" /\ ops[p - 1].w = ops[p].w
        ELSE IF p = 1 THEN n <= FillsDone ELSE ops[p - 1].op = "wait"

FillNeeds(ops, p, n, W) ==
    /\ ops[p].op = "dequant" => IF p = 1 THEN n <= HitsDone + 2 ELSE ops[p - 1].op = "wait"
    /\ ops[p].op = "record" => IF p = 1 THEN buffer[Par(n)] = W[n] ELSE ops[p - 1].op = "dequant"

GemmQueue(ops, num, W) ==
    /\ Numbers(ops, num, HitsDone + 1, Hits + 1)
    /\ \A p \in 1 .. Len(ops) : GemmOp(ops[p], num[p], W) /\ GemmNeeds(ops, p, num[p])

FillQueue(ops, num, W) ==
    /\ Numbers(ops, num, FillsDone + 1, Fills + 1)
    /\ \A p \in 1 .. Len(ops) : FillOp(ops[p], num[p], W) /\ FillNeeds(ops, p, num[p], W)

\* A prefetch that is done and not used yet is still in its buffer.
Filled(W) == \A n \in HitsDone + 1 .. FillsDone : buffer[Par(n)] = W[n]

Waited == \A s \in Streams :
    running[s] /\ HeadOf(s).op = "wait" => recorded[HeadOf(s).e] >= HeadOf(s).n

Sequences == [Nat -> Nat]
WeightsOfFills == [Nat -> Weights \cup {NoWeight}]

StreamInv ==
    /\ Counts /\ Waited
    /\ \E W \in WeightsOfFills, num1, num2 \in Sequences :
          /\ pending => W[Fills] = wanted
          /\ GemmQueue(queue[1], num1, W)
          /\ FillQueue(queue[2], num2, W)
          /\ Filled(W)

-----------------------------------------------------------------------------
(* Numbers and operations                                                  *)

\* Consecutive prefetches go to different buffers.
LEMMA ParHalf ==
    ASSUME NEW n \in Int
    PROVE  /\ Par(n) \in {0, 1} /\ Half(n) \in Int /\ n = 2 * Half(n) + Par(n)
           /\ Par(n + 1) = 1 - Par(n)
           /\ Half(n + 1) = Half(n) + Par(n)
<1>1. /\ Par(n) \in {0, 1} /\ Half(n) \in Int /\ n = 2 * Half(n) + Par(n)
    BY DEF Par, Half
<1>2. Par(n + 1) = 1 - Par(n)
    BY DEF Par
<1>3. Half(n + 1) = Half(n) + Par(n)
    BY DEF Par, Half
<1> QED
    BY <1>1, <1>2, <1>3

\* A buffer used by the first GEMMs often enough is free for prefetch n.
LEMMA TurnComes ==
    ASSUME NEW n \in Nat \ {0}, NEW h \in Nat,
           Half(h + Par(n)) >= Half(n - 1 + Par(n))
    PROVE  h >= n - 2
<1>1. Par(n) \in {0, 1} /\ n = 2 * Half(n) + Par(n) /\ Half(n) \in Int
    BY ParHalf
<1>2. PICK a \in Int : a = h + Par(n)
    BY <1>1
<1>3. PICK c \in Int : c = n - 1 + Par(n)
    BY <1>1
<1>4. /\ a = 2 * Half(a) + Par(a) /\ Half(a) \in Int /\ Par(a) \in {0, 1}
      /\ c = 2 * Half(c) + Par(c) /\ Half(c) \in Int /\ Par(c) \in {0, 1}
    BY ParHalf
<1>5. Half(a) >= Half(c)
    BY <1>2, <1>3
<1>6. CASE Par(n) = 0
    BY <1>1, <1>2, <1>3, <1>4, <1>5, <1>6
<1>7. CASE Par(n) = 1
    BY <1>1, <1>2, <1>3, <1>4, <1>5, <1>7
<1> QED
    BY <1>1, <1>6, <1>7

LEMMA Buffers ==
    /\ Free(0) = "free0" /\ Free(1) = "free1" /\ "free0" # "free1"
    /\ "free0" # "ready" /\ "free1" # "ready"
    /\ Events = {"free0", "free1", "ready"} /\ Scratch = {0, 1} /\ Own = 2
BY DEF Free, Events, Scratch, Own

LEMMA Fields ==
    /\ \A w, b : /\ Dequant(w, b).op = "dequant" /\ Dequant(w, b).w = w /\ Dequant(w, b).b = b
                 /\ Gemm(w, b).op = "gemm" /\ Gemm(w, b).w = w /\ Gemm(w, b).b = b
    /\ \A e : Record(e).op = "record" /\ Record(e).e = e
    /\ \A e, n : Wait(e, n).op = "wait" /\ Wait(e, n).e = e /\ Wait(e, n).n = n
BY DEF Dequant, Gemm, Record, Wait

\* Operations behind the others.
LEMMA Concat ==
    ASSUME NEW ops \in Seq(Operation), NEW y \in Seq(Operation)
    PROVE  /\ Len(ops \o y) = Len(ops) + Len(y) /\ Len(ops) \in Nat
           /\ \A p \in 1 .. Len(ops) : (ops \o y)[p] = ops[p]
           /\ \A i \in 1 .. Len(y) : (ops \o y)[Len(ops) + i] = y[i]
<1>1. /\ Len(ops \o y) = Len(ops) + Len(y) /\ Len(y) \in Nat /\ Len(ops) \in Nat
      /\ \A p \in 1 .. Len(ops) + Len(y) : (ops \o y)[p] = IF p <= Len(ops) THEN ops[p] ELSE y[p - Len(ops)]
    BY ConcatProperties, LenProperties
<1>2. \A i \in 1 .. Len(y) : Len(ops) + i \in 1 .. Len(ops) + Len(y) /\ ~(Len(ops) + i <= Len(ops))
                                /\ (Len(ops) + i) - Len(ops) = i
    BY <1>1
<1> QED
    BY <1>1, <1>2

LEMMA TwoBehind ==
    ASSUME NEW ops \in Seq(Operation), NEW a \in Operation, NEW b \in Operation
    PROVE  LET x == ops \o <<a, b>>
           IN  /\ Len(x) = Len(ops) + 2
               /\ \A p \in 1 .. Len(ops) : x[p] = ops[p]
               /\ x[Len(ops) + 1] = a /\ x[Len(ops) + 2] = b
<1> DEFINE y == <<a, b>>
<1>1. y \in Seq(Operation) /\ Len(y) = 2 /\ y[1] = a /\ y[2] = b
    OBVIOUS
<1> HIDE DEF y
<1>2. 1 \in 1 .. 2 /\ 2 \in 1 .. 2
    OBVIOUS
<1>3. /\ Len(ops \o y) = Len(ops) + Len(y)
      /\ \A p \in 1 .. Len(ops) : (ops \o y)[p] = ops[p]
      /\ \A i \in 1 .. Len(y) : (ops \o y)[Len(ops) + i] = y[i]
    BY <1>1, Concat, Zenon
<1>4. (ops \o y)[Len(ops) + 1] = a /\ (ops \o y)[Len(ops) + 2] = b
    BY <1>1, <1>2, <1>3
<1> QED
    BY <1>1, <1>3, <1>4, Zenon DEF y

LEMMA ThreeBehind ==
    ASSUME NEW ops \in Seq(Operation), NEW a \in Operation, NEW b \in Operation, NEW c \in Operation
    PROVE  LET x == ops \o <<a, b, c>>
           IN  /\ Len(x) = Len(ops) + 3
               /\ \A p \in 1 .. Len(ops) : x[p] = ops[p]
               /\ x[Len(ops) + 1] = a /\ x[Len(ops) + 2] = b /\ x[Len(ops) + 3] = c
<1> DEFINE y == <<a, b, c>>
<1>1. y \in Seq(Operation) /\ Len(y) = 3 /\ y[1] = a /\ y[2] = b /\ y[3] = c
    OBVIOUS
<1> HIDE DEF y
<1>2. 1 \in 1 .. 3 /\ 2 \in 1 .. 3 /\ 3 \in 1 .. 3
    OBVIOUS
<1>3. /\ Len(ops \o y) = Len(ops) + Len(y)
      /\ \A p \in 1 .. Len(ops) : (ops \o y)[p] = ops[p]
      /\ \A i \in 1 .. Len(y) : (ops \o y)[Len(ops) + i] = y[i]
    BY <1>1, Concat, Zenon
<1>4. (ops \o y)[Len(ops) + 1] = a /\ (ops \o y)[Len(ops) + 2] = b /\ (ops \o y)[Len(ops) + 3] = c
    BY <1>1, <1>2, <1>3
<1> QED
    BY <1>1, <1>3, <1>4, Zenon DEF y

-----------------------------------------------------------------------------
(* Calls of the host                                                       *)

\* A prefetch goes behind those that are queued.
LEMMA FillQueued ==
    ASSUME NEW ops \in Seq(Operation), NEW num \in Sequences, NEW W \in WeightsOfFills,
           NEW nw \in Weights, NEW m \in Nat, Fills \in Nat, FillsDone \in Nat,
           FillQueue(ops, num, W),
           Fills' = Fills + 1, recorded' = recorded, buffer' = buffer, FillsDone <= Fills,
           NEW n \in Nat \ {0}, n = Fills + 1, m = 1 + Half(n - 1 + Par(n))
    PROVE  \E num2 \in Sequences :
             FillQueue(ops \o <<Wait(Free(Par(n)), m), Dequant(nw, Par(n)), Record("ready")>>,
                       num2, [W EXCEPT ![n] = nw])'
<1>1. n \in Nat /\ n - 1 = Fills /\ n = Fills + 1
    OBVIOUS
<1>2. Par(n) \in {0, 1}
    BY <1>1, ParHalf
<1>3. PICK a \in Operation, b \in Operation, c \in Operation :
           a = Wait(Free(Par(n)), m) /\ b = Dequant(nw, Par(n)) /\ c = Record("ready")
    <2>1. Free(Par(n)) \in Events /\ "ready" \in Events /\ Par(n) \in Scratch \cup {Own}
        BY <1>2, Buffers
    <2> QED
        BY <2>1 DEF Operation, Wait, Dequant, Record
<1>4. /\ a.op = "wait" /\ a.e = Free(Par(n)) /\ a.n = m
      /\ b.op = "dequant" /\ b.w = nw /\ b.b = Par(n)
      /\ c.op = "record" /\ c.e = "ready"
    BY <1>3, Fields
<1>5. PICK V : V = [W EXCEPT ![n] = nw] /\ V[n] = nw /\ \A i \in Nat : i # n => V[i] = W[i]
    <2> DEFINE v == [W EXCEPT ![n] = nw]
    <2>1. v[n] = nw /\ \A i \in Nat : i # n => v[i] = W[i]
        BY <1>1 DEF WeightsOfFills
    <2> QED
        BY <2>1
<1>6. PICK x : x = ops \o <<a, b, c>>
    OBVIOUS
<1>7. /\ Len(x) = Len(ops) + 3
      /\ \A p \in 1 .. Len(ops) : x[p] = ops[p]
      /\ x[Len(ops) + 1] = a /\ x[Len(ops) + 2] = b /\ x[Len(ops) + 3] = c
    BY <1>6, ThreeBehind
<1>8. PICK L \in Nat : L = Len(ops)
    BY LenProperties
<1> DEFINE num2 == [p \in Nat |-> IF p <= L + 1 THEN num[p] ELSE IF p <= L + 3 THEN n ELSE n + 1]
<1>9. /\ num2 \in Sequences
      /\ \A p \in 1 .. L + 1 : num2[p] = num[p]
      /\ num2[L + 2] = n /\ num2[L + 3] = n /\ num2[L + 4] = n + 1
    <2>1. \A p \in Nat : num[p] \in Nat
        BY DEF Sequences
    <2>2. num2 \in Sequences
        <3>1. n + 1 \in Nat
            OBVIOUS
        <3>2. \A p \in Nat : (IF p <= L + 1 THEN num[p] ELSE IF p <= L + 3 THEN n ELSE n + 1) \in Nat
            BY <2>1, <3>1, Zenon
        <3> QED
            BY <3>2, Zenon DEF Sequences
    <2>3. \A p \in 1 .. L + 1 : num2[p] = num[p]
        BY <1>8
    <2>4. num2[L + 2] = n /\ num2[L + 3] = n
        BY <1>8
    <2>5. num2[L + 4] = n + 1
        BY <1>8
    <2> QED
        BY <2>2, <2>3, <2>4, <2>5
<1> HIDE DEF num2
<1>10. num[1] = FillsDone + 1 /\ num[L + 1] = n
      /\ \A p \in 1 .. L : num[p + 1] = IF ops[p].op = "record" THEN num[p] + 1 ELSE num[p]
    BY <1>1, <1>8 DEF FillQueue, Numbers
<1>11. Numbers(x, num2, FillsDone + 1, n + 1)
    <2>1. num2[1] = FillsDone + 1 /\ num2[Len(x) + 1] = n + 1
        BY <1>7, <1>8, <1>9, <1>10
    <2>2. ASSUME NEW p \in 1 .. L + 3
          PROVE  num2[p + 1] = IF x[p].op = "record" THEN num2[p] + 1 ELSE num2[p]
        <3>1. CASE p \in 1 .. L
            <4>1. num2[p + 1] = num[p + 1] /\ num2[p] = num[p] /\ x[p] = ops[p]
                BY <1>7, <1>8, <1>9, <3>1
            <4> QED
                BY <1>10, <3>1, <4>1
        <3>2. CASE p = L + 1
            <4>1. x[p] = a /\ num2[p] = n /\ p + 1 = L + 2
                BY <1>7, <1>8, <1>9, <1>10, <3>2
            <4> QED
                BY <1>4, <1>9, <4>1
        <3>3. CASE p = L + 2
            <4>1. x[p] = b /\ num2[p] = n /\ p + 1 = L + 3
                BY <1>7, <1>8, <1>9, <3>3
            <4> QED
                BY <1>4, <1>9, <4>1
        <3>4. CASE p = L + 3
            <4>1. x[p] = c /\ num2[p] = n /\ p + 1 = L + 4
                BY <1>7, <1>8, <1>9, <3>4
            <4> QED
                BY <1>4, <1>9, <4>1
        <3> QED
            BY <3>1, <3>2, <3>3, <3>4
    <2> QED
        BY <1>7, <1>8, <2>1, <2>2 DEF Numbers
<1>12. ASSUME NEW p \in 1 .. L
       PROVE  FillOp(ops[p], num[p], W) /\ FillNeeds(ops, p, num[p], W) /\ num[p] \in Nat
    BY <1>8 DEF FillQueue, Sequences
<1>13. ASSUME NEW p \in 1 .. L + 3
       PROVE  FillOp(x[p], num2[p], V)' /\ FillNeeds(x, p, num2[p], V)'
    <2>1. CASE p \in 1 .. L
        <3>1. x[p] = ops[p] /\ num2[p] = num[p] /\ num[p] \in Nat /\ num[p] <= Fills
            <4>1. x[p] = ops[p]
                BY <1>7, <1>8, <2>1
            <4>2. num2[p] = num[p]
                <5>1. p \in 1 .. L + 1
                    BY <2>1
                <5> QED
                    BY <1>9, <5>1
            <4>3. num[p] \in Nat /\ num[p] <= Fills
                BY <1>12, <2>1 DEF FillOp
            <4> QED
                BY <4>1, <4>2, <4>3
        <3>2. V[num[p]] = W[num[p]] /\ num[p] <= Fills'
            BY <1>1, <1>5, <3>1
        <3>3. FillOp(x[p], num2[p], V)'
            BY <1>12, <2>1, <3>1, <3>2 DEF FillOp
        <3>4. p # 1 => p - 1 \in 1 .. L /\ x[p - 1] = ops[p - 1]
            BY <1>7, <1>8, <2>1
        <3>5. HitsDone' = HitsDone
            BY DEF HitsDone
        <3>6. FillNeeds(x, p, num2[p], V)'
            BY <1>12, <2>1, <3>1, <3>2, <3>4, <3>5 DEF FillNeeds
        <3> QED
            BY <3>3, <3>6
    <2>2. CASE p = L + 1
        <3>1. x[p] = a /\ num2[p] = n
            <4>1. num2[L + 1] = num[L + 1]
                BY <1>9
            <4> QED
                BY <1>7, <1>8, <1>10, <2>2, <4>1
        <3> QED
            BY <1>1, <1>4, <3>1 DEF FillOp, FillNeeds
    <2>3. CASE p = L + 2
        <3>1. x[p] = b /\ num2[p] = n /\ p # 1 /\ x[p - 1] = a
            BY <1>7, <1>8, <1>9, <2>3
        <3> QED
            BY <1>1, <1>4, <1>5, <3>1 DEF FillOp, FillNeeds
    <2>4. CASE p = L + 3
        <3>1. x[p] = c /\ num2[p] = n /\ p # 1 /\ x[p - 1] = b
            BY <1>7, <1>8, <1>9, <2>4
        <3> QED
            BY <1>1, <1>4, <1>5, <3>1 DEF FillOp, FillNeeds
    <2> QED
        BY <2>1, <2>2, <2>3, <2>4
<1>14. FillQueue(x, num2, V)'
    <2>1. n + 1 = Fills' + 1 /\ FillsDone' = FillsDone
        BY <1>1 DEF FillsDone
    <2>2. Numbers(x, num2, FillsDone' + 1, Fills' + 1)
        BY <1>11, <2>1
    <2>3. Len(x) = L + 3
        BY <1>7, <1>8
    <2> QED
        BY <1>13, <2>2, <2>3 DEF FillQueue, Numbers
<1> QED
    <2>1. num2 \in Sequences /\ FillQueue(x, num2, V)'
        BY <1>9, <1>14
    <2> QED
        BY <1>1, <1>3, <1>5, <1>6, <2>1

\* A GEMM on prefetched weights goes behind those that are queued.
LEMMA GemmQueued ==
    ASSUME NEW ops \in Seq(Operation), NEW num \in Sequences, NEW W \in WeightsOfFills, NEW V,
           NEW w \in Weights, NEW n \in Nat \ {0}, n = Hits + 1, Hits' = n, W[n] = w,
           HitsDone \in Nat, Hits \in Nat, FillsDone \in Nat,
           \A i \in 0 .. n : V[i] = W[i],
           GemmQueue(ops, num, W), recorded' = recorded, buffer' = buffer
    PROVE  \E num2 \in Sequences :
             GemmQueue(ops \o <<Wait("ready", n), Gemm(w, Par(n)), Record(Free(Par(n)))>>, num2, V)'
<1>1. Par(n) \in {0, 1} /\ Par(n) # Own
    <2>1. Par(n) \in {0, 1}
        BY ParHalf
    <2> QED
        BY <2>1 DEF Own
<1>2. PICK a \in Operation, b \in Operation, c \in Operation :
           a = Wait("ready", n) /\ b = Gemm(w, Par(n)) /\ c = Record(Free(Par(n)))
    <2>1. Free(Par(n)) \in Events /\ "ready" \in Events /\ Par(n) \in Scratch \cup {Own}
        BY <1>1, Buffers
    <2> QED
        BY <2>1 DEF Operation, Wait, Gemm, Record
<1>3. /\ a.op = "wait" /\ a.e = "ready" /\ a.n = n
      /\ b.op = "gemm" /\ b.w = w /\ b.b = Par(n)
      /\ c.op = "record" /\ c.e = Free(Par(n))
    BY <1>2, Fields
<1>4. PICK x : x = ops \o <<a, b, c>>
    OBVIOUS
<1>5. /\ Len(x) = Len(ops) + 3
      /\ \A p \in 1 .. Len(ops) : x[p] = ops[p]
      /\ x[Len(ops) + 1] = a /\ x[Len(ops) + 2] = b /\ x[Len(ops) + 3] = c
    BY <1>4, ThreeBehind
<1>6. PICK L \in Nat : L = Len(ops)
    BY LenProperties
<1> DEFINE num2 == [p \in Nat |-> IF p <= L + 1 THEN num[p] ELSE IF p <= L + 3 THEN n ELSE n + 1]
<1>7. /\ num2 \in Sequences
      /\ \A p \in 1 .. L + 1 : num2[p] = num[p]
      /\ num2[L + 2] = n /\ num2[L + 3] = n /\ num2[L + 4] = n + 1
    <2>1. \A p \in Nat : num[p] \in Nat
        BY DEF Sequences
    <2>2. num2 \in Sequences
        <3>1. n \in Nat /\ n + 1 \in Nat
            OBVIOUS
        <3>2. \A p \in Nat : (IF p <= L + 1 THEN num[p] ELSE IF p <= L + 3 THEN n ELSE n + 1) \in Nat
            BY <2>1, <3>1, Zenon
        <3> QED
            BY <3>2, Zenon DEF Sequences
    <2>3. \A p \in 1 .. L + 1 : num2[p] = num[p]
        BY <1>6
    <2>4. num2[L + 2] = n /\ num2[L + 3] = n
        BY <1>6
    <2>5. num2[L + 4] = n + 1
        BY <1>6
    <2> QED
        BY <2>2, <2>3, <2>4, <2>5
<1> HIDE DEF num2
<1>8. num[1] = HitsDone + 1 /\ num[L + 1] = n
      /\ \A p \in 1 .. L : num[p + 1] = IF ops[p].op = "record" THEN num[p] + 1 ELSE num[p]
    BY <1>6 DEF GemmQueue, Numbers
<1>9. Numbers(x, num2, HitsDone + 1, n + 1)
    <2>1. num2[1] = HitsDone + 1 /\ num2[Len(x) + 1] = n + 1
        BY <1>5, <1>6, <1>7, <1>8
    <2>2. ASSUME NEW p \in 1 .. L + 3
          PROVE  num2[p + 1] = IF x[p].op = "record" THEN num2[p] + 1 ELSE num2[p]
        <3>1. CASE p \in 1 .. L
            <4>1. num2[p + 1] = num[p + 1] /\ num2[p] = num[p] /\ x[p] = ops[p]
                BY <1>5, <1>6, <1>7, <3>1
            <4> QED
                BY <1>8, <3>1, <4>1
        <3>2. CASE p = L + 1
            <4>1. x[p] = a /\ num2[p] = n /\ p + 1 = L + 2
                BY <1>5, <1>6, <1>7, <1>8, <3>2
            <4> QED
                BY <1>3, <1>7, <4>1
        <3>3. CASE p = L + 2
            <4>1. x[p] = b /\ num2[p] = n /\ p + 1 = L + 3
                BY <1>5, <1>6, <1>7, <3>3
            <4> QED
                BY <1>3, <1>7, <4>1
        <3>4. CASE p = L + 3
            <4>1. x[p] = c /\ num2[p] = n /\ p + 1 = L + 4
                BY <1>5, <1>6, <1>7, <3>4
            <4> QED
                BY <1>3, <1>7, <4>1
        <3> QED
            BY <3>1, <3>2, <3>3, <3>4
    <2> QED
        BY <1>5, <1>6, <2>1, <2>2 DEF Numbers
<1>10. ASSUME NEW p \in 1 .. L
       PROVE  GemmOp(ops[p], num[p], W) /\ GemmNeeds(ops, p, num[p]) /\ num[p] \in Nat
    BY <1>6 DEF GemmQueue, Sequences
<1>11. HitsDone' = HitsDone /\ FillsDone' = FillsDone
    BY DEF HitsDone, FillsDone
<1>12. ASSUME NEW p \in 1 .. L + 3
       PROVE  GemmOp(x[p], num2[p], V)' /\ GemmNeeds(x, p, num2[p])'
    <2>1. CASE p \in 1 .. L
        <3>1. x[p] = ops[p] /\ num2[p] = num[p] /\ num[p] \in Nat
            BY <1>5, <1>6, <1>7, <1>10, <2>1
        <3>2. num[p] <= Hits => V[num[p]] = W[num[p]] /\ num[p] <= Hits'
            BY <3>1
        <3>3. GemmOp(x[p], num2[p], V)'
            BY <1>10, <2>1, <3>1, <3>2 DEF GemmOp
        <3>4. p # 1 => p - 1 \in 1 .. L /\ x[p - 1] = ops[p - 1]
            BY <1>5, <1>6, <2>1
        <3>5. GemmNeeds(x, p, num2[p])'
            BY <1>10, <1>11, <2>1, <3>1, <3>4 DEF GemmNeeds
        <3> QED
            BY <3>3, <3>5
    <2>2. CASE p = L + 1
        <3>1. x[p] = a /\ num2[p] = n
            <4>1. num2[L + 1] = num[L + 1]
                BY <1>7
            <4> QED
                BY <1>5, <1>6, <1>8, <2>2, <4>1
        <3> QED
            BY <1>3, <3>1 DEF GemmOp, GemmNeeds
    <2>3. CASE p = L + 2
        <3>1. x[p] = b /\ num2[p] = n /\ p # 1 /\ x[p - 1] = a
            BY <1>5, <1>6, <1>7, <2>3
        <3>2. V[n] = w /\ n <= Hits'
            OBVIOUS
        <3> QED
            BY <1>1, <1>3, <3>1, <3>2 DEF GemmOp, GemmNeeds
    <2>4. CASE p = L + 3
        <3>1. x[p] = c /\ num2[p] = n /\ n <= Hits'
            BY <1>5, <1>6, <1>7, <2>4
        <3> QED
            BY <1>3, <3>1 DEF GemmOp, GemmNeeds
    <2> QED
        BY <2>1, <2>2, <2>3, <2>4
<1>13. GemmQueue(x, num2, V)'
    <2>1. Numbers(x, num2, HitsDone' + 1, Hits' + 1)
        BY <1>9, <1>11
    <2>2. Len(x) = L + 3
        BY <1>5, <1>6
    <2> QED
        BY <1>12, <2>1, <2>2 DEF GemmQueue, Numbers
<1> QED
    <2>1. num2 \in Sequences /\ GemmQueue(x, num2, V)'
        BY <1>7, <1>13
    <2> QED
        BY <1>2, <1>4, <2>1

\* So does one on weights it dequantises itself.
LEMMA OwnGemmQueued ==
    ASSUME NEW ops \in Seq(Operation), NEW num \in Sequences, NEW W \in WeightsOfFills, NEW V,
           NEW w \in Weights, NEW n \in Nat \ {0}, n = Hits + 1, Hits' = Hits,
           HitsDone \in Nat, Hits \in Nat, FillsDone \in Nat,
           \A i \in 0 .. Hits : V[i] = W[i],
           GemmQueue(ops, num, W), recorded' = recorded, buffer' = buffer
    PROVE  \E num2 \in Sequences : GemmQueue(ops \o <<Dequant(w, Own), Gemm(w, Own)>>, num2, V)'
<1>2. PICK a \in Operation, b \in Operation : a = Dequant(w, Own) /\ b = Gemm(w, Own)
    BY Buffers DEF Operation, Dequant, Gemm
<1>3. /\ a.op = "dequant" /\ a.w = w /\ a.b = Own
      /\ b.op = "gemm" /\ b.w = w /\ b.b = Own
    BY <1>2, Fields
<1>4. PICK x : x = ops \o <<a, b>>
    OBVIOUS
<1>5. /\ Len(x) = Len(ops) + 2
      /\ \A p \in 1 .. Len(ops) : x[p] = ops[p]
      /\ x[Len(ops) + 1] = a /\ x[Len(ops) + 2] = b
    BY <1>4, TwoBehind
<1>6. PICK L \in Nat : L = Len(ops)
    BY LenProperties
<1> DEFINE num2 == [p \in Nat |-> IF p <= L + 1 THEN num[p] ELSE n]
<1>7. /\ num2 \in Sequences
      /\ \A p \in 1 .. L + 1 : num2[p] = num[p]
      /\ num2[L + 2] = n /\ num2[L + 3] = n
    <2>1. \A p \in Nat : num[p] \in Nat
        BY DEF Sequences
    <2>2. num2 \in Sequences
        <3>1. n \in Nat
            OBVIOUS
        <3>2. \A p \in Nat : (IF p <= L + 1 THEN num[p] ELSE n) \in Nat
            BY <2>1, <3>1, Zenon
        <3> QED
            BY <3>2, Zenon DEF Sequences
    <2>3. \A p \in 1 .. L + 1 : num2[p] = num[p]
        BY <1>6
    <2>4. num2[L + 2] = n /\ num2[L + 3] = n
        BY <1>6
    <2> QED
        BY <2>2, <2>3, <2>4
<1> HIDE DEF num2
<1>8. num[1] = HitsDone + 1 /\ num[L + 1] = n
      /\ \A p \in 1 .. L : num[p + 1] = IF ops[p].op = "record" THEN num[p] + 1 ELSE num[p]
    BY <1>6 DEF GemmQueue, Numbers
<1>9. Numbers(x, num2, HitsDone + 1, n)
    <2>1. num2[1] = HitsDone + 1 /\ num2[Len(x) + 1] = n
        BY <1>5, <1>6, <1>7, <1>8
    <2>2. ASSUME NEW p \in 1 .. L + 2
          PROVE  num2[p + 1] = IF x[p].op = "record" THEN num2[p] + 1 ELSE num2[p]
        <3>1. CASE p \in 1 .. L
            <4>1. num2[p + 1] = num[p + 1] /\ num2[p] = num[p] /\ x[p] = ops[p]
                BY <1>5, <1>6, <1>7, <3>1
            <4> QED
                BY <1>8, <3>1, <4>1
        <3>2. CASE p = L + 1
            <4>1. x[p] = a /\ num2[p] = n /\ p + 1 = L + 2
                BY <1>5, <1>6, <1>7, <1>8, <3>2
            <4> QED
                BY <1>3, <1>7, <4>1
        <3>3. CASE p = L + 2
            <4>1. x[p] = b /\ num2[p] = n /\ p + 1 = L + 3
                BY <1>5, <1>6, <1>7, <3>3
            <4> QED
                BY <1>3, <1>7, <4>1
        <3> QED
            BY <3>1, <3>2, <3>3
    <2> QED
        BY <1>5, <1>6, <2>1, <2>2 DEF Numbers
<1>10. ASSUME NEW p \in 1 .. L
       PROVE  GemmOp(ops[p], num[p], W) /\ GemmNeeds(ops, p, num[p]) /\ num[p] \in Nat
    BY <1>6 DEF GemmQueue, Sequences
<1>11. HitsDone' = HitsDone /\ FillsDone' = FillsDone
    BY DEF HitsDone, FillsDone
<1>12. ASSUME NEW p \in 1 .. L + 2
       PROVE  GemmOp(x[p], num2[p], V)' /\ GemmNeeds(x, p, num2[p])'
    <2>1. CASE p \in 1 .. L
        <3>1. x[p] = ops[p] /\ num2[p] = num[p] /\ num[p] \in Nat
            BY <1>5, <1>6, <1>7, <1>10, <2>1
        <3>2. num[p] <= Hits => V[num[p]] = W[num[p]] /\ num[p] <= Hits'
            BY <3>1
        <3>3. GemmOp(x[p], num2[p], V)'
            BY <1>10, <2>1, <3>1, <3>2 DEF GemmOp
        <3>4. p # 1 => p - 1 \in 1 .. L /\ x[p - 1] = ops[p - 1]
            BY <1>5, <1>6, <2>1
        <3>5. GemmNeeds(x, p, num2[p])'
            BY <1>10, <1>11, <2>1, <3>1, <3>4 DEF GemmNeeds
        <3> QED
            BY <3>3, <3>5
    <2>2. CASE p = L + 1
        <3>1. x[p] = a /\ num2[p] = n
            <4>1. num2[L + 1] = num[L + 1]
                BY <1>7
            <4> QED
                BY <1>5, <1>6, <1>8, <2>2, <4>1
        <3> QED
            BY <1>3, <3>1 DEF GemmOp, GemmNeeds
    <2>3. CASE p = L + 2
        <3>1. x[p] = b /\ num2[p] = n /\ p # 1 /\ x[p - 1] = a
            BY <1>5, <1>6, <1>7, <2>3
        <3> QED
            BY <1>3, <3>1 DEF GemmOp, GemmNeeds
    <2> QED
        BY <2>1, <2>2, <2>3
<1>13. GemmQueue(x, num2, V)'
    <2>1. Numbers(x, num2, HitsDone' + 1, Hits' + 1)
        BY <1>9, <1>11
    <2>2. Len(x) = L + 2
        BY <1>5, <1>6
    <2> QED
        BY <1>12, <2>1, <2>2 DEF GemmQueue, Numbers
<1> QED
    <2>1. num2 \in Sequences /\ GemmQueue(x, num2, V)'
        BY <1>7, <1>13
    <2> QED
        BY <1>2, <1>4, <2>1

-----------------------------------------------------------------------------
(* Steps of the streams                                                    *)

\* The first operation of a queue is done, the others move up.
LEMMA MoveUp ==
    ASSUME NEW ops \in Seq(Operation), ops # << >>, NEW num \in Sequences,
           NEW first \in Nat, NEW last, Numbers(ops, num, first, last),
           NEW second, second = IF ops[1].op = "record" THEN first + 1 ELSE first
    PROVE  \E rest \in Seq(Operation), num2 \in Sequences :
             /\ rest = Tail(ops) /\ Len(ops) = Len(rest) + 1 /\ Len(rest) \in Nat
             /\ num[1] = first
             /\ \A p \in 1 .. Len(rest) : rest[p] = ops[p + 1] /\ num2[p] = num[p + 1] /\ p + 1 \in 1 .. Len(ops)
             /\ Len(rest) > 0 => num2[1] = second
             /\ Numbers(rest, num2, second, last)
<1>1. PICK L \in Nat : L = Len(ops) /\ L > 0
    <2>1. Len(ops) \in Nat /\ Len(ops) # 0
        BY EmptySeq, LenProperties
    <2> QED
        BY <2>1
<1>2. PICK rest : rest = Tail(ops)
    OBVIOUS
<1>3. rest \in Seq(Operation) /\ Len(rest) = L - 1 /\ \A p \in 1 .. L - 1 : rest[p] = ops[p + 1]
    <2>1. /\ Tail(ops) \in Seq(Operation) /\ Len(Tail(ops)) = Len(ops) - 1
          /\ \A p \in 1 .. Len(Tail(ops)) : Tail(ops)[p] = ops[p + 1]
        BY HeadTailProperties
    <2> QED
        BY <1>1, <1>2, <2>1
<1> DEFINE num2 == [p \in Nat |-> num[p + 1]]
<1>4. num2 \in Sequences /\ \A p \in Nat : num2[p] = num[p + 1]
    <2>1. \A p \in Nat : num[p] \in Nat
        BY DEF Sequences
    <2>2. \A p \in Nat : p + 1 \in Nat
        OBVIOUS
    <2>3. \A p \in Nat : num[p + 1] \in Nat
        BY <2>1, <2>2, Zenon
    <2> QED
        BY <2>3, Zenon DEF Sequences
<1> HIDE DEF num2
<1>5. /\ num[1] = first /\ num[L + 1] = last
      /\ \A p \in 1 .. L : num[p + 1] = IF ops[p].op = "record" THEN num[p] + 1 ELSE num[p]
    BY <1>1 DEF Numbers
<1>6. num2[1] = second
    <2>1. 1 \in 1 .. L /\ num2[1] = num[1 + 1]
        BY <1>1, <1>4
    <2>2. num[1 + 1] = IF ops[1].op = "record" THEN num[1] + 1 ELSE num[1]
        BY <1>5, <2>1
    <2> QED
        BY <1>5, <2>1, <2>2
<1>7. Numbers(rest, num2, second, last)
    <2>1. num2[Len(rest) + 1] = last
        <3>1. Len(rest) + 1 \in Nat /\ (Len(rest) + 1) + 1 = L + 1
            BY <1>1, <1>3
        <3> QED
            BY <1>4, <1>5, <3>1
    <2>2. ASSUME NEW p \in 1 .. Len(rest)
          PROVE  num2[p + 1] = IF rest[p].op = "record" THEN num2[p] + 1 ELSE num2[p]
        <3>1. p + 1 \in 1 .. L /\ p \in 1 .. L - 1 /\ p \in Nat /\ p + 1 \in Nat
            BY <1>1, <1>3
        <3>2. num[(p + 1) + 1] = IF ops[p + 1].op = "record" THEN num[p + 1] + 1 ELSE num[p + 1]
            BY <1>5, <3>1
        <3>3. num2[p + 1] = num[(p + 1) + 1] /\ num2[p] = num[p + 1] /\ rest[p] = ops[p + 1]
            BY <1>3, <1>4, <3>1
        <3> QED
            BY <3>2, <3>3
    <2> QED
        BY <1>6, <2>1, <2>2 DEF Numbers
<1>8. \A p \in 1 .. Len(rest) : rest[p] = ops[p + 1] /\ num2[p] = num[p + 1] /\ p + 1 \in 1 .. Len(ops)
    <2> SUFFICES ASSUME NEW p \in 1 .. Len(rest)
                 PROVE  rest[p] = ops[p + 1] /\ num2[p] = num[p + 1] /\ p + 1 \in 1 .. Len(ops)
        OBVIOUS
    <2>1. p \in 1 .. L - 1 /\ p \in Nat /\ p + 1 \in 1 .. L
        BY <1>1, <1>3
    <2> QED
        BY <1>1, <1>3, <1>4, <2>1
<1>9. Len(ops) = Len(rest) + 1 /\ Len(rest) \in Nat
    BY <1>1, <1>3
<1> QED
    BY <1>2, <1>3, <1>4, <1>5, <1>6, <1>7, <1>8, <1>9

\* The GEMMs' stream has done its first operation.
LEMMA GemmDone ==
    ASSUME NEW ops \in Seq(Operation), ops # << >>, NEW num \in Sequences, NEW W,
           HitsDone \in Nat, FillsDone \in Nat,
           GemmQueue(ops, num, W),
           issued' = issued, FillsDone' = FillsDone,
           HitsDone' = IF ops[1].op = "record" THEN HitsDone + 1 ELSE HitsDone,
           ops[1].op = "wait" => FillsDone >= ops[1].n,
           ops[1].op = "dequant" => buffer'[Own] = ops[1].w
    PROVE  \E num2 \in Sequences : GemmQueue(Tail(ops), num2, W)'
<1>1. HitsDone + 1 \in Nat /\ Numbers(ops, num, HitsDone + 1, Hits + 1)
    BY DEF GemmQueue
<1>2. PICK rest \in Seq(Operation), num2 \in Sequences :
             /\ rest = Tail(ops) /\ Len(ops) = Len(rest) + 1 /\ Len(rest) \in Nat
             /\ num[1] = HitsDone + 1
             /\ \A p \in 1 .. Len(rest) : rest[p] = ops[p + 1] /\ num2[p] = num[p + 1] /\ p + 1 \in 1 .. Len(ops)
             /\ Len(rest) > 0 => num2[1] = IF ops[1].op = "record" THEN HitsDone + 1 + 1 ELSE HitsDone + 1
             /\ Numbers(rest, num2, IF ops[1].op = "record" THEN HitsDone + 1 + 1 ELSE HitsDone + 1, Hits + 1)
    <2>1. PICK first, second, last :
              /\ first \in Nat /\ first = HitsDone + 1 /\ last = Hits + 1
              /\ second = IF ops[1].op = "record" THEN HitsDone + 1 + 1 ELSE HitsDone + 1
        BY <1>1, Zenon
    <2>2. Numbers(ops, num, first, last) /\ second = IF ops[1].op = "record" THEN first + 1 ELSE first
        BY <1>1, <2>1, Zenon
    <2>3. \E rest \in Seq(Operation), num2 \in Sequences :
             /\ rest = Tail(ops) /\ Len(ops) = Len(rest) + 1 /\ Len(rest) \in Nat
             /\ num[1] = first
             /\ \A p \in 1 .. Len(rest) : rest[p] = ops[p + 1] /\ num2[p] = num[p + 1] /\ p + 1 \in 1 .. Len(ops)
             /\ Len(rest) > 0 => num2[1] = second
             /\ Numbers(rest, num2, second, last)
        BY <2>1, <2>2, MoveUp
    <2> QED
        BY <2>1, <2>3, Zenon
<1>3. Numbers(rest, num2, HitsDone' + 1, Hits' + 1)
    <2>1. HitsDone' + 1 = IF ops[1].op = "record" THEN HitsDone + 1 + 1 ELSE HitsDone + 1
        <3>1. CASE ops[1].op = "record"
            BY <3>1, Zenon
        <3>2. CASE ops[1].op # "record"
            BY <3>2, Zenon
        <3> QED
            BY <3>1, <3>2, Zenon
    <2>2. Hits' = Hits
        BY DEF Hits
    <2> QED
        BY <1>2, <2>1, <2>2
<1>4. ASSUME NEW p \in 1 .. Len(rest)
      PROVE  GemmOp(rest[p], num2[p], W)' /\ GemmNeeds(rest, p, num2[p])'
    <2>1. rest[p] = ops[p + 1] /\ num2[p] = num[p + 1] /\ p + 1 \in 1 .. Len(ops) /\ p + 1 # 1 /\ (p + 1) - 1 = p
        BY <1>2
    <2>2. GemmOp(ops[p + 1], num[p + 1], W) /\ GemmNeeds(ops, p + 1, num[p + 1])
        BY <2>1 DEF GemmQueue
    <2>3. GemmOp(rest[p], num2[p], W)'
        BY <2>1, <2>2 DEF GemmOp, Hits
    <2>4. CASE p = 1
        <3>1. 1 \in 1 .. Len(ops) /\ GemmOp(ops[1], num[1], W)
            BY <1>2 DEF GemmQueue
        <3>2. ASSUME rest[p].op = "gemm", rest[p].b = Own
              PROVE  buffer'[Own] = rest[p].w
            BY <2>1, <2>2, <2>4, <3>2 DEF GemmNeeds
        <3>3. ASSUME rest[p].op = "gemm", rest[p].b # Own
              PROVE  num2[p] <= FillsDone'
            <4>1. ops[1].op = "wait"
                BY <2>1, <2>2, <2>4, <3>3 DEF GemmNeeds
            <4>2. ops[1].n = HitsDone + 1 /\ num2[1] = HitsDone + 1
                BY <1>2, <2>4, <3>1, <4>1 DEF GemmOp
            <4> QED
                BY <2>4, <4>1, <4>2
        <3> QED
            BY <2>3, <2>4, <3>2, <3>3 DEF GemmNeeds
    <2>5. CASE p # 1
        <3>1. p - 1 \in 1 .. Len(rest) /\ (p - 1) + 1 = p
            BY <2>5
        <3>2. rest[p - 1] = ops[p]
            BY <1>2, <3>1
        <3>3. GemmNeeds(rest, p, num2[p])'
            BY <2>1, <2>2, <2>5, <3>2 DEF GemmNeeds
        <3> QED
            BY <2>3, <3>3
    <2> QED
        BY <2>4, <2>5
<1>5. GemmQueue(rest, num2, W)'
    BY <1>3, <1>4 DEF GemmQueue, Numbers
<1> QED
    BY <1>2, <1>5

\* The prefetching stream has done its first operation.
LEMMA FillDone ==
    ASSUME NEW ops \in Seq(Operation), ops # << >>, NEW num \in Sequences, NEW W,
           HitsDone \in Nat, FillsDone \in Nat,
           FillQueue(ops, num, W),
           issued' = issued, HitsDone' = HitsDone,
           FillsDone' = IF ops[1].op = "record" THEN FillsDone + 1 ELSE FillsDone,
           ops[1].op = "wait" => HitsDone >= FillsDone + 1 - 2,
           ops[1].op = "dequant" => buffer'[ops[1].b] = ops[1].w
    PROVE  \E num2 \in Sequences : FillQueue(Tail(ops), num2, W)'
<1>1. FillsDone + 1 \in Nat /\ Numbers(ops, num, FillsDone + 1, Fills + 1)
    BY DEF FillQueue
<1>2. PICK rest \in Seq(Operation), num2 \in Sequences :
             /\ rest = Tail(ops) /\ Len(ops) = Len(rest) + 1 /\ Len(rest) \in Nat
             /\ num[1] = FillsDone + 1
             /\ \A p \in 1 .. Len(rest) : rest[p] = ops[p + 1] /\ num2[p] = num[p + 1] /\ p + 1 \in 1 .. Len(ops)
             /\ Len(rest) > 0 => num2[1] = IF ops[1].op = "record" THEN FillsDone + 1 + 1 ELSE FillsDone + 1
             /\ Numbers(rest, num2, IF ops[1].op = "record" THEN FillsDone + 1 + 1 ELSE FillsDone + 1, Fills + 1)
    <2>1. PICK first, second, last :
              /\ first \in Nat /\ first = FillsDone + 1 /\ last = Fills + 1
              /\ second = IF ops[1].op = "record" THEN FillsDone + 1 + 1 ELSE FillsDone + 1
        BY <1>1, Zenon
    <2>2. Numbers(ops, num, first, last) /\ second = IF ops[1].op = "record" THEN first + 1 ELSE first
        BY <1>1, <2>1, Zenon
    <2>3. \E rest \in Seq(Operation), num2 \in Sequences :
             /\ rest = Tail(ops) /\ Len(ops) = Len(rest) + 1 /\ Len(rest) \in Nat
             /\ num[1] = first
             /\ \A p \in 1 .. Len(rest) : rest[p] = ops[p + 1] /\ num2[p] = num[p + 1] /\ p + 1 \in 1 .. Len(ops)
             /\ Len(rest) > 0 => num2[1] = second
             /\ Numbers(rest, num2, second, last)
        BY <2>1, <2>2, MoveUp
    <2> QED
        BY <2>1, <2>3, Zenon
<1>3. Numbers(rest, num2, FillsDone' + 1, Fills' + 1)
    <2>1. FillsDone' + 1 = IF ops[1].op = "record" THEN FillsDone + 1 + 1 ELSE FillsDone + 1
        <3>1. CASE ops[1].op = "record"
            BY <3>1, Zenon
        <3>2. CASE ops[1].op # "record"
            BY <3>2, Zenon
        <3> QED
            BY <3>1, <3>2, Zenon
    <2>2. Fills' = Fills
        BY DEF Fills
    <2> QED
        BY <1>2, <2>1, <2>2
<1>4. ASSUME NEW p \in 1 .. Len(rest)
      PROVE  FillOp(rest[p], num2[p], W)' /\ FillNeeds(rest, p, num2[p], W)'
    <2>1. rest[p] = ops[p + 1] /\ num2[p] = num[p + 1] /\ p + 1 \in 1 .. Len(ops) /\ p + 1 # 1 /\ (p + 1) - 1 = p
        BY <1>2
    <2>2. FillOp(ops[p + 1], num[p + 1], W) /\ FillNeeds(ops, p + 1, num[p + 1], W)
        BY <2>1 DEF FillQueue
    <2>3. FillOp(rest[p], num2[p], W)'
        BY <2>1, <2>2 DEF FillOp, Fills
    <2>4. CASE p = 1
        <3>1. 1 \in 1 .. Len(ops) /\ FillOp(ops[1], num[1], W)
            BY <1>2 DEF FillQueue
        <3>2. ASSUME rest[p].op = "dequant"
              PROVE  num2[p] <= HitsDone' + 2
            <4>1. ops[1].op = "wait"
                BY <2>1, <2>2, <2>4, <3>2 DEF FillNeeds
            <4>2. num2[1] = FillsDone + 1
                BY <1>2, <2>4, <4>1
            <4> QED
                BY <2>4, <4>1, <4>2
        <3>3. ASSUME rest[p].op = "record"
              PROVE  buffer'[Par(num2[p])] = W[num2[p]]
            <4>1. ops[1].op = "dequant"
                BY <2>1, <2>2, <2>4, <3>3 DEF FillNeeds
            <4>2. num2[1] = num[1]
                BY <1>2, <2>4, <4>1
            <4> QED
                BY <2>4, <3>1, <4>1, <4>2 DEF FillOp
        <3> QED
            BY <2>3, <2>4, <3>2, <3>3 DEF FillNeeds
    <2>5. CASE p # 1
        <3>1. p - 1 \in 1 .. Len(rest) /\ (p - 1) + 1 = p
            BY <2>5
        <3>2. rest[p - 1] = ops[p]
            BY <1>2, <3>1
        <3>3. FillNeeds(rest, p, num2[p], W)'
            BY <2>1, <2>2, <2>5, <3>2 DEF FillNeeds
        <3> QED
            BY <2>3, <3>3
    <2> QED
        BY <2>4, <2>5
<1>5. FillQueue(rest, num2, W)'
    BY <1>3, <1>4 DEF FillQueue, Numbers
<1> QED
    BY <1>2, <1>5

\* Steps that leave a queue alone.
LEMMA GemmStays ==
    ASSUME NEW ops, NEW num \in Sequences, NEW W, NEW V, GemmQueue(ops, num, W),
           Hits \in Nat, Hits' = Hits, HitsDone' = HitsDone,
           FillsDone \in Nat, FillsDone' \in Nat, FillsDone' >= FillsDone, Len(ops) \in Nat,
           \A i \in 0 .. Hits : V[i] = W[i],
           Len(ops) > 0 /\ ops[1].op = "gemm" => buffer'[Own] = buffer[Own]
    PROVE  GemmQueue(ops, num, V)'
<1>1. Numbers(ops, num, HitsDone' + 1, Hits' + 1)
    BY DEF GemmQueue
<1>2. ASSUME NEW p \in 1 .. Len(ops)
      PROVE  GemmOp(ops[p], num[p], V)' /\ GemmNeeds(ops, p, num[p])'
    <2>1. GemmOp(ops[p], num[p], W) /\ GemmNeeds(ops, p, num[p]) /\ num[p] \in Nat
        BY DEF GemmQueue, Sequences
    <2>2. GemmOp(ops[p], num[p], V)'
        BY <2>1 DEF GemmOp
    <2>3. GemmNeeds(ops, p, num[p])'
        BY <2>1 DEF GemmNeeds
    <2> QED
        BY <2>2, <2>3
<1> QED
    BY <1>1, <1>2 DEF GemmQueue, Numbers

LEMMA FillStays ==
    ASSUME NEW ops, NEW num \in Sequences, NEW W, FillQueue(ops, num, W),
           Fills' = Fills, FillsDone' = FillsDone, FillsDone \in Nat,
           HitsDone \in Nat, HitsDone' \in Nat, HitsDone' >= HitsDone, Len(ops) \in Nat,
           Len(ops) > 0 /\ ops[1].op = "record" =>
               buffer'[Par(FillsDone + 1)] = buffer[Par(FillsDone + 1)]
    PROVE  FillQueue(ops, num, W)'
<1>1. Numbers(ops, num, FillsDone' + 1, Fills' + 1) /\ num[1] = FillsDone + 1
    BY DEF FillQueue, Numbers
<1>2. ASSUME NEW p \in 1 .. Len(ops)
      PROVE  FillOp(ops[p], num[p], W)' /\ FillNeeds(ops, p, num[p], W)'
    <2>1. FillOp(ops[p], num[p], W) /\ FillNeeds(ops, p, num[p], W) /\ num[p] \in Nat
        BY DEF FillQueue, Sequences
    <2>2. FillOp(ops[p], num[p], W)'
        BY <2>1 DEF FillOp
    <2>3. FillNeeds(ops, p, num[p], W)'
        BY <1>1, <2>1 DEF FillNeeds
    <2> QED
        BY <2>2, <2>3
<1> QED
    BY <1>1, <1>2 DEF FillQueue, Numbers

\* The host has its types, and counts that are numbers.
LEMMA CountTypes ==
    ASSUME WellTyped, StreamInv
    PROVE  /\ issued \in [Events -> Nat] /\ recorded \in [Events -> Nat]
           /\ queue[1] \in Seq(Operation) /\ queue[2] \in Seq(Operation)
           /\ Hits \in Nat /\ HitsDone \in Nat /\ Fills \in Nat /\ FillsDone \in Nat
           /\ FillsDone <= Fills
           /\ Streams = {1, 2} /\ queue \in [Streams -> Seq(Operation)]
<1>1. /\ issued \in [Events -> Nat] /\ recorded \in [Events -> Nat] /\ queue \in [Streams -> Seq(Operation)]
    BY DEF WellTyped, TypeOK
<1>2. Fills \in Nat /\ FillsDone \in Nat
    BY <1>1, Buffers DEF Fills, FillsDone
<1>3. Streams = {1, 2}
    BY DEF Streams
<1>4. Hits \in Nat /\ HitsDone \in Nat /\ FillsDone <= Fills
    BY DEF StreamInv, Counts
<1> QED
    BY <1>1, <1>2, <1>3, <1>4

LEMMA InitStream == Init => StreamInv
<1> SUFFICES ASSUME Init
             PROVE  StreamInv
    OBVIOUS
<1>1. /\ issued["free0"] = 1 /\ issued["free1"] = 1 /\ issued["ready"] = 0 /\ recorded = issued
      /\ queue[1] = << >> /\ queue[2] = << >> /\ pending = FALSE /\ current = 0
      /\ \A s \in Streams : running[s] = FALSE
    BY Buffers DEF Init, Streams
<1>2. Hits = 0 /\ HitsDone = 0 /\ Fills = 0 /\ FillsDone = 0
    BY <1>1 DEF Hits, HitsDone, Fills, FillsDone
<1>3. Par(0) = 0 /\ Half(0) = 0 /\ Half(0 + 1) = 0
    BY DEF Par, Half
<1>4. Counts
    BY <1>1, <1>2, <1>3 DEF Counts
<1>5. Waited
    BY <1>1 DEF Waited
<1> DEFINE W == [i \in Nat |-> NoWeight]
           num == [i \in Nat |-> 1]
<1>6. W \in WeightsOfFills /\ num \in Sequences /\ num[1] = 1
    BY DEF WeightsOfFills, Sequences
<1> HIDE DEF W, num
<1>7. Len(queue[1]) = 0 /\ Len(queue[2]) = 0
    BY <1>1, EmptySeq
<1>8. GemmQueue(queue[1], num, W) /\ FillQueue(queue[2], num, W)
    <2>1. 0 + 1 = 1 /\ 1 .. 0 = {}
        OBVIOUS
    <2>2. Numbers(queue[1], num, 1, 1) /\ Numbers(queue[2], num, 1, 1)
        BY <1>6, <1>7, <2>1 DEF Numbers
    <2> QED
        BY <1>2, <1>7, <2>1, <2>2 DEF GemmQueue, FillQueue
<1>9. Filled(W)
    BY <1>2 DEF Filled
<1>10. pending => W[Fills] = wanted
    BY <1>1
<1> QED
    BY <1>4, <1>5, <1>6, <1>8, <1>9, <1>10 DEF StreamInv

\* A prefetch of nw, or none, behind the GEMM of a call: n is its number.
LEMMA PrefetchStep ==
    ASSUME NEW W \in WeightsOfFills, NEW num \in Sequences, NEW ops \in Seq(Operation),
           FillQueue(ops, num, W), Filled(W),
           NEW nw, NEW n \in Nat \ {0}, n = Fills + 1, nw \in Weights,
           NEW m \in Nat, m = 1 + Half(n - 1 + Par(n)),
           Fills \in Nat, FillsDone \in Nat, HitsDone \in Nat, FillsDone <= Fills,
           Fills' = n, recorded' = recorded, buffer' = buffer
    PROVE  \E V \in WeightsOfFills, num2 \in Sequences :
             /\ V[n] = nw /\ \A i \in 0 .. Fills : V[i] = W[i]
             /\ FillQueue(ops \o <<Wait(Free(Par(n)), m), Dequant(nw, Par(n)), Record("ready")>>, num2, V)'
             /\ Filled(V)'
<1> DEFINE V == [W EXCEPT ![n] = nw]
<1>1. V \in WeightsOfFills /\ V[n] = nw /\ \A i \in 0 .. Fills : V[i] = W[i]
    BY DEF WeightsOfFills
<1>2. PICK num2 \in Sequences :
        FillQueue(ops \o <<Wait(Free(Par(n)), m), Dequant(nw, Par(n)), Record("ready")>>, num2, V)'
    BY FillQueued
<1> HIDE DEF V
<1>3. Filled(V)'
    <2>1. HitsDone' = HitsDone /\ FillsDone' = FillsDone
        BY DEF HitsDone, FillsDone
    <2>2. ASSUME NEW i \in HitsDone + 1 .. FillsDone
          PROVE  buffer'[Par(i)] = V[i]
        <3>1. buffer[Par(i)] = W[i] /\ i \in 0 .. Fills
            BY DEF Filled
        <3> QED
            BY <1>1, <3>1
    <2> QED
        BY <2>1, <2>2 DEF Filled
<1> QED
    BY <1>1, <1>2, <1>3

LEMMA OperationTypes ==
    /\ \A x \in Weights, y \in Scratch \cup {Own} : Dequant(x, y) \in Operation /\ Gemm(x, y) \in Operation
    /\ \A e \in Events : Record(e) \in Operation
    /\ \A e \in Events, n \in Nat : Wait(e, n) \in Operation
BY DEF Operation, Dequant, Gemm, Record, Wait

\* A call of lin_multi: the GEMM takes what was prefetched for it, and what it
\* prefetches goes to the buffer the next GEMM will look in.
LEMMA CallStream ==
    ASSUME WellTyped, StreamInv, NEW w \in Weights, NEW nw \in Weights \cup {NoWeight},
           LinMulti(w, nw), pending => wanted = w
    PROVE  StreamInv'
<1>1. /\ issued \in [Events -> Nat] /\ recorded \in [Events -> Nat]
      /\ queue[1] \in Seq(Operation) /\ queue[2] \in Seq(Operation)
      /\ Hits \in Nat /\ HitsDone \in Nat /\ Fills \in Nat /\ FillsDone \in Nat
      /\ FillsDone <= Fills
      /\ Streams = {1, 2} /\ queue \in [Streams -> Seq(Operation)]
    BY CountTypes
<1>2. PICK W \in WeightsOfFills, num1 \in Sequences, num2 \in Sequences :
        /\ pending => W[Fills] = wanted
        /\ GemmQueue(queue[1], num1, W)
        /\ FillQueue(queue[2], num2, W)
        /\ Filled(W)
    BY DEF StreamInv
<1>3. PICK h \in Nat, f \in Nat : h = Hits /\ f = Fills
    BY <1>1
<1>4. /\ pending \in BOOLEAN /\ (pending => f = h + 1) /\ (~pending => f = h)
      /\ current = Par(h)
      /\ issued["free0"] = 1 + Half(h) /\ issued["free1"] = 1 + Half(h + 1)
      /\ recorded["free0"] = 1 + Half(HitsDone) /\ recorded["free1"] = 1 + Half(HitsDone + 1)
    BY <1>3 DEF StreamInv, Counts, WellTyped, TypeOK
<1>5. /\ Par(h) \in {0, 1} /\ Half(h) \in Int /\ Par(h + 1) = 1 - Par(h) /\ Half(h + 1) = Half(h) + Par(h)
      /\ h = 2 * Half(h) + Par(h)
      /\ Par(f) \in {0, 1} /\ Half(f) \in Int /\ Par(f + 1) = 1 - Par(f) /\ Half(f + 1) = Half(f) + Par(f)
      /\ f = 2 * Half(f) + Par(f)
    BY <1>3, ParHalf
<1> DEFINE used == IF Hit(w) THEN Other(current) ELSE current
           b == IF Hit(w) THEN used ELSE Own
           head == IF Hit(w) THEN <<Wait("ready", issued["ready"]), Gemm(w, b), Record(Free(b))>>
                   ELSE <<Dequant(w, b), Gemm(w, b)>>
           counts == IF Hit(w) THEN [issued EXCEPT ![Free(b)] = @ + 1] ELSE issued
           busy == pending /\ ~Hit(w)
           ahead == Prefetches(nw, busy)
<1>6. /\ queue' = [s \in Streams |->
                      IF s = 1 THEN queue[1] \o head
                      ELSE IF ahead THEN queue[2] \o Fill(nw, Other(used), counts) ELSE queue[2]]
      /\ issued' = IF ahead THEN [counts EXCEPT !["ready"] = @ + 1] ELSE counts
      /\ current' = used
      /\ pending' = (busy \/ ahead)
      /\ wanted' = IF ahead THEN nw ELSE wanted
      /\ UNCHANGED <<running, recorded, buffer>>
    BY DEF LinMulti
<1>7. (Hit(w) <=> pending) /\ ~busy
    BY DEF Hit
<1>8. used = Par(f)
    BY <1>4, <1>5, <1>7 DEF Other
<1>9. Hit(w) => b = Par(f) /\ issued["ready"] = f
    BY <1>3, <1>8 DEF Fills
<1>10. PICK cnt : /\ cnt = counts /\ cnt \in [Events -> Nat]
                  /\ cnt["free0"] = 1 + Half(f) /\ cnt["free1"] = 1 + Half(f + 1) /\ cnt["ready"] = f
    <2>1. CASE Hit(w)
        <3>1. PICK e \in Events : e = Free(Par(f)) /\ counts = [issued EXCEPT ![e] = issued[e] + 1]
            BY <1>5, <1>9, <2>1, Buffers
        <3>2. f = h + 1 /\ Par(f) = 1 - Par(h)
            BY <1>4, <1>5, <1>7, <2>1
        <3>3. issued["ready"] = f
            BY <1>3 DEF Fills
        <3> HIDE DEF counts
        <3>4. /\ counts \in [Events -> Nat] /\ counts[e] = issued[e] + 1
              /\ \A x \in Events : x # e => counts[x] = issued[x]
            BY <1>1, <3>1
        <3>5. CASE Par(f) = 0
            <4>1. Half(f) = Half(h) + 1 /\ Half(f + 1) = Half(h + 1) /\ e = "free0"
                BY <1>5, <3>1, <3>2, <3>5, Buffers
            <4>2. counts["free0"] = 1 + Half(f) /\ counts["free1"] = 1 + Half(f + 1) /\ counts["ready"] = f
                BY <1>4, <1>5, <3>3, <3>4, <4>1, Buffers
            <4> QED
                BY <3>4, <4>2
        <3>6. CASE Par(f) = 1
            <4>1. Half(f) = Half(h) /\ Half(f + 1) = Half(h + 1) + 1 /\ e = "free1"
                BY <1>5, <3>1, <3>2, <3>6, Buffers
            <4>2. counts["free0"] = 1 + Half(f) /\ counts["free1"] = 1 + Half(f + 1) /\ counts["ready"] = f
                BY <1>4, <1>5, <3>3, <3>4, <4>1, Buffers
            <4> QED
                BY <3>4, <4>2
        <3> QED
            BY <1>5, <3>5, <3>6
    <2>2. CASE ~Hit(w)
        BY <1>1, <1>3, <1>4, <1>7, <2>2 DEF Fills
    <2> QED
        BY <2>1, <2>2
<1>11. PICK n \in Nat \ {0} : n = f + 1 /\ n - 1 = f
    BY <1>3
<1>12. PICK m \in Nat : m = cnt[Free(Par(n))] /\ m = 1 + Half(n - 1 + Par(n))
    <2>1. Par(n) = 1 - Par(f) /\ n = f + 1
        BY <1>5, <1>11
    <2>2. cnt[Free(Par(n))] \in Nat
        BY <1>5, <1>10, <2>1, Buffers
    <2>3. CASE Par(n) = 0
        <3>1. n - 1 + Par(n) = f /\ cnt[Free(Par(n))] = 1 + Half(f)
            BY <1>10, <2>1, <2>3, Buffers
        <3> QED
            BY <2>2, <3>1
    <2>4. CASE Par(n) = 1
        <3>1. n - 1 + Par(n) = f + 1 /\ cnt[Free(Par(n))] = 1 + Half(f + 1)
            BY <1>10, <2>1, <2>4, Buffers
        <3> QED
            BY <2>2, <3>1
    <2> QED
        BY <1>5, <2>1, <2>3, <2>4
<1>13. Hits' = f
    <2>1. issued'["free0"] = 1 + Half(f) /\ issued'["free1"] = 1 + Half(f + 1)
        BY <1>6, <1>10, Buffers
    <2> QED
        BY <1>5, <2>1 DEF Hits
<1>14. Other(used) = Par(n)
    BY <1>5, <1>8, <1>11 DEF Other
<1>15. Fill(nw, Other(used), counts) = <<Wait(Free(Par(n)), m), Dequant(nw, Par(n)), Record("ready")>>
    BY <1>10, <1>12, <1>14 DEF Fill
<1>16. IF ahead THEN Fills' = n /\ nw \in Weights ELSE Fills' = f
    <2>1. issued'["ready"] = IF ahead THEN f + 1 ELSE f
        BY <1>6, <1>10, Buffers
    <2> QED
        BY <1>11, <2>1 DEF Fills, Prefetches
<1> HIDE DEF head, ahead, counts, used, b, busy
<1>17. /\ queue'[1] = queue[1] \o head
       /\ queue'[2] = IF ahead
                       THEN queue[2] \o <<Wait(Free(Par(n)), m), Dequant(nw, Par(n)), Record("ready")>>
                       ELSE queue[2]
    BY <1>1, <1>6, <1>15
<1>18. HitsDone' = HitsDone /\ FillsDone' = FillsDone
    BY <1>6 DEF HitsDone, FillsDone
<1>19. pending' \in BOOLEAN /\ (pending' <=> ahead) /\ current' = Par(f) /\ (ahead => wanted' = nw)
       /\ running' = running /\ recorded' = recorded /\ buffer' = buffer
    BY <1>6, <1>7, <1>8, Zenon DEF busy, ahead, Prefetches
<1>20. PICK q1 \in Seq(Operation), q2 \in Seq(Operation), x1 \in Seq(Operation), x2 \in Seq(Operation) :
           q1 = queue[1] /\ q2 = queue[2] /\ x1 = queue'[1] /\ x2 = queue'[2]
    <2>1. queue' \in [Streams -> Seq(Operation)]
        BY LinMultiTypes
    <2> QED
        BY <1>1, <2>1
<1>21. Par(n) \in Scratch \cup {Own} /\ Free(Par(n)) \in Events /\ Par(f) \in Scratch \cup {Own}
       /\ Free(Par(f)) \in Events /\ "ready" \in Events /\ Own \in Scratch \cup {Own}
    BY <1>5, <1>11, Buffers
<1>22. x2 = IF ahead THEN q2 \o <<Wait(Free(Par(n)), m), Dequant(nw, Par(n)), Record("ready")>> ELSE q2
    BY <1>17, <1>20
<1>23. PICK V \in WeightsOfFills, num4 \in Sequences :
        /\ ahead => V[n] = nw
        /\ \A i \in 0 .. f : V[i] = W[i]
        /\ FillQueue(x2, num4, V)'
        /\ Filled(V)'
    <2>0. FillQueue(q2, num2, W)
        BY <1>2, <1>20
    <2>1. CASE ahead
        <3>1. Fills' = n /\ nw \in Weights /\ n = Fills + 1
            BY <1>3, <1>11, <1>16, <2>1
        <3>2. PICK V \in WeightsOfFills, num4 \in Sequences :
                /\ V[n] = nw /\ \A i \in 0 .. Fills : V[i] = W[i]
                /\ FillQueue(q2 \o <<Wait(Free(Par(n)), m), Dequant(nw, Par(n)), Record("ready")>>, num4, V)'
                /\ Filled(V)'
            BY <1>1, <1>2, <1>12, <1>19, <2>0, <3>1, PrefetchStep
        <3>3. FillQueue(x2, num4, V)'
            BY <1>22, <2>1, <3>2
        <3> QED
            BY <1>3, <2>1, <3>2, <3>3
    <2>2. CASE ~ahead
        <3>1. Fills' = Fills /\ x2 = q2 /\ Len(q2) \in Nat
            BY <1>3, <1>16, <1>22, <2>2, LenProperties
        <3>2. FillQueue(q2, num2, W)'
            BY <1>1, <1>18, <1>19, <2>0, <3>1, FillStays
        <3>3. Filled(W)'
            BY <1>2, <1>18, <1>19 DEF Filled
        <3>4. FillQueue(x2, num2, W)'
            BY <3>1, <3>2
        <3> QED
            BY <2>2, <3>3, <3>4
    <2> QED
        BY <2>1, <2>2
<1>24. GemmQueue(q1, num1, W)
    BY <1>2, <1>20
<1>25. ASSUME Hit(w)
       PROVE  /\ pending /\ f = h + 1 /\ f \in Nat \ {0}
              /\ x1 = q1 \o <<Wait("ready", f), Gemm(w, Par(f)), Record(Free(Par(f)))>>
    <2>1. pending /\ f = h + 1
        BY <1>4, <1>7, <1>25
    <2>2. head = <<Wait("ready", f), Gemm(w, Par(f)), Record(Free(Par(f)))>>
        BY <1>9, <1>25 DEF head
    <2> QED
        BY <1>3, <1>17, <1>20, <2>1, <2>2
<1>26. ASSUME ~Hit(w)
       PROVE  ~pending /\ f = h /\ x1 = q1 \o <<Dequant(w, Own), Gemm(w, Own)>>
    <2>1. ~pending /\ f = h
        BY <1>4, <1>7, <1>26
    <2>2. head = <<Dequant(w, Own), Gemm(w, Own)>>
        BY <1>26 DEF head, b
    <2> QED
        BY <1>17, <1>20, <2>1, <2>2
<1>27. PICK num3 \in Sequences : GemmQueue(x1, num3, V)'
    <2>1. CASE Hit(w)
        <3>1. W[f] = w
            BY <1>2, <1>3, <1>25, <2>1
        <3>2. \A i \in 0 .. f : V[i] = W[i]
            BY <1>23
        <3>3. f = Hits + 1 /\ Hits' = f /\ f \in Nat \ {0}
            BY <1>3, <1>13, <1>25, <2>1
        <3>4. \E num3 \in Sequences :
                 GemmQueue(q1 \o <<Wait("ready", f), Gemm(w, Par(f)), Record(Free(Par(f)))>>, num3, V)'
            BY <1>1, <1>19, <1>24, <3>1, <3>2, <3>3, GemmQueued
        <3> QED
            BY <1>25, <2>1, <3>4
    <2>2. CASE ~Hit(w)
        <3>1. PICK k \in Nat \ {0} : k = h + 1
            BY <1>3
        <3>2. \A i \in 0 .. Hits : V[i] = W[i]
            BY <1>3, <1>23, <1>26, <2>2
        <3>3. k = Hits + 1 /\ Hits' = Hits
            BY <1>3, <1>13, <1>26, <2>2, <3>1
        <3>4. \E num3 \in Sequences : GemmQueue(q1 \o <<Dequant(w, Own), Gemm(w, Own)>>, num3, V)'
            BY <1>1, <1>19, <1>24, <3>2, <3>3, OwnGemmQueued
        <3> QED
            BY <1>26, <2>2, <3>4
    <2> QED
        BY <2>1, <2>2
<1>28. Counts'
    <2>1. Fills' = IF pending' THEN f + 1 ELSE f
        BY <1>11, <1>16, <1>19
    <2>2. FillsDone' <= Fills'
        BY <1>1, <1>3, <1>18, <2>1
    <2>3. issued'["free0"] = 1 + Half(f) /\ issued'["free1"] = 1 + Half(f + 1)
        <3>1. issued' = IF ahead THEN [cnt EXCEPT !["ready"] = @ + 1] ELSE cnt
            BY <1>6, <1>10 DEF counts
        <3> QED
            BY <1>10, <3>1, Buffers
    <2>4. recorded'["free0"] = 1 + Half(HitsDone') /\ recorded'["free1"] = 1 + Half(HitsDone' + 1)
        BY <1>4, <1>18, <1>19
    <2> QED
        BY <1>1, <1>3, <1>13, <1>18, <1>19, <2>1, <2>2, <2>3, <2>4 DEF Counts
<1>29. ASSUME NEW s \in Streams, running[s]
       PROVE  queue'[s][1] = queue[s][1]
    <2>0. queue[s] # << >> /\ s \in {1, 2}
        BY <1>1, <1>29 DEF WellTyped
    <2>1. CASE s = 1
        <3>1. 1 \in 1 .. Len(q1)
            <4>1. Len(q1) \in Nat /\ Len(q1) # 0
                BY <1>20, <2>0, <2>1, EmptySeq, LenProperties
            <4> QED
                BY <4>1
        <3>2. CASE Hit(w)
            <4>1. /\ Wait("ready", f) \in Operation /\ Gemm(w, Par(f)) \in Operation
                  /\ Record(Free(Par(f))) \in Operation
                BY <1>3, <1>21, OperationTypes
            <4> QED
                BY <1>20, <1>25, <2>1, <3>1, <3>2, <4>1, ThreeBehind
        <3>3. CASE ~Hit(w)
            <4>1. Dequant(w, Own) \in Operation /\ Gemm(w, Own) \in Operation
                BY <1>21, OperationTypes
            <4> QED
                BY <1>20, <1>26, <2>1, <3>1, <3>3, <4>1, TwoBehind
        <3> QED
            BY <3>2, <3>3
    <2>2. CASE s = 2
        <3>1. 1 \in 1 .. Len(q2)
            <4>1. Len(q2) \in Nat /\ Len(q2) # 0
                BY <1>20, <2>0, <2>2, EmptySeq, LenProperties
            <4> QED
                BY <4>1
        <3>2. CASE ahead
            <4>1. /\ Wait(Free(Par(n)), m) \in Operation /\ Dequant(nw, Par(n)) \in Operation
                  /\ Record("ready") \in Operation
                BY <1>16, <1>21, <3>2, OperationTypes
            <4>2. x2 = q2 \o <<Wait(Free(Par(n)), m), Dequant(nw, Par(n)), Record("ready")>>
                BY <1>22, <3>2
            <4>3. x2[1] = q2[1]
                BY <3>1, <4>1, <4>2, ThreeBehind
            <4> QED
                BY <1>20, <2>2, <4>3
        <3>3. CASE ~ahead
            BY <1>20, <1>22, <2>2, <3>3
        <3> QED
            BY <3>2, <3>3
    <2> QED
        BY <2>0, <2>1, <2>2
<1>30. Waited'
    <2>1. Waited
        BY DEF StreamInv
    <2> QED
        BY <1>19, <1>29, <2>1 DEF Waited, HeadOf
<1>31. pending' => V[Fills'] = wanted'
    BY <1>16, <1>19, <1>23
<1>32. GemmQueue(queue[1], num3, V)' /\ FillQueue(queue[2], num4, V)'
    BY <1>20, <1>23, <1>27
<1> QED
    BY <1>23, <1>27, <1>28, <1>30, <1>31, <1>32 DEF StreamInv

-----------------------------------------------------------------------------
(* The steps of the host                                                   *)

LEMMA SameStream ==
    ASSUME WellTyped, StreamInv, UNCHANGED <<prefetchVars, gpuVars>>
    PROVE  StreamInv'
<1>1. UNCHANGED <<pending, current, wanted, queue, running, issued, recorded, buffer>>
    BY DEF prefetchVars, gpuVars
<1>2. Hits' = Hits /\ HitsDone' = HitsDone /\ Fills' = Fills /\ FillsDone' = FillsDone
    BY <1>1 DEF Hits, HitsDone, Fills, FillsDone
<1>3. Counts' /\ Waited'
    <2>1. Counts /\ Waited
        BY DEF StreamInv
    <2>2. Counts'
        BY <1>1, <1>2, <2>1 DEF Counts
    <2>3. Waited'
        BY <1>1, <2>1 DEF Waited, HeadOf
    <2> QED
        BY <2>2, <2>3
<1>4. PICK W \in WeightsOfFills, num1 \in Sequences, num2 \in Sequences :
        /\ pending => W[Fills] = wanted
        /\ GemmQueue(queue[1], num1, W)
        /\ FillQueue(queue[2], num2, W)
        /\ Filled(W)
    BY DEF StreamInv
<1>5. PICK q1, q2 : q1 = queue[1] /\ q2 = queue[2] /\ q1 = queue'[1] /\ q2 = queue'[2]
    BY <1>1
<1>6. GemmQueue(q1, num1, W) /\ FillQueue(q2, num2, W)
    BY <1>4, <1>5
<1>7. Len(q1) \in Nat /\ Len(q2) \in Nat /\ Hits \in Nat /\ HitsDone \in Nat /\ FillsDone \in Nat
    BY <1>5, CountTypes, LenProperties
<1>8. GemmQueue(q1, num1, W)'
    BY <1>1, <1>2, <1>6, <1>7, GemmStays
<1>9. FillQueue(q2, num2, W)'
    BY <1>1, <1>2, <1>6, <1>7, FillStays
<1>10. Filled(W)'
    BY <1>1, <1>2, <1>4 DEF Filled
<1>11. GemmQueue(queue[1], num1, W)' /\ FillQueue(queue[2], num2, W)'
    BY <1>5, <1>8, <1>9
<1>12. pending' => W[Fills'] = wanted'
    BY <1>1, <1>2, <1>4
<1> QED
    BY <1>3, <1>4, <1>10, <1>11, <1>12 DEF StreamInv

\* Every GEMM the host calls is for the weights it prefetched, if it did.
LEMMA HostCalls ==
    ASSUME HostInv, Host
    PROVE  \/ Begin \/ EndPass
           \/ Wanted \in Weights /\ \E nw \in Weights \cup {NoWeight} : LinMulti(Wanted, nw)
<1>1. TypeOK /\ WellTyped /\ Ahead /\ (stage = "begin" => layer = 0)
    BY DEF HostInv, WellTyped
<1>2. /\ \A g \in Groups : <<g, layer>> \in Weights /\ <<g, Mtp>> \in Weights
      /\ NextLayer \in Weights \cup {NoWeight}
      /\ stage \in Groups => Current \in Weights
    BY <1>1, WeightTypes
<1>3. layer \in 0 .. NLayers - 1 /\ {next, next2} \subseteq Weights \cup {NoWeight}
    BY <1>1 DEF TypeOK
<1>4. "in" \in Groups /\ "out" \in Groups /\ "gateup" \in Groups /\ "down" \in Groups /\ "eh" \in Groups
    BY DEF Groups
<1>5. stage \in Groups /\ pass <= Len(Passes) => Wanted = Current /\ Wanted \in Weights
    BY <1>2 DEF Wanted, Groups
<1>6. CASE InProjection
    <2>1. LinMulti(Wanted, <<"out", layer>>) /\ Wanted \in Weights /\ <<"out", layer>> \in Weights
        BY <1>2, <1>4, <1>5, <1>6 DEF InProjection, At
    <2> QED
        BY <2>1
<1>7. CASE OutProjection
    <2> DEFINE nw == IF InAttention THEN next ELSE <<"gateup", layer>>
    <2>1. LinMulti(Wanted, nw) /\ Wanted \in Weights /\ nw \in Weights \cup {NoWeight}
        BY <1>2, <1>3, <1>4, <1>5, <1>7 DEF OutProjection, At
    <2> QED
        BY <2>1
<1>8. CASE GateUp
    BY <1>3, <1>4, <1>5, <1>8 DEF GateUp
<1>9. CASE Down
    BY <1>3, <1>4, <1>5, <1>9 DEF Down
<1>10. CASE MtpBegin
    <2>1. Wanted = <<"eh", Mtp>> /\ LinMulti(Wanted, next)
        BY <1>10 DEF MtpBegin, At, Wanted
    <2> QED
        BY <1>2, <1>3, <1>4, <2>1
<1>11. CASE MtpIn
    <2>1. LinMulti(Wanted, <<"out", Mtp>>) /\ Wanted \in Weights /\ <<"out", Mtp>> \in Weights
        BY <1>2, <1>4, <1>5, <1>11 DEF MtpIn, At
    <2> QED
        BY <2>1
<1>12. CASE MtpOut
    BY <1>3, <1>4, <1>5, <1>12 DEF MtpOut, At
<1> QED
    BY <1>6, <1>7, <1>8, <1>9, <1>10, <1>11, <1>12 DEF Host

\* A trunk pass begins with a prefetch that nothing has been left before.
LEMMA BeginStream ==
    ASSUME HostInv, StreamInv, Begin
    PROVE  StreamInv'
<1> DEFINE w == <<"in", 0>>
           ahead == Prefetches(w, pending)
<1>1. WellTyped /\ TypeOK
    BY DEF HostInv, WellTyped
<1>2. pending = FALSE
    <2>1. pending => wanted = <<"begin", layer>>
        BY DEF HostInv, Wanted, Current, Begin, At
    <2>2. wanted \in Weights \cup {NoWeight} /\ pending \in BOOLEAN
        BY <1>1 DEF TypeOK
    <2>3. <<"begin", layer>> \notin Weights \cup {NoWeight}
        BY DEF Weights, NoWeight, Groups
    <2> QED
        BY <2>1, <2>2, <2>3
<1>3. CASE ~ahead
    <2>1. UNCHANGED <<prefetchVars, gpuVars>>
        BY <1>3 DEF Begin, prefetchVars, gpuVars
    <2> QED
        BY <1>1, <2>1, SameStream
<1>4. CASE ahead
    <2>1. /\ queue' = [queue EXCEPT ![2] = queue[2] \o Fill(w, Other(current), issued)]
          /\ issued' = [issued EXCEPT !["ready"] = @ + 1]
          /\ pending' = TRUE /\ wanted' = w
          /\ UNCHANGED <<current, running, recorded, buffer>>
        BY <1>4 DEF Begin
    <2>2. w \in Weights
        BY <1>1, PrefetchAssumption DEF Weights, Groups, TypeOK
    <2>3. /\ issued \in [Events -> Nat] /\ recorded \in [Events -> Nat]
          /\ Hits \in Nat /\ HitsDone \in Nat /\ Fills \in Nat /\ FillsDone \in Nat
          /\ FillsDone <= Fills
          /\ Streams = {1, 2} /\ queue \in [Streams -> Seq(Operation)]
        BY <1>1, CountTypes
    <2>4. PICK W \in WeightsOfFills, num1 \in Sequences, num2 \in Sequences :
            /\ GemmQueue(queue[1], num1, W)
            /\ FillQueue(queue[2], num2, W)
            /\ Filled(W)
        BY DEF StreamInv
    <2>5. PICK f \in Nat, n \in Nat \ {0} : f = Fills /\ n = f + 1 /\ n - 1 = f
        BY <2>3
    <2>6. /\ Hits = f /\ current = Par(f) /\ issued["ready"] = f
          /\ issued["free0"] = 1 + Half(f) /\ issued["free1"] = 1 + Half(f + 1)
          /\ recorded["free0"] = 1 + Half(HitsDone) /\ recorded["free1"] = 1 + Half(HitsDone + 1)
        BY <1>2, <2>5 DEF StreamInv, Counts, Fills
    <2>7. Par(f) \in {0, 1} /\ Par(n) = 1 - Par(f) /\ Half(f) \in Int
        BY <2>5, ParHalf
    <2>8. PICK m \in Nat : m = issued[Free(Par(n))] /\ m = 1 + Half(n - 1 + Par(n))
        <3>1. issued[Free(Par(n))] \in Nat
            BY <2>3, <2>7, Buffers
        <3>2. CASE Par(n) = 0
            <4>1. n - 1 + Par(n) = f /\ issued[Free(Par(n))] = 1 + Half(f)
                BY <2>5, <2>6, <3>2, Buffers
            <4> QED
                BY <3>1, <4>1
        <3>3. CASE Par(n) = 1
            <4>1. n - 1 + Par(n) = f + 1 /\ issued[Free(Par(n))] = 1 + Half(f + 1)
                BY <2>5, <2>6, <3>3, Buffers
            <4> QED
                BY <3>1, <4>1
        <3> QED
            BY <2>7, <3>2, <3>3
    <2>9. Other(current) = Par(n)
        BY <2>6, <2>7 DEF Other
    <2>10. Fill(w, Other(current), issued) = <<Wait(Free(Par(n)), m), Dequant(w, Par(n)), Record("ready")>>
        BY <2>8, <2>9 DEF Fill
    <2>11. PICK q1 \in Seq(Operation), q2 \in Seq(Operation), x2 \in Seq(Operation) :
              /\ q1 = queue[1] /\ q2 = queue[2] /\ q1 = queue'[1] /\ x2 = queue'[2]
              /\ x2 = q2 \o <<Wait(Free(Par(n)), m), Dequant(w, Par(n)), Record("ready")>>
        <3>1. queue'[1] = queue[1] /\ queue'[2] = queue[2] \o Fill(w, Other(current), issued)
            BY <2>1, <2>3
        <3>2. queue[1] \in Seq(Operation) /\ queue[2] \in Seq(Operation)
            BY <2>3
        <3>3. queue'[2] \in Seq(Operation)
            <4>1. HostInv'
                BY BeginInv
            <4> QED
                BY <2>3, <4>1 DEF HostInv, WellTyped, TypeOK
        <3> QED
            BY <2>10, <3>1, <3>2, <3>3, Zenon
    <2>12. PICK v : v = w /\ v \in Weights
        BY <2>2
    <2> HIDE DEF w
    <2>13. issued'["free0"] = issued["free0"] /\ issued'["free1"] = issued["free1"] /\ issued'["ready"] = n
        BY <2>1, <2>3, <2>5, <2>6, Buffers
    <2>14. Hits' = Hits /\ Fills' = n /\ HitsDone' = HitsDone /\ FillsDone' = FillsDone
        BY <2>1, <2>13 DEF Hits, Fills, HitsDone, FillsDone
    <2>15. GemmQueue(q1, num1, W) /\ FillQueue(q2, num2, W)
        BY <2>4, <2>11
    <2>16. PICK V \in WeightsOfFills, num4 \in Sequences :
             /\ V[n] = v /\ \A i \in 0 .. Fills : V[i] = W[i]
             /\ FillQueue(q2 \o <<Wait(Free(Par(n)), m), Dequant(v, Par(n)), Record("ready")>>, num4, V)'
             /\ Filled(V)'
        <3>1. n = Fills + 1 /\ Fills' = n /\ recorded' = recorded /\ buffer' = buffer
            BY <2>1, <2>5, <2>14
        <3> QED
            BY <2>3, <2>4, <2>5, <2>8, <2>12, <2>15, <3>1, PrefetchStep
    <2>17. FillQueue(x2, num4, V)'
        BY <2>11, <2>12, <2>16
    <2>18. GemmQueue(q1, num1, V)'
        <3>1. \A i \in 0 .. Hits : V[i] = W[i]
            BY <2>5, <2>6, <2>16
        <3>2. Len(q1) \in Nat /\ FillsDone' \in Nat /\ FillsDone' >= FillsDone
            BY <2>3, <2>14, LenProperties
        <3> QED
            BY <2>1, <2>3, <2>14, <2>15, <3>1, <3>2, GemmStays
    <2>19. GemmQueue(queue[1], num1, V)' /\ FillQueue(queue[2], num4, V)'
        BY <2>11, <2>17, <2>18
    <2>20. Counts'
        <3>1. Fills' = IF pending' THEN Hits' + 1 ELSE Hits'
            BY <2>1, <2>5, <2>6, <2>14
        <3>2. FillsDone' <= Fills'
            BY <2>3, <2>5, <2>14
        <3> QED
            BY <2>1, <2>3, <2>6, <2>13, <2>14, <3>1, <3>2 DEF Counts
    <2>21. Waited'
        <3>1. ASSUME NEW s \in Streams, running[s]
              PROVE  queue'[s][1] = queue[s][1]
            <4>1. CASE s = 1
                BY <2>11, <4>1
            <4>2. CASE s = 2
                <5>1. Len(q2) \in Nat /\ Len(q2) # 0
                    BY <1>1, <2>11, <3>1, <4>2, EmptySeq, LenProperties DEF WellTyped
                <5>2. 1 \in 1 .. Len(q2)
                    BY <5>1
                <5>3. /\ Wait(Free(Par(n)), m) \in Operation /\ Dequant(v, Par(n)) \in Operation
                      /\ Record("ready") \in Operation
                    BY <2>7, <2>12, Buffers, OperationTypes
                <5>4. x2[1] = q2[1]
                    BY <2>11, <2>12, <5>2, <5>3, ThreeBehind
                <5> QED
                    BY <2>11, <4>2, <5>4
            <4> QED
                BY <2>3, <4>1, <4>2
        <3>2. Waited
            BY DEF StreamInv
        <3> QED
            BY <2>1, <3>1, <3>2 DEF Waited, HeadOf
    <2>22. pending' => V[Fills'] = wanted'
        BY <2>1, <2>12, <2>14, <2>16
    <2> QED
        BY <2>16, <2>19, <2>20, <2>21, <2>22 DEF StreamInv
<1> QED
    BY <1>3, <1>4

LEMMA HostStream ==
    ASSUME HostInv, StreamInv, Host
    PROVE  StreamInv'
<1>1. WellTyped /\ (pending => wanted = Wanted)
    BY DEF HostInv
<1>2. CASE Begin
    BY <1>2, BeginStream
<1>3. CASE EndPass
    <2>1. UNCHANGED <<prefetchVars, gpuVars>>
        BY <1>3 DEF EndPass
    <2> QED
        BY <1>1, <2>1, SameStream
<1>4. ASSUME Wanted \in Weights, NEW nw \in Weights \cup {NoWeight}, LinMulti(Wanted, nw)
      PROVE  StreamInv'
    <2>1. PICK w \in Weights : w = Wanted
        BY <1>4
    <2>2. LinMulti(w, nw) /\ (pending => wanted = w)
        BY <1>1, <1>4, <2>1
    <2> QED
        BY <1>1, <2>2, CallStream
<1> QED
    BY <1>2, <1>3, <1>4, HostCalls

-----------------------------------------------------------------------------
(* The steps of the streams                                                *)

\* What a step of stream s does: o, the head of its queue, starts or ends.
StepOf(s, o) ==
    /\ o = queue[s][1] /\ o = HeadOf(s) /\ queue[s] # << >>
    /\ UNCHANGED <<issued, pending, current, wanted>>
    /\ \A x \in Scratch \cup {Own} : o.op # "dequant" \/ x # o.b => buffer'[x] = buffer[x]
    /\ \A e \in Events : recorded'[e] >= recorded[e]
    /\ \A u \in Streams \ {s} : queue'[u] = queue[u] /\ running'[u] = running[u]
    /\ o.op = "wait" => recorded[o.e] >= o.n
    /\ \/ queue'[s] = queue[s] /\ recorded' = recorded
       \/ /\ queue'[s] = Tail(queue[s]) /\ running'[s] = FALSE
          /\ o.op = "dequant" => buffer'[o.b] = o.w
          /\ \A e \in Events : recorded'[e] =
                IF o.op = "record" /\ e = o.e THEN recorded[e] + 1 ELSE recorded[e]

LEMMA StreamSteps ==
    ASSUME HostInv, StreamInv, NEW s \in Streams, Gpu(s)
    PROVE  \E o \in Operation : StepOf(s, o)
<1>1. /\ queue \in [Streams -> Seq(Operation)] /\ running \in [Streams -> BOOLEAN]
      /\ recorded \in [Events -> Nat] /\ buffer \in [Scratch \cup {Own} -> Weights \cup {NoWeight, Garbage}]
      /\ (running[s] => queue[s] # << >>)
    BY DEF HostInv, WellTyped, TypeOK
<1>2. queue[s] # << >>
    BY <1>1 DEF Gpu, Start, Finish
<1>3. PICK o \in Operation : o = queue[s][1] /\ o = HeadOf(s)
    <2>1. queue[s] \in Seq(Operation) /\ Len(queue[s]) \in Nat /\ Len(queue[s]) # 0
        BY <1>1, <1>2, EmptySeq, LenProperties
    <2> QED
        BY <2>1, ElementOfSeq DEF HeadOf
<1>4. /\ o.op = "dequant" => o.b \in Scratch \cup {Own}
      /\ o.op = "record" => o.e \in Events
      /\ o.op = "wait" => o.e \in Events /\ o.n \in Nat
    BY <1>3 DEF Operation
<1>5. UNCHANGED <<issued, pending, current, wanted>>
    BY DEF Gpu, Start, Finish, prefetchVars
<1>6. CASE Start(s)
    <2>1. /\ running' = [running EXCEPT ![s] = TRUE]
          /\ o.op = "wait" => recorded[o.e] >= o.n
          /\ buffer' = IF o.op = "dequant" THEN [buffer EXCEPT ![o.b] = Garbage] ELSE buffer
          /\ queue' = queue /\ recorded' = recorded
        BY <1>3, <1>6 DEF Start
    <2>2. \A x \in Scratch \cup {Own} : o.op # "dequant" \/ x # o.b => buffer'[x] = buffer[x]
        BY <1>1, <2>1
    <2>3. \A e \in Events : recorded'[e] >= recorded[e]
        BY <1>1, <2>1
    <2>4. \A u \in Streams \ {s} : queue'[u] = queue[u] /\ running'[u] = running[u]
        BY <1>1, <2>1
    <2> QED
        BY <1>2, <1>3, <1>5, <2>1, <2>2, <2>3, <2>4 DEF StepOf
<1>7. CASE Finish(s)
    <2>1. /\ running' = [running EXCEPT ![s] = FALSE] /\ running[s]
          /\ buffer' = IF o.op = "dequant" THEN [buffer EXCEPT ![o.b] = o.w] ELSE buffer
          /\ recorded' = IF o.op = "record" THEN [recorded EXCEPT ![o.e] = @ + 1] ELSE recorded
          /\ queue' = [queue EXCEPT ![s] = Tail(queue[s])]
        BY <1>3, <1>7 DEF Finish
    <2>2. /\ \A x \in Scratch \cup {Own} : o.op # "dequant" \/ x # o.b => buffer'[x] = buffer[x]
          /\ o.op = "dequant" => buffer'[o.b] = o.w
        BY <1>1, <1>4, <2>1
    <2>3. \A e \in Events : recorded'[e] =
             IF o.op = "record" /\ e = o.e THEN recorded[e] + 1 ELSE recorded[e]
        BY <1>1, <1>4, <2>1
    <2>4. \A e \in Events : recorded'[e] >= recorded[e]
        BY <1>1, <2>3
    <2>5. /\ queue'[s] = Tail(queue[s]) /\ running'[s] = FALSE
          /\ \A u \in Streams \ {s} : queue'[u] = queue[u] /\ running'[u] = running[u]
        BY <1>1, <2>1
    <2>6. o.op = "wait" => recorded[o.e] >= o.n
        BY <1>3, <2>1 DEF StreamInv, Waited
    <2> QED
        BY <1>2, <1>3, <1>5, <2>2, <2>3, <2>4, <2>5, <2>6 DEF StepOf
<1> QED
    BY <1>6, <1>7 DEF Gpu

\* An operation that runs has waited; a record never takes that back.
LEMMA StreamWaited ==
    ASSUME HostInv, StreamInv, NEW s \in Streams, Gpu(s)
    PROVE  Waited'
<1>1. PICK o \in Operation :
             /\ o = queue[s][1] /\ o = HeadOf(s) /\ queue[s] # << >>
             /\ \A e \in Events : recorded'[e] >= recorded[e]
             /\ \A u \in Streams \ {s} : queue'[u] = queue[u] /\ running'[u] = running[u]
             /\ \/ /\ queue'[s] = queue[s] /\ recorded' = recorded
                   /\ o.op = "wait" => recorded[o.e] >= o.n
                \/ running'[s] = FALSE
    <2>1. PICK o \in Operation : StepOf(s, o)
        BY StreamSteps
    <2> QED
        BY <2>1 DEF StepOf
<1>2. recorded \in [Events -> Nat] /\ recorded' \in [Events -> Nat]
    <2>1. HostInv'
        BY GpuStepInv
    <2> QED
        BY <2>1 DEF HostInv, WellTyped, TypeOK
<1>3. ASSUME NEW u \in Streams, running'[u], queue'[u][1].op = "wait"
      PROVE  recorded'[queue'[u][1].e] >= queue'[u][1].n
    <2>1. CASE u = s
        BY <1>1, <1>3, <2>1
    <2>2. CASE u # s
        <3>1. queue'[u] = queue[u] /\ running[u] /\ queue[u][1].op = "wait"
            BY <1>1, <1>3, <2>2
        <3>2. recorded[queue[u][1].e] >= queue[u][1].n
            BY <3>1 DEF StreamInv, Waited, HeadOf
        <3>3. PICK v \in Operation : v = queue[u][1] /\ v.op = "wait"
            <4>1. queue[u] \in Seq(Operation) /\ queue[u] # << >>
                BY <3>1 DEF HostInv, WellTyped, TypeOK
            <4>2. Len(queue[u]) \in Nat /\ Len(queue[u]) # 0
                BY <4>1, EmptySeq, LenProperties
            <4>3. queue[u][1] \in Operation
                BY <4>1, <4>2, ElementOfSeq
            <4> QED
                BY <3>1, <4>3
        <3>4. v.e \in Events /\ v.n \in Nat
            BY <3>3 DEF Operation
        <3>5. recorded'[v.e] >= recorded[v.e] /\ recorded[v.e] >= v.n
            BY <1>1, <3>2, <3>3, <3>4
        <3>6. recorded'[v.e] >= v.n
            BY <1>2, <3>4, <3>5
        <3> QED
            BY <3>1, <3>3, <3>6
    <2> QED
        BY <2>1, <2>2
<1> QED
    BY <1>3 DEF Waited, HeadOf

\* The GEMMs' stream fills no buffer but its own, and frees one when it is used.
LEMMA GemmStream ==
    ASSUME HostInv, StreamInv, Gpu(1)
    PROVE  StreamInv'
<1>1. WellTyped /\ 1 \in Streams /\ Streams = {1, 2}
    BY DEF HostInv, Streams
<1>2. /\ issued \in [Events -> Nat] /\ recorded \in [Events -> Nat]
      /\ queue[1] \in Seq(Operation) /\ queue[2] \in Seq(Operation)
      /\ Hits \in Nat /\ HitsDone \in Nat /\ Fills \in Nat /\ FillsDone \in Nat /\ FillsDone <= Fills
    BY <1>1, CountTypes
<1>3. PICK W \in WeightsOfFills, num1 \in Sequences, num2 \in Sequences :
        /\ pending => W[Fills] = wanted
        /\ GemmQueue(queue[1], num1, W)
        /\ FillQueue(queue[2], num2, W)
        /\ Filled(W)
    BY DEF StreamInv
<1>4. PICK q1 \in Seq(Operation), q2 \in Seq(Operation), c \in Nat, d \in Nat :
           q1 = queue[1] /\ q2 = queue[2] /\ c = HitsDone /\ d = FillsDone
    BY <1>2
<1>5. PICK o \in Operation, x1 \in Seq(Operation) :
             /\ x1 = queue'[1] /\ o = q1[1] /\ q1 # << >>
             /\ UNCHANGED <<issued, pending, current, wanted>>
             /\ \A x \in Scratch \cup {Own} : o.op # "dequant" \/ x # o.b => buffer'[x] = buffer[x]
             /\ q2 = queue'[2]
             /\ \/ /\ x1 = q1 /\ recorded' = recorded
                \/ /\ x1 = Tail(q1)
                   /\ o.op = "wait" => recorded[o.e] >= o.n
                   /\ o.op = "dequant" => buffer'[o.b] = o.w
                   /\ \A e \in Events : recorded'[e] =
                         IF o.op = "record" /\ e = o.e THEN recorded[e] + 1 ELSE recorded[e]
    <2>1. PICK o \in Operation : StepOf(1, o)
        BY <1>1, StreamSteps
    <2>2. queue'[2] = queue[2]
        BY <1>1, <2>1 DEF StepOf
    <2>3. queue'[1] \in Seq(Operation)
        <3>1. HostInv'
            BY <1>1, GpuStepInv
        <3> QED
            BY <1>1, <3>1 DEF HostInv, WellTyped, TypeOK
    <2> QED
        BY <1>4, <2>1, <2>2, <2>3, Zenon DEF StepOf
<1>6. GemmQueue(q1, num1, W) /\ FillQueue(q2, num2, W)
    BY <1>3, <1>4
<1>7. Len(q1) \in Nat /\ Len(q2) \in Nat /\ 1 \in 1 .. Len(q1)
    <2>1. Len(q1) \in Nat /\ Len(q2) \in Nat /\ Len(q1) # 0
        BY <1>5, EmptySeq, LenProperties
    <2> QED
        BY <2>1
<1>8. GemmOp(o, c + 1, W) /\ num1[1] = c + 1
    BY <1>4, <1>5, <1>6, <1>7 DEF GemmQueue, Numbers
<1>9. \A x \in Scratch : buffer'[x] = buffer[x]
    BY <1>5, <1>8, Buffers DEF GemmOp
<1>10. \A n \in Int : Par(n) \in Scratch
    BY ParHalf DEF Scratch
<1>11. /\ recorded["free0"] = 1 + Half(c) /\ recorded["free1"] = 1 + Half(c + 1)
       /\ Counts
    BY <1>4 DEF StreamInv, Counts
<1>12. /\ FillsDone' = d /\ HitsDone' \in Nat /\ HitsDone' >= c
       /\ recorded'["free0"] = 1 + Half(HitsDone') /\ recorded'["free1"] = 1 + Half(HitsDone' + 1)
       /\ x1 # q1 => HitsDone' = IF o.op = "record" THEN c + 1 ELSE c
    <2>0. recorded' = recorded => FillsDone' = d /\ HitsDone' = c
        BY <1>4 DEF FillsDone, HitsDone
    <2>1. CASE x1 = q1 /\ recorded' = recorded
        BY <1>11, <2>0, <2>1
    <2>2. CASE \A e \in Events : recorded'[e] =
                  IF o.op = "record" /\ e = o.e THEN recorded[e] + 1 ELSE recorded[e]
        <3>1. CASE o.op # "record"
            <4>1. FillsDone' = d /\ HitsDone' = c /\ recorded'["free0"] = recorded["free0"]
                    /\ recorded'["free1"] = recorded["free1"]
                BY <1>4, <2>2, <3>1, Buffers DEF FillsDone, HitsDone
            <4> QED
                BY <1>11, <3>1, <4>1
        <3>2. CASE o.op = "record"
            <4>1. o.e = Free(Par(c + 1))
                BY <1>8, <3>2 DEF GemmOp
            <4>2. /\ Par(c) \in {0, 1} /\ Half(c) \in Int /\ Par(c + 1) = 1 - Par(c)
                  /\ Half(c + 1) = Half(c) + Par(c) /\ c = 2 * Half(c) + Par(c)
                  /\ Half((c + 1) + 1) = Half(c + 1) + Par(c + 1)
                <5>1. c \in Int /\ c + 1 \in Int
                    OBVIOUS
                <5>2. Half((c + 1) + 1) = Half(c + 1) + Par(c + 1)
                    BY <5>1, ParHalf
                <5> QED
                    BY <5>1, <5>2, ParHalf
            <4>3. CASE Par(c) = 0
                <5>1. o.e = "free1"
                    BY <4>1, <4>2, <4>3, Buffers
                <5>2. /\ recorded'["free0"] = 1 + Half(c) /\ recorded'["free1"] = 1 + Half(c + 1) + 1
                      /\ recorded'["ready"] = recorded["ready"]
                    BY <1>11, <2>2, <3>2, <5>1, Buffers
                <5>3. HitsDone' = c + 1 /\ FillsDone' = d
                    BY <1>4, <4>2, <4>3, <5>2 DEF HitsDone, FillsDone
                <5> QED
                    BY <3>2, <4>2, <4>3, <5>2, <5>3
            <4>4. CASE Par(c) = 1
                <5>1. o.e = "free0"
                    BY <4>1, <4>2, <4>4, Buffers
                <5>2. /\ recorded'["free0"] = 1 + Half(c) + 1 /\ recorded'["free1"] = 1 + Half(c + 1)
                      /\ recorded'["ready"] = recorded["ready"]
                    BY <1>11, <2>2, <3>2, <5>1, Buffers
                <5>3. HitsDone' = c + 1 /\ FillsDone' = d
                    BY <1>4, <4>2, <4>4, <5>2 DEF HitsDone, FillsDone
                <5> QED
                    BY <3>2, <4>2, <4>4, <5>2, <5>3
            <4> QED
                BY <4>2, <4>3, <4>4
        <3> QED
            BY <3>1, <3>2
    <2> QED
        BY <1>5, <2>1, <2>2
<1>13. Hits' = Hits /\ Fills' = Fills
    BY <1>5 DEF Hits, Fills
<1>14. PICK num3 \in Sequences : GemmQueue(x1, num3, W)'
    <2>1. CASE x1 = q1
        <3>1. \A i \in 0 .. Hits : W[i] = W[i]
            OBVIOUS
        <3>2. HitsDone' = c
            <4>1. x1 # Tail(q1)
                <5>1. Len(Tail(q1)) # Len(q1)
                    BY <1>5, <1>7, HeadTailProperties
                <5> QED
                    BY <2>1, <5>1
            <4> QED
                BY <1>4, <1>5, <4>1 DEF HitsDone
        <3>3. o.op = "gemm" => buffer'[Own] = buffer[Own]
            BY <1>5
        <3>4. /\ HitsDone' = HitsDone /\ FillsDone' \in Nat /\ FillsDone' >= FillsDone
              /\ Len(q1) > 0 /\ q1[1].op = "gemm" => buffer'[Own] = buffer[Own]
            BY <1>2, <1>4, <1>5, <1>12, <3>2, <3>3
        <3>5. GemmQueue(q1, num1, W)'
            BY <1>2, <1>6, <1>7, <1>13, <3>1, <3>4, GemmStays
        <3> QED
            BY <2>1, <3>5
    <2>2. CASE x1 # q1
        <3>1. /\ x1 = Tail(q1)
              /\ o.op = "wait" => recorded[o.e] >= o.n
              /\ o.op = "dequant" => buffer'[o.b] = o.w
            BY <1>5, <2>2
        <3>2. o.op = "wait" => FillsDone >= q1[1].n
            BY <1>5, <1>8, <3>1 DEF GemmOp, FillsDone
        <3>3. o.op = "dequant" => buffer'[Own] = q1[1].w
            BY <1>5, <1>8, <3>1 DEF GemmOp
        <3>4. HitsDone' = IF q1[1].op = "record" THEN HitsDone + 1 ELSE HitsDone
            BY <1>4, <1>5, <1>12, <2>2
        <3>5. FillsDone' = FillsDone /\ issued' = issued
            BY <1>4, <1>5, <1>12
        <3>6. \E num3 \in Sequences : GemmQueue(Tail(q1), num3, W)'
            BY <1>2, <1>5, <1>6, <3>2, <3>3, <3>4, <3>5, GemmDone
        <3> QED
            BY <3>1, <3>6
    <2> QED
        BY <2>1, <2>2
<1>15. FillQueue(q2, num2, W)'
    <2>1. buffer'[Par(FillsDone + 1)] = buffer[Par(FillsDone + 1)]
        BY <1>2, <1>9, <1>10
    <2> QED
        BY <1>2, <1>4, <1>6, <1>7, <1>12, <1>13, <2>1, FillStays
<1>16. Filled(W)'
    <2>0. PICK k \in Nat : k = HitsDone' /\ k >= c
        BY <1>12
    <2>1. ASSUME NEW n \in k + 1 .. d
          PROVE  buffer'[Par(n)] = W[n]
        <3>1. n \in c + 1 .. d /\ n \in Int
            <4>1. k >= c
                BY <2>0
            <4> QED
                BY <4>1
        <3>2. n \in HitsDone + 1 .. FillsDone
            BY <1>4, <3>1, Zenon
        <3>3. buffer[Par(n)] = W[n]
            BY <1>3, <3>2 DEF Filled
        <3> QED
            BY <1>9, <1>10, <3>1, <3>3
    <2>2. d = FillsDone'
        BY <1>12
    <2> QED
        BY <2>0, <2>1, <2>2, Zenon DEF Filled
<1>17. Counts'
    BY <1>2, <1>4, <1>5, <1>11, <1>12, <1>13 DEF Counts
<1>18. Waited'
    BY <1>1, StreamWaited
<1>19. GemmQueue(queue[1], num3, W)' /\ FillQueue(queue[2], num2, W)'
    BY <1>4, <1>5, <1>14, <1>15
<1>20. pending' => W[Fills'] = wanted'
    BY <1>3, <1>5, <1>13
<1> QED
    BY <1>14, <1>16, <1>17, <1>18, <1>19, <1>20 DEF StreamInv

\* The prefetching stream fills a buffer when the GEMM before has used it.
LEMMA FillStream ==
    ASSUME HostInv, StreamInv, Gpu(2)
    PROVE  StreamInv'
<1>1. WellTyped /\ 2 \in Streams /\ Streams = {1, 2}
    BY DEF HostInv, Streams
<1>2. /\ issued \in [Events -> Nat] /\ recorded \in [Events -> Nat]
      /\ queue[1] \in Seq(Operation) /\ queue[2] \in Seq(Operation)
      /\ Hits \in Nat /\ HitsDone \in Nat /\ Fills \in Nat /\ FillsDone \in Nat /\ FillsDone <= Fills
    BY <1>1, CountTypes
<1>3. PICK W \in WeightsOfFills, num1 \in Sequences, num2 \in Sequences :
        /\ pending => W[Fills] = wanted
        /\ GemmQueue(queue[1], num1, W)
        /\ FillQueue(queue[2], num2, W)
        /\ Filled(W)
    BY DEF StreamInv
<1>4. PICK q1 \in Seq(Operation), q2 \in Seq(Operation), c \in Nat, d \in Nat, n \in Nat \ {0} :
           q1 = queue[1] /\ q2 = queue[2] /\ c = HitsDone /\ d = FillsDone /\ n = d + 1
    <2>1. FillsDone + 1 \in Nat \ {0}
        BY <1>2
    <2> QED
        BY <1>2, <2>1
<1>5. PICK o \in Operation, x2 \in Seq(Operation) :
             /\ x2 = queue'[2] /\ o = q2[1] /\ q2 # << >>
             /\ UNCHANGED <<issued, pending, current, wanted>>
             /\ \A x \in Scratch \cup {Own} : o.op # "dequant" \/ x # o.b => buffer'[x] = buffer[x]
             /\ q1 = queue'[1]
             /\ o.op = "wait" => recorded[o.e] >= o.n
             /\ \/ x2 = q2 /\ recorded' = recorded
                \/ /\ x2 = Tail(q2)
                   /\ o.op = "dequant" => buffer'[o.b] = o.w
                   /\ \A e \in Events : recorded'[e] =
                         IF o.op = "record" /\ e = o.e THEN recorded[e] + 1 ELSE recorded[e]
    <2>1. PICK o \in Operation : StepOf(2, o)
        BY <1>1, StreamSteps
    <2>2. queue'[1] = queue[1]
        BY <1>1, <2>1 DEF StepOf
    <2>3. queue'[2] \in Seq(Operation)
        <3>1. HostInv'
            BY <1>1, GpuStepInv
        <3> QED
            BY <1>1, <3>1 DEF HostInv, WellTyped, TypeOK
    <2> QED
        BY <1>4, <2>1, <2>2, <2>3, Zenon DEF StepOf
<1>6. GemmQueue(q1, num1, W) /\ FillQueue(q2, num2, W)
    BY <1>3, <1>4
<1>7. Len(q1) \in Nat /\ Len(q2) \in Nat /\ 1 \in 1 .. Len(q2)
    <2>1. Len(q1) \in Nat /\ Len(q2) \in Nat /\ Len(q2) # 0
        BY <1>5, EmptySeq, LenProperties
    <2> QED
        BY <2>1
<1>8. FillOp(o, n, W) /\ FillNeeds(q2, 1, n, W) /\ n <= Fills
    <2>1. num2[1] = n
        BY <1>4, <1>6 DEF FillQueue, Numbers
    <2> QED
        BY <1>5, <1>6, <1>7, <2>1 DEF FillQueue, FillOp
<1>9. /\ Par(n) \in Scratch /\ Par(n) # Own /\ \A i \in Int : Par(i) \in Scratch
      /\ buffer'[Own] = buffer[Own]
      /\ o.op # "dequant" => \A x \in Scratch : buffer'[x] = buffer[x]
    <2>1. Par(n) \in {0, 1} /\ \A i \in Int : Par(i) \in {0, 1}
        <3>1. \A i \in Int : Par(i) \in {0, 1}
            BY ParHalf
        <3>2. n \in Int
            OBVIOUS
        <3> QED
            BY <3>1, <3>2
    <2>2. Par(n) \in Scratch /\ Par(n) # Own /\ \A i \in Int : Par(i) \in Scratch
        BY <2>1, Buffers
    <2>3. o.op = "dequant" => o.b = Par(n)
        BY <1>8 DEF FillOp
    <2> QED
        BY <1>5, <2>2, <2>3
<1>10. /\ recorded["free0"] = 1 + Half(c) /\ recorded["free1"] = 1 + Half(c + 1)
       /\ recorded["ready"] = d /\ Counts
    BY <1>4 DEF StreamInv, Counts, FillsDone
<1>11. /\ HitsDone' = c /\ FillsDone' \in Nat /\ FillsDone' >= d /\ FillsDone' <= Fills
       /\ recorded'["free0"] = recorded["free0"] /\ recorded'["free1"] = recorded["free1"]
       /\ x2 # q2 => FillsDone' = IF o.op = "record" THEN d + 1 ELSE d
       /\ FillsDone' = d \/ (FillsDone' = n /\ o.op = "record")
    <2>1. CASE x2 = q2 /\ recorded' = recorded
        BY <1>2, <1>4, <2>1 DEF FillsDone, HitsDone
    <2>2. CASE \A e \in Events : recorded'[e] =
                  IF o.op = "record" /\ e = o.e THEN recorded[e] + 1 ELSE recorded[e]
        <3>1. o.op = "record" => o.e = "ready"
            BY <1>8 DEF FillOp
        <3>2. recorded'["free0"] = recorded["free0"] /\ recorded'["free1"] = recorded["free1"]
            BY <2>2, <3>1, Buffers
        <3>3. HitsDone' = c
            BY <1>4, <3>2 DEF HitsDone
        <3>4. CASE o.op = "record"
            <4>1. FillsDone' = d + 1
                BY <1>10, <2>2, <3>1, <3>4, Buffers DEF FillsDone
            <4> QED
                BY <1>4, <1>8, <3>2, <3>3, <3>4, <4>1
        <3>5. CASE o.op # "record"
            <4>1. FillsDone' = d
                BY <1>10, <2>2, <3>5, Buffers DEF FillsDone
            <4> QED
                BY <1>2, <1>4, <3>2, <3>3, <3>5, <4>1
        <3> QED
            BY <3>4, <3>5
    <2> QED
        BY <1>5, <2>1, <2>2
<1>12. Hits' = Hits /\ Fills' = Fills
    BY <1>5 DEF Hits, Fills
<1>13. o.op = "wait" => c >= n - 2
    <2>1. SUFFICES ASSUME o.op = "wait"
                   PROVE  c >= n - 2
        OBVIOUS
    <2>2. PICK k \in Int : k = n - 1 + Par(n) /\ Par(n) \in {0, 1}
        <3>1. Par(n) \in {0, 1}
            BY ParHalf
        <3> QED
            BY <3>1
    <2>3. recorded[Free(Par(n))] >= 1 + Half(k)
        BY <1>5, <1>8, <2>1, <2>2 DEF FillOp
    <2>4. recorded[Free(Par(n))] = 1 + Half(c + Par(n))
        <3>1. CASE Par(n) = 0
            <4>1. c + Par(n) = c
                BY <3>1
            <4> QED
                BY <1>10, <3>1, <4>1, Buffers
        <3>2. CASE Par(n) = 1
            BY <1>10, <3>2, Buffers
        <3> QED
            BY <2>2, <3>1, <3>2
    <2>5. PICK j \in Int : j = c + Par(n)
        BY <2>2
    <2>6. Half(j) \in Int /\ Half(k) \in Int
        BY ParHalf
    <2>7. Half(j) >= Half(k)
        BY <2>3, <2>4, <2>5, <2>6
    <2>8. Half(c + Par(n)) >= Half(n - 1 + Par(n))
        BY <2>2, <2>5, <2>7
    <2> QED
        BY <2>8, TurnComes
<1>14. o.op = "dequant" => d <= c + 1
    BY <1>4, <1>5, <1>8 DEF FillNeeds
<1>15. PICK num3 \in Sequences : FillQueue(x2, num3, W)'
    <2>1. CASE x2 = q2
        <3>1. FillsDone' = FillsDone
            <4>1. x2 # Tail(q2)
                <5>1. Len(Tail(q2)) # Len(q2)
                    BY <1>5, <1>7, HeadTailProperties
                <5> QED
                    BY <2>1, <5>1
            <4> QED
                BY <1>5, <4>1 DEF FillsDone
        <3>2. /\ HitsDone' \in Nat /\ HitsDone' >= HitsDone
              /\ Len(q2) > 0 /\ q2[1].op = "record" =>
                    buffer'[Par(FillsDone + 1)] = buffer[Par(FillsDone + 1)]
            <4>1. HitsDone' = HitsDone
                BY <1>4, <1>11
            <4>2. FillsDone + 1 = n
                BY <1>4
            <4> QED
                BY <1>2, <1>5, <1>9, <4>1, <4>2
        <3>3. FillQueue(q2, num2, W)'
            BY <1>2, <1>6, <1>7, <1>12, <3>1, <3>2, FillStays
        <3> QED
            BY <2>1, <3>3
    <2>2. CASE x2 # q2
        <3>1. x2 = Tail(q2) /\ (o.op = "dequant" => buffer'[o.b] = o.w)
            BY <1>5, <2>2
        <3>2. q2[1].op = "wait" => HitsDone >= FillsDone + 1 - 2
            BY <1>4, <1>5, <1>13
        <3>3. q2[1].op = "dequant" => buffer'[q2[1].b] = q2[1].w
            BY <1>5, <3>1
        <3>4. FillsDone' = IF q2[1].op = "record" THEN FillsDone + 1 ELSE FillsDone
            BY <1>4, <1>5, <1>11, <2>2
        <3>5. HitsDone' = HitsDone /\ issued' = issued
            BY <1>4, <1>5, <1>11
        <3>6. \E num3 \in Sequences : FillQueue(Tail(q2), num3, W)'
            BY <1>2, <1>5, <1>6, <3>2, <3>3, <3>4, <3>5, FillDone
        <3> QED
            BY <3>1, <3>6
    <2> QED
        BY <2>1, <2>2
<1>16. GemmQueue(q1, num1, W)'
    <2>1. /\ \A i \in 0 .. Hits : W[i] = W[i]
          /\ HitsDone' = HitsDone /\ FillsDone' \in Nat /\ FillsDone' >= FillsDone
          /\ Len(q1) > 0 /\ q1[1].op = "gemm" => buffer'[Own] = buffer[Own]
        BY <1>4, <1>9, <1>11
    <2> QED
        BY <1>2, <1>6, <1>7, <1>12, <2>1, GemmStays
<1>17. Filled(W)'
    <2>1. ASSUME NEW i \in c + 1 .. d
          PROVE  buffer'[Par(i)] = W[i]
        <3>1. i \in HitsDone + 1 .. FillsDone
            BY <1>4, Zenon
        <3>2. buffer[Par(i)] = W[i]
            BY <1>3, <3>1 DEF Filled
        <3>3. CASE o.op # "dequant"
            BY <1>9, <3>2, <3>3
        <3>4. CASE o.op = "dequant"
            <4>1. i = d /\ n = i + 1
                BY <1>4, <1>14, <3>4
            <4>2. Par(n) = 1 - Par(i) /\ Par(i) \in {0, 1}
                <5>1. i \in Int
                    OBVIOUS
                <5>2. Par(i + 1) = 1 - Par(i) /\ Par(i) \in {0, 1}
                    BY <5>1, ParHalf
                <5> QED
                    BY <4>1, <5>2
            <4>3. o.b = Par(n) /\ Par(i) # Par(n)
                BY <1>8, <3>4, <4>2 DEF FillOp
            <4> QED
                BY <1>5, <1>9, <3>2, <4>3
        <3> QED
            BY <3>3, <3>4
    <2>2. ASSUME o.op = "record"
          PROVE  buffer'[Par(n)] = W[n]
        BY <1>5, <1>8, <1>9, <2>2 DEF FillNeeds
    <2>3. ASSUME NEW i \in HitsDone' + 1 .. FillsDone'
          PROVE  buffer'[Par(i)] = W[i]
        <3>1. CASE FillsDone' = d
            BY <1>11, <2>1, <3>1
        <3>2. CASE FillsDone' = n /\ o.op = "record"
            <4>1. i \in c + 1 .. n
                BY <1>11, <3>2
            <4>2. i = n \/ i \in c + 1 .. d
                BY <1>4, <4>1
            <4> QED
                BY <2>1, <2>2, <3>2, <4>2
        <3> QED
            BY <1>11, <3>1, <3>2
    <2> QED
        BY <2>3 DEF Filled
<1>18. Counts'
    BY <1>2, <1>4, <1>5, <1>10, <1>11, <1>12 DEF Counts
<1>19. Waited'
    BY <1>1, StreamWaited
<1>20. GemmQueue(queue[1], num1, W)' /\ FillQueue(queue[2], num3, W)'
    BY <1>4, <1>5, <1>15, <1>16
<1>21. pending' => W[Fills'] = wanted'
    BY <1>3, <1>5, <1>12
<1> QED
    BY <1>15, <1>17, <1>18, <1>19, <1>20, <1>21 DEF StreamInv

-----------------------------------------------------------------------------
(* The result                                                              *)

LEMMA NextStream == HostInv /\ StreamInv /\ [Next]_vars => StreamInv'
<1> SUFFICES ASSUME HostInv, StreamInv, [Next]_vars
             PROVE  StreamInv'
    OBVIOUS
<1>1. CASE Host
    BY <1>1, HostStream
<1>2. ASSUME NEW s \in Streams, Gpu(s)
      PROVE  StreamInv'
    BY <1>2, GemmStream, FillStream DEF Streams
<1>3. CASE UNCHANGED vars
    <2>1. UNCHANGED <<prefetchVars, gpuVars>> /\ WellTyped
        BY <1>3 DEF vars, HostInv
    <2> QED
        BY <2>1, SameStream
<1> QED
    BY <1>1, <1>2, <1>3 DEF Next, Done

\* A GEMM at the head of its queue is on its own buffer, just filled, or on a
\* prefetch that is done and not used yet.
LEMMA HeadGemm == HostInv /\ StreamInv => GemmReadsItsWeights
<1> SUFFICES ASSUME HostInv, StreamInv, running[1], HeadOf(1).op = "gemm"
             PROVE  buffer[HeadOf(1).b] = HeadOf(1).w
    BY DEF GemmReadsItsWeights
<1>1. WellTyped /\ 1 \in Streams
    BY DEF HostInv, Streams
<1>2. queue[1] \in Seq(Operation) /\ HitsDone \in Nat /\ FillsDone \in Nat
    BY <1>1, CountTypes
<1>3. PICK W \in WeightsOfFills, num1 \in Sequences :
        GemmQueue(queue[1], num1, W) /\ Filled(W)
    BY DEF StreamInv
<1>4. PICK n \in Nat : n = num1[1] /\ n = HitsDone + 1
    BY <1>2, <1>3 DEF GemmQueue, Numbers
<1>5. 1 \in 1 .. Len(queue[1])
    <2>1. Len(queue[1]) \in Nat /\ Len(queue[1]) # 0
        BY <1>1, <1>2, EmptySeq, LenProperties DEF WellTyped
    <2> QED
        BY <2>1
<1>6. PICK o : o = HeadOf(1) /\ GemmOp(o, n, W) /\ GemmNeeds(queue[1], 1, n) /\ o = queue[1][1]
    BY <1>3, <1>4, <1>5 DEF GemmQueue, HeadOf
<1>7. CASE o.b = Own
    BY <1>6, <1>7 DEF GemmNeeds
<1>8. CASE o.b # Own
    <2>1. n <= FillsDone
        BY <1>6, <1>8 DEF GemmNeeds
    <2>2. n \in HitsDone + 1 .. FillsDone
        BY <1>2, <1>4, <2>1
    <2>3. buffer[Par(n)] = W[n]
        BY <1>3, <2>2 DEF Filled
    <2> QED
        BY <1>6, <1>8, <2>3 DEF GemmOp
<1> QED
    BY <1>7, <1>8

LEMMA StreamAlways == Spec => [](HostInv /\ StreamInv)
<1>1. Init => HostInv /\ StreamInv
    BY InitHostInv, InitStream
<1>2. HostInv /\ StreamInv /\ [Next]_vars => (HostInv /\ StreamInv)'
    BY NextHostInv, NextStream
<1> QED
    BY <1>1, <1>2, PTL DEF Spec

\* A GEMM reads its own weights from start to end, in every interleaving of the
\* two streams and however far the host is ahead of both: the events of
\* prefetch and lin_multi (qwen35.cpp:166-233) are enough, for any number of
\* layers and any passes.
THEOREM GemmsReadTheirWeights == Spec => []GemmReadsItsWeights
<1> QED
    BY HeadGemm, StreamAlways, PTL
=============================================================================
