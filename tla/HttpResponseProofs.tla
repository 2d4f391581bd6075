------------------------- MODULE HttpResponseProofs -------------------------
(***************************************************************************)
(* Proofs about HttpResponse, for any vocabulary, any request and any      *)
(* length of a generation or of a state stream.                            *)
(*                                                                         *)
(* OneResponse says nothing of the two threads, so it is not inductive:    *)
(* WireInv ties the wire to the two flags of the Response, and FlowInv     *)
(* says which thread may write next and what it relies on.  TextOfTokens   *)
(* says nothing of the bytes held back but that they complete the text:    *)
(* TextInv adds that they are the beginning of one character.              *)
(***************************************************************************)
EXTENDS HttpResponse, SequenceFacts

Words == Chunks \cup {"full", "head", "end"}

\* A stream that is still going on, and one that was terminated.
Going(w) == w \in Seq(Words) /\ Len(w) > 0 /\ w[1] = "head" /\ \A i \in 2 .. Len(w) : w[i] \in Chunks
Ended(w) == \E v \in Seq(Words) : Going(v) /\ w = Append(v, "end")

\* The flags of the Response are true of the wire.
WireInv ==
    /\ here \in BOOLEAN /\ streaming \in BOOLEAN /\ done \in BOOLEAN
    /\ ~streaming /\ ~done => wire = << >>
    /\ ~streaming /\ done => wire = <<"full">>
    /\ streaming /\ ~done => Going(wire)
    /\ streaming /\ done => Ended(wire)

\* The answer is complete.
Complete ==
    \/ ~streaming /\ done /\ plan.what \in {"send", "throw", "plain"}
    \/ /\ streaming /\ done /\ plan.what = "stream"
       /\ \/ wire[Len(wire) - 1] = "[DONE]" /\ job = "done"
          \/ wire[Len(wire) - 1] = "error" /\ job = "none"

\* What the thread relies on where it is.
FlowInv ==
    /\ pc = "receive" => plan = NoPlan
    /\ pc \in {"receive", "handle"} => ~streaming /\ ~done
    /\ pc = "handle" => plan.what \in {"throw", "send", "sse", "stream", "plain"}
    /\ pc \in {"event", "alive"} => plan.what = "sse" /\ streaming /\ ~done
    /\ pc \in {"generate", "wait"} =>
          ~done /\ plan.what = (IF streaming THEN "stream" ELSE "plain")
    /\ pc = "last" => plan.what = "stream" /\ streaming /\ ~done /\ job = "done"
    /\ pc = "catch" => ~done
    /\ pc = "catch" /\ here =>
          /\ job = "none"
          /\ plan.what \in (IF streaming THEN {"stream"} ELSE {"throw", "plain"})
    /\ pc \in {"end", "closed"} /\ here /\ plan # NoPlan => Complete
    /\ pc \in {"receive", "handle", "generate"} => job = "none"
    /\ job \in {"running", "flushed"} => pc = "wait"

HttpInv == WireInv /\ FlowInv

-----------------------------------------------------------------------------
(* What a write does to a stream.                                          *)

LEMMA ChunkGoing ==
    ASSUME NEW w, Going(w), NEW c \in Chunks
    PROVE  Going(w \o <<c>>) /\ Append(w, c) = w \o <<c>>
<1>1. w \in Seq(Words) /\ c \in Words
    BY DEF Going, Words
<1>2. Append(w, c) \in Seq(Words) /\ Append(w, c) = w \o <<c>>
    BY <1>1
<1>3. Going(Append(w, c))
    BY <1>1, <1>2 DEF Going
<1> QED
    BY <1>2, <1>3

LEMMA EndEnds ==
    ASSUME NEW w, Going(w)
    PROVE  Ended(Append(w, "end")) /\ Ended(w \o <<"end">>)
<1>1. w \in Seq(Words) /\ Append(w, "end") = w \o <<"end">>
    BY DEF Going, Words
<1> QED
    BY <1>1 DEF Ended

\* A chunk and the end in one write.
LEMMA LastEnds ==
    ASSUME NEW w, Going(w), NEW c \in Chunks
    PROVE  /\ Ended(w \o <<c, "end">>)
           /\ (w \o <<c, "end">>)[Len(w \o <<c, "end">>) - 1] = c
<1> DEFINE v == w \o <<c>>
<1>1. w \in Seq(Words) /\ c \in Words /\ "end" \in Words
    BY DEF Going, Words
<1>2. Going(v)
    BY ChunkGoing
<1>3. w \o <<c, "end">> = Append(v, "end")
    BY <1>1
<1>4. Append(v, "end")[Len(Append(v, "end")) - 1] = c
    BY <1>1
<1> QED
    BY <1>2, <1>3, <1>4, EndEnds

\* The head of a stream.
LEMMA HeadGoes == Going(<< >> \o <<"head">>)
BY DEF Going, Words

\* What follows from the invariant about the wire.
LEMMA WireIsOneResponse ==
    ASSUME WireInv
    PROVE  OneResponse
<1>1. \A w : Going(w) => \A i \in DOMAIN w : (w[i] \in {"full", "head"} <=> i = 1) /\ w[i] # "full" /\ w[i] # "end"
    BY DEF Going, Chunks
<1>2. CASE ~streaming
    <2>1. CASE wire = << >>
        BY <2>1 DEF OneResponse
    <2>2. CASE wire = <<"full">>
        <3>1. DOMAIN wire = {1} /\ Len(wire) = 1 /\ wire[1] = "full"
            BY <2>2
        <3> QED
            BY <3>1 DEF OneResponse
    <2> QED
        BY <1>2, <2>1, <2>2 DEF WireInv
<1>3. CASE streaming /\ ~done
    BY <1>1, <1>3 DEF WireInv, OneResponse
<1>4. CASE streaming /\ done
    <2>1. PICK v \in Seq(Words) : Going(v) /\ wire = Append(v, "end")
        BY <1>4 DEF WireInv, Ended
    <2>2. Len(v) > 0
        BY <2>1 DEF Going
    <2>3. \A i \in DOMAIN wire :
              \/ i \in DOMAIN v /\ wire[i] = v[i]
              \/ i = Len(wire) /\ i # 1 /\ wire[i] = "end"
        BY <2>1, <2>2
    <2> QED
        BY <1>1, <2>1, <2>2, <2>3 DEF OneResponse
<1> QED
    BY <1>2, <1>3, <1>4 DEF WireInv

-----------------------------------------------------------------------------

LEMMA InitHttpInv == Init => HttpInv
BY DEF Init, HttpInv, WireInv, FlowInv, NoPlan

\* The handler is told one of five things to do.
LEMMA RouteKnown ==
    ASSUME NEW r \in Requests
    PROVE  Route(r).what \in {"throw", "send", "sse", "stream", "plain"}
BY DEF Route, Answer, Throw

\* A step that writes nothing and leaves the flags alone.
LEMMA WireFrame ==
    ASSUME WireInv, here' \in BOOLEAN, UNCHANGED <<streaming, done, wire>>
    PROVE  WireInv'
BY DEF WireInv, Going, Ended

\* Steps before the first write, and the client's.
LEMMA EarlyHttpInv ==
    ASSUME HttpInv,
           \/ ClientLeaves \/ CutShort \/ Generate
           \/ \E r \in Requests : Receive(r)
    PROVE  HttpInv'
<1> USE DEF HttpInv
<1>1. WireInv'
    <2>1. here' \in BOOLEAN /\ UNCHANGED <<streaming, done, wire>>
        BY DEF ClientLeaves, CutShort, Generate, Receive, WireInv
    <2> QED
        BY <2>1, WireFrame
<1>2. CASE ClientLeaves
    BY <1>1, <1>2 DEF ClientLeaves, FlowInv, jobVars, WireInv
<1>3. CASE CutShort
    BY <1>1, <1>3 DEF CutShort, FlowInv, jobVars, Throw, WireInv, NoPlan
<1>4. CASE Generate
    BY <1>1, <1>4 DEF Generate, FlowInv, WireInv
<1>5. CASE \E r \in Requests : Receive(r)
    <2>1. PICK r \in Requests : Receive(r)
        BY <1>5
    <2> QED
        BY <1>1, <2>1, RouteKnown DEF Receive, FlowInv, jobVars, WireInv
<1> QED
    BY <1>2, <1>3, <1>4, <1>5

\* The handler's first write, and the state stream.
LEMMA HandleHttpInv ==
    ASSUME HttpInv, Handle
    PROVE  HttpInv'
<1> USE DEF HttpInv
<1>0. pc = "handle" /\ ~streaming /\ ~done /\ wire = << >> /\ job = "none"
      /\ UNCHANGED <<here, plan, job>> /\ here \in BOOLEAN
      /\ plan.what \in {"throw", "send", "sse", "stream", "plain"}
    BY DEF Handle, FlowInv, WireInv, jobVars
<1>1. CASE plan.what \in {"throw", "plain"}
    <2>1. UNCHANGED <<streaming, done, wire>> /\ pc' = IF plan.what = "throw" THEN "catch" ELSE "generate"
        BY <1>0, <1>1 DEF Handle
    <2>2. WireInv'
        BY <1>0, <2>1, WireFrame
    <2> QED
        BY <1>0, <1>1, <2>1, <2>2 DEF FlowInv
<1>2. CASE plan.what = "send"
    <2>1. /\ UNCHANGED streaming /\ done' = here
          /\ IF here THEN wire' = << >> \o <<"full">> /\ pc' = "end" ELSE UNCHANGED wire /\ pc' = "catch"
        BY <1>0, <1>2 DEF Handle, Send, Write
    <2>2. WireInv'
        BY <1>0, <2>1 DEF WireInv
    <2> QED
        BY <1>0, <1>2, <2>1, <2>2 DEF FlowInv, Complete
<1>3. CASE plan.what \in {"sse", "stream"}
    <2>1. /\ UNCHANGED done /\ streaming' = here
          /\ IF here THEN /\ wire' = << >> \o <<"head">>
                          /\ pc' = IF plan.what = "sse" THEN "event" ELSE "generate"
             ELSE UNCHANGED wire /\ pc' = "catch"
        BY <1>0, <1>3 DEF Handle, BeginStream, Write
    <2>2. WireInv'
        BY <1>0, <2>1, HeadGoes DEF WireInv
    <2> QED
        BY <1>0, <1>3, <2>1, <2>2 DEF FlowInv, Complete
<1> QED
    BY <1>0, <1>1, <1>2, <1>3

LEMMA StateEventHttpInv ==
    ASSUME HttpInv, StateEvent
    PROVE  HttpInv'
<1> USE DEF HttpInv
<1>1. /\ pc \in {"event", "alive"} /\ plan.what = "sse" /\ streaming /\ ~done /\ Going(wire)
      /\ UNCHANGED <<here, plan, streaming, done, job>> /\ here \in BOOLEAN
    BY DEF StateEvent, FlowInv, WireInv, jobVars
<1>2. \/ here /\ pc' = "alive" /\ \E c \in Chunks : wire' = wire \o <<c>>
      \/ ~here /\ pc' = "catch" /\ UNCHANGED wire
    BY <1>1 DEF StateEvent, Write, Chunks, AliveFails
<1>3. WireInv'
    BY <1>1, <1>2, ChunkGoing DEF WireInv
<1> QED
    BY <1>1, <1>2, <1>3 DEF FlowInv

\* The end of a generation.
LEMMA FinishHttpInv ==
    ASSUME HttpInv, WaitDone \/ LastChunk
    PROVE  HttpInv'
<1> USE DEF HttpInv
<1>1. CASE WaitDone
    <2>0. /\ pc = "wait" /\ job = "done" /\ ~done /\ here \in BOOLEAN /\ streaming \in BOOLEAN
          /\ plan.what = (IF streaming THEN "stream" ELSE "plain")
          /\ UNCHANGED <<here, plan, streaming, job>>
        BY <1>1 DEF WaitDone, FlowInv, WireInv, jobVars
    <2>1. CASE streaming
        <3>1. /\ UNCHANGED done /\ Going(wire)
              /\ IF here THEN wire' = wire \o <<"final">> /\ pc' = "last" ELSE UNCHANGED wire /\ pc' = "catch"
            BY <1>1, <2>0, <2>1 DEF WaitDone, Write, WireInv
        <3>2. Going(wire')
            BY <3>1, ChunkGoing DEF Chunks
        <3>3. WireInv'
            BY <2>0, <2>1, <3>1, <3>2 DEF WireInv
        <3> QED
            BY <2>0, <2>1, <3>1, <3>3 DEF FlowInv
    <2>2. CASE ~streaming
        <3>1. /\ done' = here /\ wire = << >>
              /\ IF here THEN wire' = << >> \o <<"full">> /\ pc' = "end" ELSE UNCHANGED wire /\ pc' = "catch"
            BY <1>1, <2>0, <2>2 DEF WaitDone, Send, Write, WireInv
        <3>2. WireInv'
            BY <2>0, <2>2, <3>1 DEF WireInv
        <3> QED
            BY <2>0, <2>2, <3>1, <3>2 DEF FlowInv, Complete
    <2> QED
        BY <2>0, <2>1, <2>2
<1>2. CASE LastChunk
    <2>1. /\ pc = "last" /\ streaming /\ ~done /\ plan.what = "stream" /\ job = "done" /\ Going(wire)
          /\ here \in BOOLEAN /\ UNCHANGED <<here, plan, streaming, job>>
        BY <1>2 DEF LastChunk, FlowInv, WireInv, jobVars
    <2>2. /\ done' = here
          /\ IF here THEN wire' = wire \o <<"[DONE]", "end">> /\ pc' = "end"
             ELSE UNCHANGED wire /\ pc' = "catch"
        BY <1>2, <2>1 DEF LastChunk, Write, Unended
    <2>3. here => Ended(wire') /\ wire'[Len(wire') - 1] = "[DONE]"
        BY <2>1, <2>2, LastEnds DEF Chunks
    <2>4. WireInv'
        BY <2>1, <2>2, <2>3 DEF WireInv
    <2> QED
        BY <2>1, <2>2, <2>3, <2>4 DEF FlowInv, Complete
<1> QED
    BY <1>1, <1>2

\* The error path, and the end of the connection.
LEMMA CloseHttpInv ==
    ASSUME HttpInv, Catch \/ Close
    PROVE  HttpInv'
<1> USE DEF HttpInv
<1>1. CASE Catch
    <2>1. /\ pc = "catch" /\ pc' = "end" /\ ~done /\ here \in BOOLEAN /\ streaming \in BOOLEAN
          /\ UNCHANGED <<here, plan, streaming, job>>
        BY <1>1 DEF Catch, FlowInv, WireInv, jobVars
    <2>2. CASE ~here
        <3>1. UNCHANGED <<wire, done>>
            BY <1>1, <2>2 DEF Catch
        <3> QED
            BY <2>1, <2>2, <3>1, WireFrame DEF FlowInv
    <2>3. CASE here /\ streaming
        <3>1. wire' = wire \o <<"error", "end">> /\ done' = TRUE /\ Going(wire)
            BY <1>1, <2>1, <2>3 DEF Catch, Unended, WireInv
        <3>2. Ended(wire') /\ wire'[Len(wire') - 1] = "error"
            BY <3>1, LastEnds DEF Chunks
        <3>3. WireInv'
            BY <2>1, <2>3, <3>1, <3>2 DEF WireInv
        <3> QED
            BY <2>1, <2>3, <3>1, <3>2, <3>3 DEF FlowInv, Complete
    <2>4. CASE here /\ ~streaming
        <3>1. wire' = << >> \o <<"full">> /\ done' = TRUE
            BY <1>1, <2>1, <2>4 DEF Catch, WireInv
        <3>2. WireInv'
            BY <2>1, <2>4, <3>1 DEF WireInv
        <3> QED
            BY <2>1, <2>4, <3>1, <3>2 DEF FlowInv, Complete
    <2> QED
        BY <2>1, <2>2, <2>3, <2>4
<1>2. CASE Close
    <2>1. /\ pc = "end" /\ pc' = "closed" /\ here \in BOOLEAN /\ UNCHANGED <<here, plan, streaming, job>>
        BY <1>2 DEF Close, WireInv, jobVars
    <2>2. CASE here /\ Unended
        <3>1. wire' = Append(wire, "end") /\ done' = TRUE /\ Going(wire) /\ streaming
            BY <1>2, <2>2 DEF Close, Unended, WireInv
        <3>2. WireInv'
            BY <2>1, <2>2, <3>1, EndEnds DEF WireInv
        <3>3. plan = NoPlan
            BY <2>1, <2>2 DEF FlowInv, Complete, Unended
        <3> QED
            BY <2>1, <3>2, <3>3 DEF FlowInv
    <2>3. CASE ~(here /\ Unended)
        <3>1. UNCHANGED <<wire, done>>
            BY <1>2, <2>3 DEF Close
        <3> QED
            BY <2>1, <3>1, WireFrame DEF FlowInv, Complete
    <2> QED
        BY <2>2, <2>3
<1> QED
    BY <1>1, <1>2

\* The scheduler thread writes only while the handler waits, and only chunks.
LEMMA SchedulerHttpInv ==
    ASSUME HttpInv, SchedulerThread \/ \E id \in Tokens : Out(id)
    PROVE  HttpInv'
<1> USE DEF HttpInv
<1>1. /\ UNCHANGED <<here, pc, plan, streaming, done>> /\ here \in BOOLEAN
      /\ job \in {"running", "flushed"}
      /\ job' \in {"running", "flushed", "done"}
    BY DEF SchedulerThread, Flush, SignalDone, Out, WireInv
<1>2. pc = "wait" /\ ~done /\ plan.what = (IF streaming THEN "stream" ELSE "plain")
    BY <1>1 DEF FlowInv
<1>3. UNCHANGED wire \/ (streaming /\ wire' = Append(wire, "delta"))
    <2>1. ASSUME NEW bytes, Emit(bytes)
          PROVE  UNCHANGED wire \/ (streaming /\ wire' = Append(wire, "delta"))
        BY <2>1, <1>2 DEF Emit
    <2> QED
        BY <2>1 DEF SchedulerThread, Flush, SignalDone, Out
<1>4. WireInv'
    BY <1>1, <1>2, <1>3, WireFrame, ChunkGoing DEF WireInv, Chunks
<1> QED
    BY <1>1, <1>2, <1>4 DEF FlowInv

LEMMA NextHttpInv == HttpInv /\ [Next]_vars => HttpInv'
<1> SUFFICES ASSUME HttpInv, [Next]_vars
             PROVE  HttpInv'
    OBVIOUS
<1>1. CASE UNCHANGED vars
    BY <1>1, WireFrame DEF vars, HttpInv, FlowInv, Complete, WireInv
<1> QED
    BY <1>1, EarlyHttpInv, HandleHttpInv, StateEventHttpInv, FinishHttpInv, CloseHttpInv, SchedulerHttpInv
       DEF Next, Thread

\* One response and one terminator leave on a connection, whatever is asked,
\* however long it runs and wherever an exception or a leaving client cuts in
\* (front/http.cpp 14 to 47, the handler of serve.cpp).
THEOREM OneResponseLeaves == Spec => []OneResponse
<1>1. HttpInv => OneResponse
    BY WireIsOneResponse DEF HttpInv
<1> QED
    BY InitHttpInv, NextHttpInv, <1>1, PTL DEF Spec

\* Whoever stays is answered in full: a stream of text has its final words, an
\* error after the stream began is said in the stream (front/http.cpp 46).
THEOREM WhoStaysIsAnswered == Spec => []Answered
<1>1. HttpInv => Answered
    <2> SUFFICES ASSUME HttpInv, pc = "closed", here, plan # NoPlan
                 PROVE  \/ wire = <<"full">> /\ plan.what \in {"send", "throw", "plain"}
                        \/ /\ plan.what = "stream"
                           /\ wire[Len(wire)] = "end"
                           /\ \/ wire[Len(wire) - 1] = "[DONE]" /\ job = "done"
                              \/ wire[Len(wire) - 1] = "error" /\ job = "none"
        BY DEF Answered
    <2>1. Complete /\ WireInv
        BY DEF HttpInv, FlowInv
    <2>2. Ended(wire) => wire[Len(wire)] = "end"
        BY DEF Ended
    <2> QED
        BY <2>1, <2>2 DEF Complete, WireInv
<1> QED
    BY InitHttpInv, NextHttpInv, <1>1, PTL DEF Spec

-----------------------------------------------------------------------------
(* Sequences.                                                              *)

\* The greatest of some numbers up to n.
LEMMA MaxNat ==
    ASSUME NEW n \in Nat, NEW S, S \subseteq 0 .. n, S # {}
    PROVE  Max(S) \in S /\ \A x \in S : x <= Max(S)
<1> DEFINE T == {n - x : x \in S}
<1>0. \A x \in S : x \in 0 .. n
    OBVIOUS
<1>1. T \subseteq Nat /\ T # {}
    <2>1. \A x \in S : n - x \in Nat
        BY <1>0
    <2> QED
        BY <2>1, Zenon
<1>2. PICK d \in T : \A e \in T : d <= e
    BY <1>1, LeastNat, Zenon
<1>3. PICK m \in S : d = n - m
    BY <1>2
<1>4. \A x \in S : m >= x
    <2> TAKE x \in S
    <2>1. n - x \in T
        BY DEF T
    <2>2. d <= n - x
        BY <1>2, <2>1, Zenon
    <2>3. x \in 0 .. n /\ m \in 0 .. n
        BY <1>0
    <2> QED
        BY <1>3, <2>2, <2>3
<1>5. Max(S) \in S /\ \A x \in S : Max(S) >= x
    BY <1>4, Zenon DEF Max
<1>6. Max(S) \in 0 .. n
    BY <1>0, <1>5, Zenon
<1> QED
    BY <1>0, <1>5, <1>6

\* The greatest of some numbers up to n is the one that none exceeds.
LEMMA MaxIs ==
    ASSUME NEW n \in Nat, NEW S, S \subseteq 0 .. n, NEW m \in S, \A x \in S : x <= m
    PROVE  Max(S) = m
<1>1. Max(S) \in S /\ m <= Max(S)
    BY MaxNat
<1>2. Max(S) \in 0 .. n /\ m \in 0 .. n /\ Max(S) <= m
    BY <1>1, Zenon
<1> QED
    BY <1>1, <1>2

\* One part more at the end of what is flattened.
LEMMA FlattenAppend ==
    ASSUME NEW S, NEW w \in Seq(Seq(S)), NEW x \in Seq(S)
    PROVE  FlattenSeq(Append(w, x)) = FlattenSeq(w) \o x /\ FlattenSeq(w) \in Seq(S)
<1> DEFINE v == Append(w, x)
<1>1. PICK n \in Nat : n = Len(w)
    OBVIOUS
<1>2. v \in Seq(Seq(S)) /\ v # << >> /\ Len(v) = n + 1 /\ v[n + 1] = x /\ \A i \in 1 .. n : v[i] = w[i]
    BY <1>1
<1> HIDE DEF v
<1>a. v \in Seq(Seq(S)) /\ v # << >>
    BY <1>2
<1>3. PICK g \in [1 .. Len(v) -> Seq(S)] :
          FlattenSeq(v) = g[Len(v)] /\ g[1] = v[1] /\ \A i \in 2 .. Len(v) : g[i] = g[i - 1] \o v[i]
    BY <1>a, FlattenUnfolds
<1>4. CASE n = 0
    <2>1. FlattenSeq(v) = x
        BY <1>2, <1>3, <1>4
    <2>2. w = << >> /\ FlattenSeq(w) = << >>
        <3>1. w = << >>
            <4>1. Len(w) = 0
                BY <1>1, <1>4
            <4> QED
                BY <4>1
        <3> QED
            BY <3>1 DEF FlattenSeq
    <2>3. << >> \o x = x /\ << >> \in Seq(S)
        OBVIOUS
    <2> QED
        BY <2>1, <2>2, <2>3 DEF v
<1>5. CASE n # 0
    <2>1. w # << >>
        BY <1>1, <1>5
    <2>2. PICK f \in [1 .. Len(w) -> Seq(S)] :
              FlattenSeq(w) = f[Len(w)] /\ f[1] = w[1] /\ \A i \in 2 .. Len(w) : f[i] = f[i - 1] \o w[i]
        BY <2>1, FlattenUnfolds
    <2> DEFINE T == {i \in 1 .. n : f[i] # g[i]}
    <2>3. T = {}
        <3> SUFFICES ASSUME T # {}
                     PROVE  FALSE
            OBVIOUS
        <3>1. T \subseteq Nat
            OBVIOUS
        <3>2. PICK i \in T : \A m \in T : i <= m
            BY <3>1, LeastNat, Zenon
        <3>3. i \in 1 .. n /\ f[i] # g[i]
            BY <3>2
        <3>4. i # 1
            BY <1>2, <1>3, <2>2, <3>3
        <3>5. i - 1 \in 1 .. n /\ i - 1 \notin T
            BY <3>2, <3>3, <3>4
        <3>6. f[i - 1] = g[i - 1]
            BY <3>5
        <3>9. i \in 2 .. Len(w) /\ i \in 2 .. Len(v) /\ i \in 1 .. n
            BY <1>1, <1>2, <3>3, <3>4
        <3>7. f[i] = f[i - 1] \o w[i]
            BY <2>2, <3>9, Zenon
        <3>8. g[i] = g[i - 1] \o v[i] /\ v[i] = w[i]
            BY <1>2, <1>3, <3>9, Zenon
        <3> QED
            BY <3>3, <3>6, <3>7, <3>8
    <2>4. f[n] = g[n] /\ n \in 1 .. Len(w)
        <3>1. n \in 1 .. n /\ n \in 1 .. Len(w)
            BY <1>1, <1>5
        <3> QED
            BY <2>3, <3>1, Zenon
    <2>5. g[n + 1] = g[n] \o v[n + 1]
        <3>1. n + 1 \in 2 .. Len(v) /\ (n + 1) - 1 = n
            BY <1>2, <1>5
        <3> QED
            BY <1>3, <3>1
    <2>6. FlattenSeq(w) = f[n] /\ f[n] \in Seq(S)
        BY <1>1, <2>2, <2>4
    <2> QED
        BY <1>2, <1>3, <2>4, <2>5, <2>6 DEF v
<1> QED
    BY <1>4, <1>5

-----------------------------------------------------------------------------
(* The flag and the bytes of one token more.                               *)

LEMMA TagsBounded ==
    ASSUME NEW s \in Seq(Tokens)
    PROVE  Tags(s) \subseteq 0 .. Len(s) /\ Len(s) \in Nat
BY DEF Tags

LEMMA FlagBoolean ==
    ASSUME NEW s \in Seq(Tokens), NEW t \in BOOLEAN
    PROVE  FlagAfter(s, t) \in BOOLEAN
BY DEF FlagAfter

LEMMA FlagAppend ==
    ASSUME NEW s \in Seq(Tokens), NEW id \in Tokens, NEW t \in BOOLEAN
    PROVE  FlagAfter(Append(s, id), t) =
               IF id \in {ThinkOpen, ThinkClose} THEN id = ThinkOpen ELSE FlagAfter(s, t)
<1> DEFINE u == Append(s, id)
<1>1. PICK n \in Nat : n = Len(s)
    OBVIOUS
<1>2. u \in Seq(Tokens) /\ Len(u) = n + 1 /\ u[n + 1] = id /\ \A i \in 1 .. n : u[i] = s[i]
    BY <1>1
<1> HIDE DEF u
<1>3. Tags(u) \subseteq 0 .. n + 1 /\ Tags(s) \subseteq 0 .. n /\ n + 1 \in Nat
    BY <1>1, <1>2, TagsBounded
<1>4. CASE id \in {ThinkOpen, ThinkClose}
    <2>1. n + 1 \in Tags(u)
        BY <1>2, <1>4 DEF Tags
    <2>2. Max(Tags(u)) = n + 1
        BY <1>3, <2>1, MaxIs
    <2>3. FlagAfter(u, t) = (id = ThinkOpen)
        BY <1>2, <2>1, <2>2, Zenon DEF FlagAfter
    <2> QED
        BY <1>4, <2>3, Zenon DEF u
<1>5. CASE id \notin {ThinkOpen, ThinkClose}
    <2>1. Tags(u) = Tags(s)
        BY <1>1, <1>2, <1>5 DEF Tags
    <2>2. FlagAfter(u, t) = FlagAfter(s, t)
        <3>1. CASE Tags(s) = {}
            BY <2>1, <3>1 DEF FlagAfter
        <3>2. CASE Tags(s) # {}
            <4>1. Max(Tags(s)) \in Tags(s)
                BY <1>3, <3>2, MaxNat
            <4>2. Max(Tags(s)) \in 1 .. n
                BY <1>1, <4>1 DEF Tags
            <4>3. u[Max(Tags(s))] = s[Max(Tags(s))]
                BY <1>2, <4>2
            <4> QED
                BY <2>1, <4>3, Zenon DEF FlagAfter
        <3> QED
            BY <3>1, <3>2
    <2> QED
        BY <1>5, <2>2, Zenon DEF u
<1> QED
    BY <1>4, <1>5

\* What token id adds to the text when it comes after the tokens of s.
Spoken(s, id, t) ==
    IF id = ThinkOpen \/ (id = ThinkClose /\ FlagAfter(s, t)) THEN << >>
    ELSE [k \in DOMAIN Piece[id] |-> [byte |-> Piece[id][k], rs |-> FlagAfter(s, t)]]

Marked == [byte : Byte, rs : BOOLEAN]

LEMMA SpokenMarked ==
    ASSUME NEW s \in Seq(Tokens), NEW id \in Tokens, NEW t \in BOOLEAN
    PROVE  Spoken(s, id, t) \in Seq(Marked)
<1>1. Piece[id] \in Seq(Byte)
    BY EmissionAssumption
<1>2. FlagAfter(s, t) \in BOOLEAN
    BY FlagBoolean
<1>3. << >> \in Seq(Marked)
    OBVIOUS
<1>4. [k \in DOMAIN Piece[id] |-> [byte |-> Piece[id][k], rs |-> FlagAfter(s, t)]] \in Seq(Marked)
    <2>1. PICK n \in Nat : n = Len(Piece[id])
        BY <1>1
    <2>2. DOMAIN Piece[id] = 1 .. n /\ \A k \in 1 .. n : Piece[id][k] \in Byte
        BY <1>1, <2>1
    <2>3. [k \in 1 .. n |-> [byte |-> Piece[id][k], rs |-> FlagAfter(s, t)]] \in [1 .. n -> Marked]
        BY <1>2, <2>2 DEF Marked
    <2> QED
        BY <2>2, <2>3
<1> QED
    BY <1>3, <1>4 DEF Spoken

LEMMA ArrivedParts ==
    ASSUME NEW s \in Seq(Tokens), NEW t \in BOOLEAN
    PROVE  /\ Arrived(s, t) = FlattenSeq([i \in DOMAIN s |-> Spoken(SubSeq(s, 1, i - 1), s[i], t)])
           /\ [i \in DOMAIN s |-> Spoken(SubSeq(s, 1, i - 1), s[i], t)] \in Seq(Seq(Marked))
<1>1. ASSUME NEW i \in 1 .. Len(s)
      PROVE  Spoken(SubSeq(s, 1, i - 1), s[i], t) \in Seq(Marked)
    <2>1. SubSeq(s, 1, i - 1) \in Seq(Tokens) /\ s[i] \in Tokens
        OBVIOUS
    <2> QED
        BY <2>1, SpokenMarked
<1>2. DOMAIN s = 1 .. Len(s) /\ Len(s) \in Nat
    OBVIOUS
<1>3. [i \in 1 .. Len(s) |-> Spoken(SubSeq(s, 1, i - 1), s[i], t)] \in [1 .. Len(s) -> Seq(Marked)]
    BY <1>1
<1>4. [i \in 1 .. Len(s) |-> Spoken(SubSeq(s, 1, i - 1), s[i], t)] \in Seq(Seq(Marked))
    BY <1>2, <1>3
<1>5. Arrived(s, t) = FlattenSeq([i \in DOMAIN s |-> Spoken(SubSeq(s, 1, i - 1), s[i], t)])
    BY Zenon DEF Arrived, Spoken
<1> QED
    BY <1>2, <1>4, <1>5

LEMMA ArrivedAppend ==
    ASSUME NEW s \in Seq(Tokens), NEW id \in Tokens, NEW t \in BOOLEAN
    PROVE  /\ Arrived(s, t) \in Seq(Marked)
           /\ Arrived(Append(s, id), t) = Arrived(s, t) \o Spoken(s, id, t)
<1> DEFINE u == Append(s, id)
           Parts(x) == [i \in DOMAIN x |-> Spoken(SubSeq(x, 1, i - 1), x[i], t)]
<1>1. PICK n \in Nat : n = Len(s)
    OBVIOUS
<1>2. u \in Seq(Tokens) /\ Len(u) = n + 1 /\ u[n + 1] = id /\ \A i \in 1 .. n : u[i] = s[i]
    BY <1>1
<1>3. \A i \in 1 .. n + 1 : SubSeq(u, 1, i - 1) = SubSeq(s, 1, i - 1)
    BY <1>1
<1>4. SubSeq(s, 1, n) = s /\ n + 1 - 1 = n
    BY <1>1
<1>5. /\ Arrived(s, t) = FlattenSeq(Parts(s)) /\ Parts(s) \in Seq(Seq(Marked))
      /\ Arrived(u, t) = FlattenSeq(Parts(u)) /\ Parts(u) \in Seq(Seq(Marked))
    BY <1>2, ArrivedParts
<1>6. /\ DOMAIN Parts(s) = 1 .. n /\ \A i \in 1 .. n : Parts(s)[i] = Spoken(SubSeq(s, 1, i - 1), s[i], t)
      /\ DOMAIN Parts(u) = 1 .. n + 1
      /\ \A i \in 1 .. n + 1 : Parts(u)[i] = Spoken(SubSeq(u, 1, i - 1), u[i], t)
    BY <1>1, <1>2
<1> HIDE DEF Parts, u
<1>7. Spoken(s, id, t) \in Seq(Marked)
    BY SpokenMarked
<1>8. Len(Parts(s)) = n /\ Len(Parts(u)) = n + 1
    BY <1>5, <1>6
<1>9. Parts(u)[n + 1] = Spoken(s, id, t) /\ \A i \in 1 .. n : Parts(u)[i] = Parts(s)[i]
    <2>0. PICK m \in 1 .. n + 1 : m = n + 1 /\ m - 1 = n
        OBVIOUS
    <2>1. n + 1 \in 1 .. n + 1 /\ \A i \in 1 .. n : i \in 1 .. n + 1
        OBVIOUS
    <2>2. Parts(u)[n + 1] = Spoken(s, id, t)
        <3>1. Parts(u)[m] = Spoken(SubSeq(u, 1, m - 1), u[m], t)
            BY <1>6, <2>0, Zenon
        <3>2. SubSeq(u, 1, m - 1) = SubSeq(s, 1, m - 1)
            BY <1>3, <2>0, Zenon
        <3>3. SubSeq(s, 1, m - 1) = s
            BY <1>4, <2>0
        <3> QED
            BY <1>2, <2>0, <3>1, <3>2, <3>3, Zenon
    <2>3. \A i \in 1 .. n : Parts(u)[i] = Parts(s)[i]
        BY <1>2, <1>3, <1>6, <2>1
    <2> QED
        BY <2>2, <2>3
<1>10. Parts(u) = Append(Parts(s), Spoken(s, id, t))
    BY <1>5, <1>7, <1>8, <1>9
<1>11. /\ FlattenSeq(Append(Parts(s), Spoken(s, id, t))) = FlattenSeq(Parts(s)) \o Spoken(s, id, t)
       /\ FlattenSeq(Parts(s)) \in Seq(Marked)
    BY <1>5, <1>7, FlattenAppend
<1> QED
    BY <1>5, <1>10, <1>11 DEF u

-----------------------------------------------------------------------------
(* Where characters begin and end.                                         *)

\* What is left behind the boundary is the beginning of one character; with
\* nothing left behind, the last character is all there.
LEMMA BoundaryCuts ==
    ASSUME NEW h \in Seq(Byte), NEW n \in Nat, n = Len(h)
    PROVE  \E ok \in 0 .. n :
              /\ ok = Boundary(h)
              /\ \/ /\ ok = n
                    /\ \A q \in 1 .. n : h[q] # 0 /\ (\A k \in q + 1 .. n : h[k] = 0) => q + Need(h[q]) - 1 <= n
                 \/ /\ ok < n /\ h[ok + 1] # 0 /\ n - ok < Need(h[ok + 1])
                    /\ \A k \in ok + 2 .. n : h[k] = 0
<1> DEFINE S == {k \in 0 .. MaxBack : k <= n /\ \A i \in n - k + 1 .. n : h[i] = 0}
           p == n - Max(S)
<1>1. \A q \in 1 .. n : h[q] \in Byte /\ Need(h[q]) \in 1 .. 4
    BY DEF Byte, Need
<1>2. S \subseteq 0 .. 4 /\ 0 \in S
    BY DEF MaxBack
<1>3. Max(S) \in S /\ \A k \in S : k <= Max(S)
    BY <1>2, MaxNat
<1>4. PICK back \in 0 .. 4 : back = Max(S)
    BY <1>2, <1>3
<1>5. back <= n /\ (\A i \in n - back + 1 .. n : h[i] = 0) /\ \A k \in S : k <= back
    BY <1>3, <1>4
<1>6. p = n - back /\ p \in 0 .. n
    BY <1>4, <1>5
<1>7. Boundary(h) = IF p > 0 /\ Lacks(h, p) THEN p - 1 ELSE n
    BY Zenon DEF Boundary
<1>8. \A k \in 0 .. 4 : k <= n /\ (\A i \in n - k + 1 .. n : h[i] = 0) => k \in S
    BY DEF MaxBack
<1> HIDE DEF S, p
<1>9. Lacks(h, p) <=> n - (p - 1) < Need(h[p])
    BY DEF Lacks
<1>10. CASE p > 0 /\ Lacks(h, p)
    <2>0. p - 1 \in 0 .. n
        BY <1>6, <1>10
    <2>1. PICK ok \in 0 .. n : ok = p - 1
        BY <2>0, Zenon
    <2>2. ok = Boundary(h)
        BY <1>7, <1>10, <2>1
    <2>3. p = ok + 1 /\ p \in 1 .. n /\ ok < n
        BY <1>6, <1>10, <2>1
    <2>4. n - ok < Need(h[ok + 1])
        BY <1>9, <1>10, <2>1, <2>3
    <2>5. h[ok + 1] # 0
        <3>1. 1 < Need(h[ok + 1])
            BY <1>1, <2>3, <2>4
        <3> QED
            BY <3>1 DEF Need
    <2>6. \A k \in ok + 2 .. n : h[k] = 0
        <3>1. ok + 2 = n - back + 1
            BY <1>6, <2>3
        <3> QED
            BY <1>5, <3>1
    <2> QED
        BY <2>2, <2>3, <2>4, <2>5, <2>6
<1>11. CASE ~(p > 0 /\ Lacks(h, p))
    <2>1. n = Boundary(h)
        BY <1>7, <1>11
    <2>2. ASSUME NEW q \in 1 .. n, h[q] # 0, \A k \in q + 1 .. n : h[k] = 0, ~(q + Need(h[q]) - 1 <= n)
          PROVE  FALSE
        <3>1. PICK w \in 1 .. 4 : w = Need(h[q])
            BY <1>1
        <3>2. n - q \in 0 .. 2 /\ n - q <= n
            BY <2>2, <3>1
        <3>3. n - q \in S
            <4>1. PICK k \in 0 .. 4 : k = n - q /\ k <= n /\ n - k = q
                BY <3>2
            <4> QED
                BY <1>8, <2>2, <4>1
        <3>4. n - q <= back
            BY <1>5, <3>3
        <3>5. back <= n - q
            <4>1. ~(q \in n - back + 1 .. n)
                BY <1>5, <2>2
            <4> QED
                BY <1>5, <4>1
        <3>6. p = q
            BY <1>6, <3>4, <3>5
        <3>7. n - (q - 1) < w
            BY <2>2, <3>1
        <3> QED
            BY <1>9, <1>11, <3>1, <3>6, <3>7
    <2>3. \A q \in 1 .. n : h[q] # 0 /\ (\A k \in q + 1 .. n : h[k] = 0) => q + Need(h[q]) - 1 <= n
        BY <2>2
    <2> QED
        BY <2>1, <2>3
<1> QED
    BY <1>10, <1>11

LEMMA NeedRange == \A b \in Byte : Need(b) \in 1 .. 4
BY DEF Byte, Need

\* The last byte up to i that does not continue a character, if there is one.
LEMMA FirstOfFacts ==
    ASSUME NEW t \in Seq(Marked), NEW i \in 1 .. Len(t)
    PROVE  /\ FirstOf(t, i) \in 1 .. i
           /\ \A k \in FirstOf(t, i) + 1 .. i : t[k].byte = 0
           /\ FirstOf(t, i) # 1 => t[FirstOf(t, i)].byte # 0
<1> DEFINE S == {k \in 1 .. i : t[k].byte # 0} \cup {1}
<1>1. S \subseteq 0 .. i /\ S # {} /\ i \in Nat
    OBVIOUS
<1>2. Max(S) \in S /\ \A k \in S : k <= Max(S)
    BY <1>1, MaxNat
<1>3. FirstOf(t, i) = Max(S)
    BY Zenon DEF FirstOf
<1>4. PICK f \in S : f = Max(S)
    BY <1>2
<1>5. f \in 1 .. i /\ (f # 1 => t[f].byte # 0)
    BY <1>4
<1>6. ASSUME NEW k \in f + 1 .. i
      PROVE  t[k].byte = 0
    <2>1. k \in 1 .. i /\ ~(k <= f)
        BY <1>5
    <2>2. k \notin S
        BY <1>2, <1>4, <2>1
    <2> QED
        BY <2>1, <2>2
<1> QED
    BY <1>3, <1>4, <1>5, <1>6

LEMMA FirstOfIs ==
    ASSUME NEW t \in Seq(Marked), NEW i \in 1 .. Len(t), NEW f \in 1 .. i,
           t[f].byte # 0, \A k \in f + 1 .. i : t[k].byte = 0
    PROVE  FirstOf(t, i) = f
<1> DEFINE S == {k \in 1 .. i : t[k].byte # 0} \cup {1}
<1>1. S \subseteq 0 .. i /\ i \in Nat /\ f \in S
    OBVIOUS
<1>2. \A k \in S : k <= f
    OBVIOUS
<1>3. Max(S) = f
    <2> HIDE DEF S
    <2> QED
        BY <1>1, <1>2, MaxIs
<1> QED
    BY <1>3, Zenon DEF FirstOf

\* In UTF-8 every byte belongs to a character that begins at or before it and
\* ends at or behind it.
LEMMA Utf8Covers ==
    ASSUME NEW t \in Seq(Marked), IsUtf8(t), NEW i \in 1 .. Len(t)
    PROVE  \E f \in 1 .. i :
              /\ f = FirstOf(t, i) /\ t[f].byte # 0
              /\ \A k \in f + 1 .. i : t[k].byte = 0
              /\ LastOf(t, i) = f + Need(t[f].byte) - 1 /\ i <= LastOf(t, i)
<1>1. \A k \in 1 .. Len(t) : t[k].byte \in Byte /\ Need(t[k].byte) \in 1 .. 4
    <2>1. \A k \in 1 .. Len(t) : t[k] \in Marked
        OBVIOUS
    <2>2. \A m \in Marked : m.byte \in Byte
        BY DEF Marked
    <2> QED
        BY <2>1, <2>2, NeedRange, Zenon
<1>2. \A j \in 1 .. Len(t) :
          (t[j].byte = 0) <=> \E k \in 1 .. j - 1 : t[k].byte # 0 /\ j < k + Need(t[k].byte)
    BY DEF IsUtf8
<1>3. PICK f \in 1 .. i : f = FirstOf(t, i)
    BY FirstOfFacts
<1>4. (\A k \in f + 1 .. i : t[k].byte = 0) /\ (f # 1 => t[f].byte # 0)
    BY <1>3, FirstOfFacts
<1>5. t[1].byte # 0
    BY <1>2
<1>6. t[f].byte # 0
    BY <1>4, <1>5
<1>7. LastOf(t, i) = f + Need(t[f].byte) - 1
    BY <1>3, Zenon DEF LastOf
<1>8. i < f + Need(t[f].byte)
    <2>1. CASE f = i
        BY <1>1, <2>1
    <2>2. CASE f # i
        <3>1. t[i].byte = 0 /\ i \in 1 .. Len(t)
            BY <1>4, <2>2
        <3>2. PICK k \in 1 .. i - 1 : t[k].byte # 0 /\ i < k + Need(t[k].byte)
            BY <1>2, <3>1
        <3>3. k <= f
            BY <1>4, <3>2
        <3>4. ~(k < f)
            <4>1. PICK w \in 1 .. 4 : w = Need(t[k].byte)
                BY <1>1
            <4>2. k < f => f < k + w
                BY <3>2, <4>1
            <4> QED
                BY <1>2, <1>6, <3>2, <4>1, <4>2
        <3> QED
            BY <3>2, <3>3, <3>4
    <2> QED
        BY <2>1, <2>2
<1> QED
    BY <1>1, <1>3, <1>4, <1>6, <1>7, <1>8

\* A beginning of a text in UTF-8 is UTF-8, with the same characters.
LEMMA Utf8Begins ==
    ASSUME NEW t \in Seq(Marked), NEW v \in Seq(Marked), Len(t) <= Len(v),
           \A i \in 1 .. Len(t) : v[i] = t[i], IsUtf8(v)
    PROVE  IsUtf8(t) /\ \A i \in 1 .. Len(t) : LastOf(v, i) = LastOf(t, i)
<1>1. PICK n \in Nat : n = Len(t)
    OBVIOUS
<1>2. IsUtf8(t)
    <2>1. \A i \in 1 .. n : (v[i].byte = 0) <=> \E k \in 1 .. i - 1 : v[k].byte # 0 /\ i < k + Need(v[k].byte)
        BY <1>1 DEF IsUtf8
    <2>2. \A i \in 1 .. n : \A k \in 1 .. i - 1 : v[k] = t[k]
        BY <1>1
    <2>3. \A i \in 1 .. n : v[i] = t[i]
        BY <1>1
    <2>4. \A i \in 1 .. n : (t[i].byte = 0) <=> \E k \in 1 .. i - 1 : t[k].byte # 0 /\ i < k + Need(t[k].byte)
        BY <2>1, <2>2, <2>3, Zenon
    <2> QED
        BY <1>1, <2>4 DEF IsUtf8
<1>3. ASSUME NEW i \in 1 .. n
      PROVE  LastOf(v, i) = LastOf(t, i)
    <2>1. i \in 1 .. Len(t) /\ i \in 1 .. Len(v)
        BY <1>1
    <2>2. PICK f \in 1 .. i : /\ f = FirstOf(t, i) /\ t[f].byte # 0
                              /\ \A k \in f + 1 .. i : t[k].byte = 0
                              /\ LastOf(t, i) = f + Need(t[f].byte) - 1
        BY <1>2, <2>1, Utf8Covers
    <2>3. v[f] = t[f] /\ \A k \in f + 1 .. i : v[k] = t[k]
        BY <1>1
    <2>4. FirstOf(v, i) = f
        <3>1. v[f].byte # 0
            BY <2>2, <2>3
        <3>2. \A k \in f + 1 .. i : v[k].byte = 0
            BY <2>2, <2>3
        <3> QED
            BY <2>1, <3>1, <3>2, FirstOfIs
    <2> QED
        BY <2>2, <2>3, <2>4, Zenon DEF LastOf
<1> QED
    BY <1>1, <1>2, <1>3

-----------------------------------------------------------------------------
(* What is told ends where characters end.                                 *)

BytesOf(t) == [i \in 1 .. Len(t) |-> t[i].byte]

\* The bytes held back are the beginning of one character.
Partial(held) ==
    /\ held \in Seq(Byte)
    /\ Len(held) > 0 =>
          /\ held[1] # 0 /\ Len(held) < Need(held[1])
          /\ \A k \in 2 .. Len(held) : held[k] = 0

\* Every character of which a byte was told was told whole, under its flag.
ToldWhole(t, all) ==
    IsUtf8(all) => \A i \in 1 .. Len(t) : LastOf(all, i) <= Len(t) /\ t[i].rs = all[LastOf(all, i)].rs

LEMMA PartialShort ==
    ASSUME NEW h, Partial(h)
    PROVE  Len(h) <= 3
<1>1. h \in Seq(Byte) /\ Len(h) \in Nat
    BY DEF Partial
<1>2. CASE Len(h) > 0
    <2>1. h[1] \in Byte /\ Len(h) < Need(h[1])
        BY <1>1, <1>2 DEF Partial
    <2> QED
        BY <1>1, <2>1, NeedRange
<1> QED
    BY <1>1, <1>2

\* When the characters of the first n bytes end there, a character begins next.
LEMMA NextBegins ==
    ASSUME NEW t \in Seq(Marked), IsUtf8(t), NEW n \in Nat, n + 1 <= Len(t),
           \A j \in 1 .. n : LastOf(t, j) <= n
    PROVE  t[n + 1].byte # 0
<1>1. PICK i \in 1 .. Len(t) : i = n + 1
    OBVIOUS
<1>2. (t[i].byte = 0) <=> \E k \in 1 .. i - 1 : t[k].byte # 0 /\ i < k + Need(t[k].byte)
    BY DEF IsUtf8
<1>3. SUFFICES ASSUME t[i].byte = 0
               PROVE  FALSE
    BY <1>1
<1>4. PICK k \in 1 .. i - 1 : t[k].byte # 0 /\ i < k + Need(t[k].byte)
    BY <1>2, <1>3
<1>5. k \in 1 .. Len(t) /\ k \in 1 .. n /\ k \in 1 .. k
    BY <1>1
<1>6. \A j \in k + 1 .. k : t[j].byte = 0
    OBVIOUS
<1>7. FirstOf(t, k) = k
    BY <1>4, <1>5, <1>6, FirstOfIs
<1>8. LastOf(t, k) = k + Need(t[k].byte) - 1
    BY <1>7, Zenon DEF LastOf
<1>9. t[k] \in Marked /\ k + Need(t[k].byte) - 1 <= n
    BY <1>5, <1>8
<1>10. PICK w \in 1 .. 4 : w = Need(t[k].byte)
    BY <1>9, NeedRange DEF Marked
<1> QED
    BY <1>1, <1>4, <1>9, <1>10

\* The character of byte q of h, which is byte n + q of t, begins at byte r of h,
\* with w bytes, and ends among the first ok.
EndsTold(t, n, h, q, ok) ==
    \E r \in 1 .. q, w \in 1 .. 4 :
        /\ h[r] # 0 /\ w = Need(h[r]) /\ (\A k \in r + 1 .. q : h[k] = 0)
        /\ LastOf(t, n + q) = n + r + w - 1
        /\ q <= r + w - 1 /\ r + w - 1 <= ok

\* Whole characters t: behind the first n bytes come the l of h, and with them a
\* character begins; ok is the boundary of h.
Follows(t, n, l, h, ok) ==
    /\ t \in Seq(Marked) /\ IsUtf8(t) /\ n \in Nat /\ l \in Nat /\ Len(t) = n + l
    /\ h \in Seq(Byte) /\ l = Len(h) /\ \A q \in 1 .. l : t[n + q].byte = h[q]
    /\ l > 0 => h[1] # 0
    /\ ok \in 0 .. l /\ ok = Boundary(h)

\* Behind n bytes come those of h, and with them a character begins: those before
\* the boundary of h end before it.
LEMMA EndsBeforeBoundary ==
    ASSUME NEW t, NEW n, NEW l, NEW h, NEW ok, Follows(t, n, l, h, ok), NEW q \in 1 .. ok
    PROVE  EndsTold(t, n, h, q, ok)
<1>a. t \in Seq(Marked) /\ IsUtf8(t) /\ n \in Nat /\ l \in Nat /\ Len(t) = n + l
    BY Zenon DEF Follows
<1>b. h \in Seq(Byte) /\ l = Len(h) /\ \A p \in 1 .. l : t[n + p].byte = h[p]
    BY Zenon DEF Follows
<1>c. (l > 0 => h[1] # 0) /\ ok \in 0 .. l /\ ok = Boundary(h)
    BY Zenon DEF Follows
<1> USE <1>a, <1>b, <1>c
<1>1. PICK i \in 1 .. Len(t) : i = n + q /\ i > n
    OBVIOUS
<1>2. PICK f \in 1 .. i : /\ f = FirstOf(t, i) /\ t[f].byte # 0
                          /\ \A k \in f + 1 .. i : t[k].byte = 0
                          /\ LastOf(t, i) = f + Need(t[f].byte) - 1 /\ i <= LastOf(t, i)
    BY Utf8Covers
<1>3. n + 1 \in 1 .. Len(t) /\ t[n + 1].byte # 0
    BY <1>1
<1>4. ~(n + 1 \in f + 1 .. i)
    BY <1>2, <1>3
<1>5. f - n \in 1 .. q
    BY <1>1, <1>4
<1>6. PICK r \in 1 .. q : r = f - n /\ f = n + r /\ r \in 1 .. l
    BY <1>5
<1>7. h[r] = t[f].byte /\ h[r] # 0 /\ h[r] \in Byte
    <2>1. t[n + r].byte = h[r]
        BY <1>6, Zenon
    <2>2. h[r] \in Byte
        BY <1>6
    <2> QED
        BY <1>2, <1>6, <2>1, <2>2, Zenon
<1>8. PICK w \in 1 .. 4 : w = Need(h[r])
    BY <1>7, NeedRange
<1>9. LastOf(t, i) = n + r + w - 1 /\ q <= r + w - 1
    <2>1. Need(t[f].byte) = w
        BY <1>7, <1>8
    <2>2. LastOf(t, i) = n + r + w - 1
        BY <1>2, <1>6, <2>1
    <2> QED
        BY <1>1, <1>2, <2>2
<1>10. ASSUME NEW k \in 1 .. l, k > r, k < r + w
       PROVE  h[k] = 0
    <2>1. PICK j \in 1 .. Len(t) : j = n + k /\ f \in 1 .. j - 1 /\ j < f + w
        BY <1>6, <1>10
    <2>2. (t[j].byte = 0) <=> \E m \in 1 .. j - 1 : t[m].byte # 0 /\ j < m + Need(t[m].byte)
        <3>1. j \in DOMAIN t
            BY <2>1
        <3> QED
            BY <3>1, Zenon DEF IsUtf8
    <2>3. t[j].byte = 0
        BY <1>2, <1>7, <1>8, <2>1, <2>2
    <2> QED
        BY <2>1, <2>3
<1>11. \/ /\ ok = l
          /\ \A x \in 1 .. l : h[x] # 0 /\ (\A k \in x + 1 .. l : h[k] = 0) => x + Need(h[x]) - 1 <= l
       \/ ok < l /\ h[ok + 1] # 0
    <2>1. PICK b \in 0 .. l :
              /\ b = Boundary(h)
              /\ \/ /\ b = l
                    /\ \A x \in 1 .. l : h[x] # 0 /\ (\A k \in x + 1 .. l : h[k] = 0) => x + Need(h[x]) - 1 <= l
                 \/ /\ b < l /\ h[b + 1] # 0 /\ l - b < Need(h[b + 1])
                    /\ \A k \in b + 2 .. l : h[k] = 0
        BY BoundaryCuts, ZenonT(40)
    <2>2. b = ok
        BY <2>1
    <2> QED
        BY <2>1, <2>2, Zenon
<1>12. r + w - 1 <= ok
    <2>1. CASE ok = l /\ \A x \in 1 .. l : h[x] # 0 /\ (\A k \in x + 1 .. l : h[k] = 0) => x + Need(h[x]) - 1 <= l
        <3> SUFFICES ASSUME r + w - 1 > l
                     PROVE  FALSE
            BY <2>1
        <3>1. ASSUME NEW k \in r + 1 .. l
              PROVE  h[k] = 0
            <4>1. k \in 1 .. l /\ k > r /\ k < r + w
                OBVIOUS
            <4> QED
                BY <1>10, <4>1
        <3>2. r + Need(h[r]) - 1 <= l
            BY <1>6, <1>7, <2>1, <3>1, Zenon
        <3> QED
            BY <1>8, <3>2
    <2>2. CASE ok < l /\ h[ok + 1] # 0
        <3>1. ok + 1 \in 1 .. l /\ ok + 1 > r
            BY <2>2
        <3>2. ~(ok + 1 < r + w)
            BY <1>10, <2>2, <3>1
        <3>3. PICK x \in Nat, y \in Nat : x = ok /\ y = r
            OBVIOUS
        <3> QED
            BY <3>2
    <2> QED
        BY <1>11, <2>1, <2>2
<1>13. \A k \in r + 1 .. q : h[k] = 0
    <2>1. ASSUME NEW k \in r + 1 .. q
          PROVE  h[k] = 0
        <3>1. k \in 1 .. l /\ n + k \in f + 1 .. i
            BY <1>1, <1>6
        <3> QED
            BY <1>2, <3>1
    <2> QED
        BY <2>1
<1> QED
    BY <1>1, <1>7, <1>8, <1>9, <1>12, <1>13 DEF EndsTold

\* More bytes arrive and what ends in whole characters is told: h are the bytes
\* held back and the new ones, ok of them are told, n were told before, a had
\* arrived before.
Grown(told1, told2, all1, all2, h, th, n, a, l, ok) ==
    /\ told1 \in Seq(Marked) /\ told2 \in Seq(Marked) /\ all1 \in Seq(Marked) /\ all2 \in Seq(Marked)
    /\ h \in Seq(Byte) /\ th \in BOOLEAN
    /\ n \in Nat /\ n = Len(told1) /\ a \in Nat /\ a = Len(all1) /\ l \in Nat /\ l = Len(h)
    /\ ok \in 0 .. l /\ ok = Boundary(h)
    /\ n <= a /\ Len(told2) = n + ok /\ Len(all2) = n + l /\ a <= n + l
    /\ \A i \in 1 .. n : told2[i] = told1[i]
    /\ \A q \in 1 .. ok : told2[n + q].rs = th
    /\ \A i \in 1 .. a : all2[i] = all1[i]
    /\ \A i \in a + 1 .. n + l : all2[i].rs = th
    /\ \A q \in 1 .. l : all2[n + q].byte = h[q]
    /\ a > n => h[1] # 0 /\ a - n < Need(h[1]) /\ \A q \in 2 .. a - n : h[q] = 0

LEMMA ToldWholeGrows ==
    ASSUME NEW told1, NEW told2, NEW all1, NEW all2, NEW h, NEW th, NEW n, NEW a, NEW l, NEW ok,
           Grown(told1, told2, all1, all2, h, th, n, a, l, ok), ToldWhole(told1, all1)
    PROVE  ToldWhole(told2, all2)
<1>a. /\ told1 \in Seq(Marked) /\ told2 \in Seq(Marked) /\ all1 \in Seq(Marked) /\ all2 \in Seq(Marked)
      /\ h \in Seq(Byte)
    BY Zenon DEF Grown
<1>b. n \in Nat /\ a \in Nat /\ l \in Nat /\ ok \in 0 .. l /\ n <= a /\ a <= n + l
    BY Zenon DEF Grown
<1>c. n = Len(told1) /\ a = Len(all1) /\ l = Len(h) /\ ok = Boundary(h) /\ Len(told2) = n + ok /\ Len(all2) = n + l
    BY Zenon DEF Grown
<1>d. (\A i \in 1 .. n : told2[i] = told1[i]) /\ \A q \in 1 .. ok : told2[n + q].rs = th
    BY Zenon DEF Grown
<1>e. (\A i \in 1 .. a : all2[i] = all1[i]) /\ \A i \in a + 1 .. n + l : all2[i].rs = th
    BY Zenon DEF Grown
<1>f. \A q \in 1 .. l : all2[n + q].byte = h[q]
    BY Zenon DEF Grown
<1>g. a > n => h[1] # 0 /\ a - n < Need(h[1]) /\ \A q \in 2 .. a - n : h[q] = 0
    BY Zenon DEF Grown
<1> SUFFICES ASSUME IsUtf8(all2)
             PROVE  \A i \in 1 .. n + ok : LastOf(all2, i) <= n + ok /\ told2[i].rs = all2[LastOf(all2, i)].rs
    BY <1>c DEF ToldWhole
<1>x. IsUtf8(all2)
    OBVIOUS
<1>1. IsUtf8(all1) /\ \A j \in 1 .. a : LastOf(all2, j) = LastOf(all1, j)
    <2>1. Len(all1) <= Len(all2) /\ \A i \in 1 .. Len(all1) : all2[i] = all1[i]
        BY <1>b, <1>c, <1>e
    <2>2. IsUtf8(all1) /\ \A j \in 1 .. Len(all1) : LastOf(all2, j) = LastOf(all1, j)
        BY <1>a, <2>1, Utf8Begins, SMTT(30)
    <2> QED
        BY <1>c, <2>2
<1>2. \A j \in 1 .. n : LastOf(all1, j) <= n /\ told1[j].rs = all1[LastOf(all1, j)].rs
    BY <1>1, <1>c, Zenon DEF ToldWhole
<1>3. \A j \in 1 .. n : j \in 1 .. a
    BY <1>b
<1>4. ASSUME NEW i \in 1 .. n
      PROVE  LastOf(all2, i) <= n + ok /\ told2[i].rs = all2[LastOf(all2, i)].rs
    <2>1. LastOf(all2, i) = LastOf(all1, i) /\ LastOf(all1, i) <= n
        BY <1>1, <1>2, <1>3, Zenon
    <2>a. i \in 1 .. Len(all1)
        BY <1>3, <1>c
    <2>2. PICK f \in 1 .. i : LastOf(all1, i) = f + Need(all1[f].byte) - 1 /\ i <= LastOf(all1, i)
        BY <1>1, <1>a, <2>a, Utf8Covers
    <2>3. LastOf(all1, i) \in 1 .. n
        <3>1. all1[f] \in Marked
            BY <1>a, <2>a
        <3>2. PICK w \in 1 .. 4 : w = Need(all1[f].byte)
            BY <3>1, NeedRange DEF Marked
        <3>3. PICK e \in Int : e = f + w - 1
            BY <1>b
        <3>4. LastOf(all1, i) = e /\ i <= e /\ e <= n
            BY <2>1, <2>2, <3>2, <3>3
        <3> QED
            BY <1>b, <3>4
    <2>4. PICK e \in 1 .. n : e = LastOf(all1, i)
        BY <2>3, Zenon
    <2>5. told2[i] = told1[i] /\ all2[e] = all1[e]
        BY <1>3, <1>d, <1>e, Zenon
    <2>6. told1[i].rs = all1[e].rs
        BY <1>2, <2>4, Zenon
    <2>7. e <= n + ok
        BY <1>b
    <2> QED
        BY <2>1, <2>4, <2>5, <2>6, <2>7, Zenon
<1>5. l > 0 => h[1] # 0
    <2> SUFFICES ASSUME l > 0
                 PROVE  h[1] # 0
        OBVIOUS
    <2>1. \A j \in 1 .. n : LastOf(all2, j) <= n
        BY <1>1, <1>2, <1>3, Zenon
    <2>2. n + 1 <= Len(all2) /\ 1 \in 1 .. l
        BY <1>b, <1>c
    <2>3. all2[n + 1].byte # 0
        BY <1>a, <1>b, <2>1, <2>2, NextBegins
    <2> QED
        BY <1>f, <2>2, <2>3
<1>6. ASSUME NEW q \in 1 .. ok
      PROVE  LastOf(all2, n + q) <= n + ok /\ told2[n + q].rs = all2[LastOf(all2, n + q)].rs
    <2>b. EndsTold(all2, n, h, q, ok)
        <3>1. Follows(all2, n, l, h, ok)
            BY <1>5, <1>a, <1>b, <1>c, <1>f, <1>x, Zenon DEF Follows
        <3> QED
            BY <3>1, EndsBeforeBoundary, Zenon
    <2>1. PICK r \in 1 .. q, w \in 1 .. 4 :
              /\ h[r] # 0 /\ w = Need(h[r]) /\ (\A k \in r + 1 .. q : h[k] = 0)
              /\ LastOf(all2, n + q) = n + r + w - 1
              /\ q <= r + w - 1 /\ r + w - 1 <= ok
        BY <2>b, Zenon DEF EndsTold
    <2>c. q \in Nat /\ r \in Nat /\ w \in Nat /\ r >= 1 /\ w >= 1 /\ r <= q
        BY <1>b, <2>1
    <2>0. PICK m \in Nat : m = r + w - 1 /\ n + m = n + r + w - 1
        BY <1>b, <2>c
    <2>d. q <= m /\ m <= ok /\ ok <= l /\ ok \in Nat
        BY <1>b, <2>0, <2>1
    <2>2. n + m > a
        <3>1. CASE n + q > a
            BY <1>b, <2>c, <2>d, <3>1
        <3>2. CASE n + q <= a
            <4>1. a > n /\ (1 < r => r \in 2 .. a - n)
                BY <1>b, <2>c, <3>2
            <4>2. r = 1
                <5>1. ~(r \in 2 .. a - n)
                    BY <1>g, <2>1, <4>1, Zenon
                <5> QED
                    BY <2>c, <4>1, <5>1
            <4>3. a - n < w
                BY <1>g, <2>1, <4>1, <4>2, Zenon
            <4>4. m = w
                BY <2>0, <2>c, <4>2
            <4> QED
                BY <1>b, <4>3, <4>4
        <3> QED
            BY <1>b, <2>c, <3>1, <3>2
    <2>3. PICK e \in a + 1 .. n + l : e = n + m /\ e <= n + ok
        <3>1. n + m \in a + 1 .. n + l /\ n + m <= n + ok
            BY <1>b, <2>2, <2>d
        <3> QED
            BY <3>1, Zenon
    <2>4. all2[e].rs = th /\ told2[n + q].rs = th
        BY <1>d, <1>e, Zenon
    <2>6. LastOf(all2, n + q) = e
        BY <2>0, <2>1, <2>3, Zenon
    <2> QED
        BY <2>3, <2>4, <2>6, Zenon
<1>7. ASSUME NEW i \in 1 .. n + ok
      PROVE  i \in 1 .. n \/ \E q \in 1 .. ok : i = n + q
    <2>1. i \in 1 .. n \/ i - n \in 1 .. ok
        BY <1>b
    <2>2. i = n + (i - n)
        BY <1>b
    <2> QED
        BY <2>1, <2>2, Zenon
<1>8. ASSUME NEW i \in 1 .. n + ok
      PROVE  LastOf(all2, i) <= n + ok /\ told2[i].rs = all2[LastOf(all2, i)].rs
    <2>1. CASE i \in 1 .. n
        BY <1>4, <2>1
    <2>2. CASE \E q \in 1 .. ok : i = n + q
        <3>1. PICK q \in 1 .. ok : i = n + q
            BY <2>2
        <3> QED
            BY <1>6, <3>1, Zenon
    <2> QED
        BY <1>7, <2>1, <2>2
<1> QED
    BY <1>8, Zenon

-----------------------------------------------------------------------------
(* The text of a job, step by step.                                        *)

\* What was told, what is held back and what arrived.
InText(t, held, all) ==
    /\ t \in Seq(Marked) /\ all \in Seq(Marked) /\ Partial(held)
    /\ BytesOf(t) \o held = BytesOf(all)

\* A sequence of bytes cut in two.
LEMMA CutInTwo ==
    ASSUME NEW x \in Seq(Byte), NEW l \in Nat, l = Len(x), NEW n \in 0 .. l
    PROVE  /\ SubSeq(x, 1, n) \in Seq(Byte) /\ Len(SubSeq(x, 1, n)) = n
           /\ \A q \in 1 .. n : SubSeq(x, 1, n)[q] = x[q]
           /\ SubSeq(x, n + 1, Len(x)) \in Seq(Byte) /\ Len(SubSeq(x, n + 1, Len(x))) = l - n
           /\ \A q \in 1 .. l - n : SubSeq(x, n + 1, Len(x))[q] = x[n + q]
           /\ SubSeq(x, 1, n) \o SubSeq(x, n + 1, Len(x)) = x
<1> DEFINE u == SubSeq(x, 1, n)
           v == SubSeq(x, n + 1, Len(x))
<1>1. u \in Seq(Byte) /\ Len(u) = n /\ \A q \in 1 .. n : u[q] = x[q]
    OBVIOUS
<1>2. v \in Seq(Byte) /\ Len(v) = l - n /\ \A q \in 1 .. l - n : v[q] = x[n + q]
    OBVIOUS
<1> HIDE DEF u, v
<1>0. l - n \in Nat /\ n \in Nat
    OBVIOUS
<1>3. PICK m \in Nat : m = l - n
    BY <1>0, Zenon
<1>9. u \in Seq(Byte) /\ v \in Seq(Byte) /\ n \in Nat /\ n = Len(u) /\ m \in Nat /\ m = Len(v)
    BY <1>0, <1>1, <1>2, <1>3
<1>4. /\ u \o v \in Seq(Byte) /\ Len(u \o v) = n + m
      /\ \A i \in 1 .. n : (u \o v)[i] = u[i]
      /\ \A k \in 1 .. m : (u \o v)[n + k] = v[k]
    BY ONLY <1>9, Behind, SMTT(30)
<1>5. ASSUME NEW i \in 1 .. l
      PROVE  (u \o v)[i] = x[i]
    <2>1. CASE i \in 1 .. n
        BY <1>1, <1>4, <2>1
    <2>2. CASE ~(i \in 1 .. n)
        <3>1. PICK k \in 1 .. m : i = n + k
            <4>1. i - n \in 1 .. m /\ i = n + (i - n)
                BY <1>3, <2>2
            <4> QED
                BY <4>1
        <3> QED
            BY <1>2, <1>3, <1>4, <3>1
    <2> QED
        BY <2>1, <2>2
<1>6. Len(u \o v) = Len(x)
    BY <1>3, <1>4
<1>7. u \o v = x
    <2>1. PICK w \in Seq(Byte) : w = u \o v
        BY <1>4
    <2>2. Len(w) = l /\ \A i \in 1 .. l : w[i] = x[i]
        BY <1>5, <1>6, <2>1
    <2>3. w = x
        BY <2>2
    <2> QED
        BY <2>1, <2>3
<1> QED
    BY <1>1, <1>2, <1>7 DEF u, v

LEMMA BytesOfSeq ==
    ASSUME NEW t \in Seq(Marked)
    PROVE  /\ BytesOf(t) \in Seq(Byte) /\ Len(BytesOf(t)) = Len(t)
           /\ \A i \in 1 .. Len(t) : BytesOf(t)[i] = t[i].byte
<1>1. PICK n \in Nat : n = Len(t)
    OBVIOUS
<1>2. \A i \in 1 .. n : t[i] \in Marked
    BY <1>1
<1>3. \A i \in 1 .. n : t[i].byte \in Byte
    BY <1>2 DEF Marked
<1>4. [i \in 1 .. n |-> t[i].byte] \in [1 .. n -> Byte]
    BY <1>3
<1>5. BytesOf(t) = [i \in 1 .. n |-> t[i].byte]
    BY <1>1 DEF BytesOf
<1> QED
    BY <1>1, <1>4, <1>5

LEMMA BytesOfTwo ==
    ASSUME NEW t \in Seq(Marked), NEW v \in Seq(Marked)
    PROVE  BytesOf(t \o v) = BytesOf(t) \o BytesOf(v)
<1>1. PICK n \in Nat, m \in Nat : n = Len(t) /\ m = Len(v)
    OBVIOUS
<1>2. /\ t \o v \in Seq(Marked) /\ Len(t \o v) = n + m
      /\ \A i \in 1 .. n : (t \o v)[i] = t[i]
      /\ \A k \in 1 .. m : (t \o v)[n + k] = v[k]
    BY <1>1, Behind
<1> DEFINE b == BytesOf(t \o v)
           c == BytesOf(t) \o BytesOf(v)
<1>3. /\ b \in Seq(Byte) /\ Len(b) = n + m /\ \A i \in 1 .. n + m : b[i] = (t \o v)[i].byte
    BY <1>2, BytesOfSeq
<1>4. /\ BytesOf(t) \in Seq(Byte) /\ Len(BytesOf(t)) = n /\ \A i \in 1 .. n : BytesOf(t)[i] = t[i].byte
      /\ BytesOf(v) \in Seq(Byte) /\ Len(BytesOf(v)) = m /\ \A i \in 1 .. m : BytesOf(v)[i] = v[i].byte
    BY <1>1, BytesOfSeq
<1>5. /\ c \in Seq(Byte) /\ Len(c) = n + m
      /\ \A i \in 1 .. n : c[i] = BytesOf(t)[i]
      /\ \A k \in 1 .. m : c[n + k] = BytesOf(v)[k]
    <2>1. /\ BytesOf(t) \in Seq(Byte) /\ BytesOf(v) \in Seq(Byte) /\ n \in Nat /\ m \in Nat
          /\ n = Len(BytesOf(t)) /\ m = Len(BytesOf(v))
        BY <1>4
    <2> QED
        BY ONLY <2>1, Behind, SMTT(30)
<1> HIDE DEF b, c
<1>6. ASSUME NEW i \in 1 .. n + m
      PROVE  b[i] = c[i]
    <2>1. CASE i \in 1 .. n
        <3>1. b[i] = t[i].byte /\ c[i] = t[i].byte
            BY <1>2, <1>3, <1>4, <1>5, <2>1
        <3> QED
            BY <3>1
    <2>2. CASE ~(i \in 1 .. n)
        <3>1. PICK k \in 1 .. m : i = n + k
            <4>1. i - n \in 1 .. m /\ i = n + (i - n)
                BY <2>2
            <4> QED
                BY <4>1
        <3>2. b[i] = v[k].byte
            BY <1>2, <1>3, <3>1
        <3>3. c[i] = v[k].byte
            BY <1>4, <1>5, <3>1
        <3> QED
            BY <3>2, <3>3
    <2> QED
        BY <2>1, <2>2
<1>7. b = c
    BY <1>3, <1>5, <1>6
<1> QED
    BY <1>7 DEF b, c

\* Some bytes under one flag.
Under(s, th) == [k \in DOMAIN s |-> [byte |-> s[k], rs |-> th]]

LEMMA UnderSeq ==
    ASSUME NEW s \in Seq(Byte), NEW th \in BOOLEAN
    PROVE  /\ Under(s, th) \in Seq(Marked) /\ Len(Under(s, th)) = Len(s) /\ BytesOf(Under(s, th)) = s
           /\ \A k \in 1 .. Len(s) : Under(s, th)[k] = [byte |-> s[k], rs |-> th]
<1>1. PICK n \in Nat : n = Len(s)
    OBVIOUS
<1>2. DOMAIN s = 1 .. n /\ \A k \in 1 .. n : s[k] \in Byte
    BY <1>1
<1>3. Under(s, th) = [k \in 1 .. n |-> [byte |-> s[k], rs |-> th]]
    BY <1>2 DEF Under
<1>4. [k \in 1 .. n |-> [byte |-> s[k], rs |-> th]] \in [1 .. n -> Marked]
    BY <1>2 DEF Marked
<1>5. Under(s, th) \in Seq(Marked) /\ Len(Under(s, th)) = n
    BY <1>3, <1>4
<1>6. \A k \in 1 .. n : Under(s, th)[k] = [byte |-> s[k], rs |-> th]
    BY <1>3
<1>7. BytesOf(Under(s, th)) = s
    <2>1. BytesOf(Under(s, th)) \in Seq(Byte) /\ Len(BytesOf(Under(s, th))) = n
        BY <1>5, BytesOfSeq
    <2>2. \A k \in 1 .. n : BytesOf(Under(s, th))[k] = s[k]
        BY <1>5, <1>6, BytesOfSeq
    <2> QED
        BY <1>1, <2>1, <2>2
<1> QED
    BY <1>1, <1>5, <1>6, <1>7

\* New bytes s arrive, and those before the boundary are told.
LEMMA TextGrows ==
    ASSUME NEW t, NEW held, NEW all, InText(t, held, all), ToldWhole(t, all),
           NEW s \in Seq(Byte), NEW th \in BOOLEAN,
           NEW h, h = held \o s, NEW ok, ok = Boundary(h)
    PROVE  /\ InText(t \o Under(SubSeq(h, 1, ok), th), SubSeq(h, ok + 1, Len(h)), all \o Under(s, th))
           /\ ToldWhole(t \o Under(SubSeq(h, 1, ok), th), all \o Under(s, th))
<1>1. /\ t \in Seq(Marked) /\ all \in Seq(Marked) /\ Partial(held) /\ held \in Seq(Byte)
      /\ BytesOf(t) \o held = BytesOf(all)
    BY DEF InText, Partial
<1>2. PICK n \in Nat, a \in Nat, c \in Nat, m \in Nat : n = Len(t) /\ a = Len(all) /\ c = Len(held) /\ m = Len(s)
    BY <1>1
<1>3. h \in Seq(Byte) /\ Len(h) = c + m /\ (\A q \in 1 .. c : h[q] = held[q]) /\ \A k \in 1 .. m : h[c + k] = s[k]
    BY <1>1, <1>2, Behind
<1>4. PICK l \in Nat : l = c + m /\ l = Len(h)
    BY <1>3
<1>5. /\ BytesOf(t) \in Seq(Byte) /\ Len(BytesOf(t)) = n /\ \A i \in 1 .. n : BytesOf(t)[i] = t[i].byte
      /\ BytesOf(all) \in Seq(Byte) /\ Len(BytesOf(all)) = a /\ \A i \in 1 .. a : BytesOf(all)[i] = all[i].byte
    BY <1>1, <1>2, BytesOfSeq
<1>6. a = n + c /\ \A q \in 1 .. c : all[n + q].byte = held[q]
    <2>0. /\ BytesOf(t) \in Seq(Byte) /\ held \in Seq(Byte) /\ n \in Nat /\ c \in Nat
          /\ n = Len(BytesOf(t)) /\ c = Len(held)
        BY <1>1, <1>2, <1>5
    <2>1. /\ Len(BytesOf(t) \o held) = n + c
          /\ \A q \in 1 .. c : (BytesOf(t) \o held)[n + q] = held[q]
        BY ONLY <2>0, Behind, SMTT(30)
    <2>2. a = n + c
        BY <1>1, <1>5, <2>1
    <2>3. \A q \in 1 .. c : n + q \in 1 .. a
        BY <2>2
    <2> QED
        BY <1>1, <1>5, <2>1, <2>2, <2>3
<1>7. PICK b \in 0 .. l :
          /\ b = Boundary(h)
          /\ \/ /\ b = l
                /\ \A q \in 1 .. l : h[q] # 0 /\ (\A k \in q + 1 .. l : h[k] = 0) => q + Need(h[q]) - 1 <= l
             \/ /\ b < l /\ h[b + 1] # 0 /\ l - b < Need(h[b + 1])
                /\ \A k \in b + 2 .. l : h[k] = 0
    BY <1>3, <1>4, BoundaryCuts
<1>8. ok = b /\ ok \in 0 .. l
    BY <1>7
<1> DEFINE said == SubSeq(h, 1, ok)
           rest == SubSeq(h, ok + 1, Len(h))
           told2 == t \o Under(said, th)
           all2 == all \o Under(s, th)
<1>9. said \in Seq(Byte) /\ Len(said) = ok /\ \A q \in 1 .. ok : said[q] = h[q]
    BY <1>3, <1>4, <1>8, CutInTwo
<1>10. /\ rest \in Seq(Byte) /\ Len(rest) = l - ok /\ (\A q \in 1 .. l - ok : rest[q] = h[ok + q])
       /\ said \o rest = h
    <2>1. h \in Seq(Byte) /\ l \in Nat /\ l = Len(h) /\ ok \in 0 .. l
        BY <1>3, <1>4, <1>8
    <2>2. SubSeq(h, ok + 1, Len(h)) \in Seq(Byte) /\ Len(SubSeq(h, ok + 1, Len(h))) = l - ok
        BY ONLY <2>1, CutInTwo, Zenon
    <2>4. \A q \in 1 .. l - ok : SubSeq(h, ok + 1, Len(h))[q] = h[ok + q]
        BY ONLY <2>1, CutInTwo, Zenon
    <2>3. SubSeq(h, 1, ok) \o SubSeq(h, ok + 1, Len(h)) = h
        BY ONLY <2>1, CutInTwo, Zenon
    <2> QED
        BY ONLY <2>2, <2>3, <2>4, Zenon DEF said, rest
<1> HIDE DEF said, rest
<1>11. /\ Under(said, th) \in Seq(Marked) /\ Len(Under(said, th)) = ok /\ BytesOf(Under(said, th)) = said
       /\ \A k \in 1 .. ok : Under(said, th)[k] = [byte |-> said[k], rs |-> th]
    BY <1>9, UnderSeq
<1>12. /\ Under(s, th) \in Seq(Marked) /\ Len(Under(s, th)) = m /\ BytesOf(Under(s, th)) = s
       /\ \A k \in 1 .. m : Under(s, th)[k] = [byte |-> s[k], rs |-> th]
    BY <1>2, UnderSeq
<1>13. /\ told2 \in Seq(Marked) /\ Len(told2) = n + ok /\ (\A i \in 1 .. n : told2[i] = t[i])
       /\ \A q \in 1 .. ok : told2[n + q] = Under(said, th)[q]
    <2>1. /\ t \in Seq(Marked) /\ Under(said, th) \in Seq(Marked) /\ n \in Nat /\ n = Len(t)
          /\ ok \in Nat /\ ok = Len(Under(said, th))
        BY <1>1, <1>2, <1>8, <1>11
    <2> QED
        BY ONLY <2>1, Behind, SMTT(30)
<1>14. /\ all2 \in Seq(Marked) /\ Len(all2) = a + m /\ (\A i \in 1 .. a : all2[i] = all[i])
       /\ \A k \in 1 .. m : all2[a + k] = Under(s, th)[k]
    <2>1. /\ all \in Seq(Marked) /\ Under(s, th) \in Seq(Marked) /\ a \in Nat /\ a = Len(all)
          /\ m \in Nat /\ m = Len(Under(s, th))
        BY <1>1, <1>2, <1>12
    <2> QED
        BY ONLY <2>1, Behind, SMTT(30)
<1>15. BytesOf(told2) \o rest = BytesOf(all2)
    <2>1. BytesOf(told2) = BytesOf(t) \o said
        BY <1>1, <1>11, BytesOfTwo
    <2>2. BytesOf(all2) = BytesOf(all) \o s
        BY <1>1, <1>12, BytesOfTwo
    <2>3. (BytesOf(t) \o said) \o rest = BytesOf(t) \o (said \o rest)
        <3>1. BytesOf(t) \in Seq(Byte) /\ said \in Seq(Byte) /\ rest \in Seq(Byte)
            BY <1>5, <1>9, <1>10
        <3> QED
            BY ONLY <3>1, ConcatAssociative, SMTT(30)
    <2>4. (BytesOf(t) \o held) \o s = BytesOf(t) \o (held \o s)
        <3>1. BytesOf(t) \in Seq(Byte) /\ held \in Seq(Byte) /\ s \in Seq(Byte)
            BY <1>1, <1>5
        <3> QED
            BY ONLY <3>1, ConcatAssociative, SMTT(30)
    <2> QED
        BY <1>1, <1>10, <2>1, <2>2, <2>3, <2>4
<1>16. Partial(rest)
    <2>1. CASE ok = l
        BY <1>10, <2>1 DEF Partial
    <2>2. CASE ok < l
        <3>1. h[ok + 1] # 0 /\ l - ok < Need(h[ok + 1]) /\ \A k \in ok + 2 .. l : h[k] = 0
            <4>1. ~(b = l)
                BY <1>8, <2>2
            <4> QED
                BY <1>7, <1>8, <4>1, Zenon
        <3>2. rest[1] = h[ok + 1]
            <4>1. 1 \in 1 .. l - ok
                BY <1>8, <2>2
            <4> QED
                BY <1>10, <4>1
        <3>3. \A q \in 2 .. l - ok : rest[q] = 0
            <4>1. \A q \in 2 .. l - ok : ok + q \in ok + 2 .. l /\ q \in 1 .. l - ok
                BY <1>8
            <4> QED
                BY <1>10, <3>1, <4>1
        <3> QED
            BY <1>10, <3>1, <3>2, <3>3 DEF Partial
    <2> QED
        BY <1>8, <2>1, <2>2
<1> HIDE DEF told2, all2
<1>17. InText(told2, rest, all2)
    BY <1>13, <1>14, <1>15, <1>16 DEF InText
<1>18. ToldWhole(told2, all2)
    <2>1. a + m = n + l /\ n <= a /\ a <= n + l
        BY <1>4, <1>6
    <2>2. \A q \in 1 .. ok : told2[n + q].rs = th
        <3> SUFFICES ASSUME NEW q \in 1 .. ok
                     PROVE  told2[n + q].rs = th
            OBVIOUS
        <3>1. told2[n + q] = [byte |-> said[q], rs |-> th]
            BY <1>11, <1>13, Zenon
        <3> QED
            BY <3>1
    <2>3. \A i \in a + 1 .. n + l : all2[i].rs = th
        <3> SUFFICES ASSUME NEW i \in a + 1 .. n + l
                     PROVE  all2[i].rs = th
            OBVIOUS
        <3>1. PICK k \in 1 .. m : i = a + k
            <4>1. i - a \in 1 .. m /\ i = a + (i - a)
                BY <2>1
            <4> QED
                BY <4>1
        <3>2. all2[i] = [byte |-> s[k], rs |-> th]
            BY <1>12, <1>14, <3>1, Zenon
        <3> QED
            BY <3>2
    <2>4. \A q \in 1 .. l : all2[n + q].byte = h[q]
        <3> SUFFICES ASSUME NEW q \in 1 .. l
                     PROVE  all2[n + q].byte = h[q]
            OBVIOUS
        <3>1. CASE q \in 1 .. c
            <4>1. n + q \in 1 .. a
                BY <1>6, <3>1
            <4> QED
                BY <1>3, <1>6, <1>14, <3>1, <4>1
        <3>2. CASE ~(q \in 1 .. c)
            <4>1. PICK k \in 1 .. m : q = c + k
                <5>1. q - c \in 1 .. m /\ q = c + (q - c)
                    BY <1>4, <3>2
                <5> QED
                    BY <5>1
            <4>2. n + q = a + k
                BY <1>6, <4>1
            <4>3. all2[a + k] = [byte |-> s[k], rs |-> th]
                BY <1>12, <1>14, Zenon
            <4>4. h[q] = s[k]
                BY <1>3, <4>1
            <4>5. (all2[a + k]).byte = s[k]
                BY <4>3
            <4> QED
                BY <4>2, <4>4, <4>5
        <3> QED
            BY <3>1, <3>2
    <2>5. a > n => /\ h[1] # 0 /\ a - n < Need(h[1])
                   /\ \A q \in 2 .. a - n : h[q] = 0
        <3> SUFFICES ASSUME c > 0
                     PROVE  h[1] # 0 /\ c < Need(h[1]) /\ \A q \in 2 .. c : h[q] = 0
            <4>1. a > n <=> c > 0
                BY <1>6
            <4>2. a - n = c
                BY <1>6
            <4> QED
                BY <4>1, <4>2
        <3>1. held[1] # 0 /\ c < Need(held[1]) /\ \A k \in 2 .. c : held[k] = 0
            BY <1>1, <1>2 DEF Partial
        <3>2. 1 \in 1 .. c /\ \A q \in 2 .. c : q \in 1 .. c
            OBVIOUS
        <3> QED
            BY <1>3, <3>1, <3>2
    <2>6. /\ t \in Seq(Marked) /\ told2 \in Seq(Marked) /\ all \in Seq(Marked) /\ all2 \in Seq(Marked)
          /\ h \in Seq(Byte) /\ th \in BOOLEAN
          /\ n \in Nat /\ n = Len(t) /\ a \in Nat /\ a = Len(all) /\ l \in Nat /\ l = Len(h)
          /\ ok \in 0 .. l /\ ok = Boundary(h)
          /\ n <= a /\ Len(told2) = n + ok /\ Len(all2) = n + l /\ a <= n + l
        BY <1>1, <1>2, <1>3, <1>4, <1>8, <1>13, <1>14, <2>1
    <2>7. (\A i \in 1 .. n : told2[i] = t[i]) /\ \A i \in 1 .. a : all2[i] = all[i]
        BY <1>13, <1>14
    <2>8. ToldWhole(t, all)
        OBVIOUS
    <2>9. Grown(t, told2, all, all2, h, th, n, a, l, ok)
        BY ONLY <2>2, <2>3, <2>4, <2>5, <2>6, <2>7, Zenon DEF Grown
    <2> QED
        BY <2>8, <2>9, ToldWholeGrows, Zenon
<1> QED
    BY <1>17, <1>18 DEF said, rest, told2, all2

-----------------------------------------------------------------------------
(* The invariant.                                                          *)

Texts == [held : Seq(Byte), thinking : BOOLEAN, said : Seq(Byte)]

\* The text told and held back is that of the tokens, whole characters under
\* their flag while the job runs, and the flag is the one they leave behind.
TextInv ==
    /\ ids \in Seq(Tokens) /\ start \in BOOLEAN /\ gone \in BOOLEAN /\ text \in Texts
    /\ text.thinking = FlagAfter(ids, start)
    /\ InText(told, text.held, Arrived(ids, start))
    /\ job = "none" => told = << >>
    /\ job = "running" => ToldWhole(told, Arrived(ids, start))

LEMMA EmptyText ==
    ASSUME NEW t \in BOOLEAN
    PROVE  FlagAfter(<< >>, t) = t /\ Arrived(<< >>, t) = << >>
<1>1. << >> \in Seq(Tokens) /\ DOMAIN << >> = {}
    OBVIOUS
<1>2. Tags(<< >>) = {}
    BY <1>1 DEF Tags
<1>3. Arrived(<< >>, t) = FlattenSeq([i \in DOMAIN << >> |-> Spoken(SubSeq(<< >>, 1, i - 1), << >>[i], t)])
    BY <1>1, ArrivedParts
<1>4. [i \in DOMAIN << >> |-> Spoken(SubSeq(<< >>, 1, i - 1), << >>[i], t)] = << >>
    BY <1>1
<1>5. FlattenSeq(<< >>) = << >>
    BY DEF FlattenSeq
<1> QED
    BY <1>2, <1>3, <1>4, <1>5 DEF FlagAfter

LEMMA NothingTold ==
    ASSUME NEW all
    PROVE  ToldWhole(<< >>, all)
BY DEF ToldWhole

LEMMA InitTextInv == Init => TextInv
<1> SUFFICES ASSUME Init
             PROVE  TextInv
    OBVIOUS
<1>1. /\ ids = << >> /\ start \in BOOLEAN /\ told = << >> /\ gone = FALSE /\ job = "none"
      /\ text = [held |-> << >>, thinking |-> start, said |-> << >>]
    BY DEF Init
<1>2. << >> \in Seq(Tokens) /\ << >> \in Seq(Byte) /\ << >> \in Seq(Marked) /\ Len(<< >>) = 0
    OBVIOUS
<1>3. text \in Texts /\ text.held = << >> /\ text.thinking = start
    BY <1>1, <1>2 DEF Texts
<1>4. Partial(<< >>)
    BY <1>2 DEF Partial
<1>5. BytesOf(<< >>) \o << >> = BytesOf(<< >>)
    <2>1. BytesOf(<< >>) \in Seq(Byte)
        BY <1>2, BytesOfSeq
    <2> QED
        BY <2>1
<1>6. InText(<< >>, << >>, << >>)
    BY <1>2, <1>4, <1>5 DEF InText
<1> QED
    BY <1>1, <1>2, <1>3, <1>6, EmptyText DEF TextInv

\* What emit is called with goes behind what was told.
LEMMA EmitTells ==
    ASSUME NEW s \in Seq(Byte), Emit(s)
    PROVE  told' = told \o Under(s, text'.thinking) /\ gone' \in BOOLEAN
BY DEF Emit, Under

\* A tag: the flag changes, and nothing else.
LEMMA TagTextInv ==
    ASSUME TextInv, NEW id \in Tokens, Out(id), id = ThinkOpen \/ (id = ThinkClose /\ text.thinking)
    PROVE  TextInv'
<1>1. /\ ids \in Seq(Tokens) /\ start \in BOOLEAN /\ gone \in BOOLEAN /\ text \in Texts
      /\ text.thinking = FlagAfter(ids, start) /\ InText(told, text.held, Arrived(ids, start))
      /\ job = "running" /\ job' = job /\ start' = start /\ ids' = Append(ids, id) /\ text' = Taken(text, id)
      /\ ToldWhole(told, Arrived(ids, start))
    BY DEF TextInv, Out
<1>2. text' = [text EXCEPT !.thinking = (id = ThinkOpen), !.said = << >>]
    <2>1. CASE id = ThinkOpen
        BY <1>1, <2>1, EmissionAssumption DEF Taken
    <2>2. CASE id # ThinkOpen
        BY <1>1, <2>2 DEF Taken
    <2> QED
        BY <2>1, <2>2
<1>3. text' \in Texts /\ text'.held = text.held /\ text'.thinking = (id = ThinkOpen) /\ text'.said = << >>
    <2>1. << >> \in Seq(Byte) /\ (id = ThinkOpen) \in BOOLEAN
        OBVIOUS
    <2> QED
        BY <1>1, <1>2, <2>1, Zenon DEF Texts
<1>4. UNCHANGED <<told, gone>>
    BY <1>3 DEF Out
<1>5. FlagAfter(ids', start') = (id = ThinkOpen)
    BY <1>1, FlagAppend
<1>6. Arrived(ids', start') = Arrived(ids, start)
    <2>1. Arrived(ids, start) \in Seq(Marked) /\ Arrived(ids', start') = Arrived(ids, start) \o Spoken(ids, id, start)
        BY <1>1, ArrivedAppend
    <2>2. Spoken(ids, id, start) = << >>
        BY <1>1 DEF Spoken
    <2> QED
        BY <2>1, <2>2
<1>7. ids' \in Seq(Tokens)
    BY <1>1
<1> QED
    BY <1>1, <1>3, <1>4, <1>5, <1>6, <1>7 DEF TextInv

\* A token with text: its bytes arrive under the flag in force.
LEMMA PieceTextInv ==
    ASSUME TextInv, NEW id \in Tokens, Out(id), ~(id = ThinkOpen \/ (id = ThinkClose /\ text.thinking))
    PROVE  TextInv'
<1>1. /\ ids \in Seq(Tokens) /\ start \in BOOLEAN /\ gone \in BOOLEAN /\ text \in Texts
      /\ text.thinking = FlagAfter(ids, start) /\ InText(told, text.held, Arrived(ids, start))
      /\ job = "running" /\ job' = job /\ start' = start /\ ids' = Append(ids, id) /\ text' = Taken(text, id)
      /\ ToldWhole(told, Arrived(ids, start))
    BY DEF TextInv, Out
<1>2. text.held \in Seq(Byte) /\ text.thinking \in BOOLEAN
    BY <1>1 DEF Texts
<1>3. Piece[id] \in Seq(Byte)
    BY EmissionAssumption
<1>4. PICK th \in BOOLEAN : th = text.thinking
    BY <1>2
<1>5. PICK h : h = text.held \o Piece[id]
    OBVIOUS
<1>6. PICK ok : ok = Boundary(h)
    OBVIOUS
<1>7. text' = [text EXCEPT !.held = SubSeq(h, ok + 1, Len(h)), !.said = SubSeq(h, 1, ok)]
    BY <1>1, <1>5, <1>6 DEF Taken
<1>8. h \in Seq(Byte) /\ ok \in 0 .. Len(h) /\ Len(h) \in Nat
    <2>1. h \in Seq(Byte)
        BY <1>2, <1>3, <1>5
    <2>2. PICK l \in Nat : l = Len(h)
        BY <2>1
    <2>3. \E b \in 0 .. l : b = Boundary(h)
        BY <2>1, <2>2, BoundaryCuts
    <2> QED
        BY <1>6, <2>1, <2>2, <2>3
<1>9. SubSeq(h, 1, ok) \in Seq(Byte) /\ SubSeq(h, ok + 1, Len(h)) \in Seq(Byte) /\ Len(SubSeq(h, 1, ok)) = ok
    BY <1>8, CutInTwo
<1>10. /\ text' \in Texts /\ text'.held = SubSeq(h, ok + 1, Len(h)) /\ text'.said = SubSeq(h, 1, ok)
       /\ text'.thinking = th
    BY <1>1, <1>4, <1>7, <1>9, Zenon DEF Texts
<1>11. told' = told \o Under(SubSeq(h, 1, ok), th) /\ gone' \in BOOLEAN
    <2>1. CASE text'.said # << >>
        <3>1. Emit(SubSeq(h, 1, ok))
            BY <1>10, <2>1 DEF Out
        <3> QED
            BY <1>9, <1>10, <3>1, EmitTells
    <2>2. CASE text'.said = << >>
        <3>1. UNCHANGED <<told, gone>>
            BY <2>2 DEF Out
        <3>2. Under(<< >>, th) = << >>
            BY DEF Under
        <3>3. told \in Seq(Marked)
            BY <1>1 DEF InText
        <3>4. told \o << >> = told
            BY <3>3
        <3> QED
            BY <1>1, <1>10, <2>2, <3>1, <3>2, <3>4
    <2> QED
        BY <2>1, <2>2
<1>12. Arrived(ids', start') = Arrived(ids, start) \o Under(Piece[id], th)
    <2>1. Arrived(ids', start') = Arrived(ids, start) \o Spoken(ids, id, start)
        BY <1>1, ArrivedAppend
    <2>2. Spoken(ids, id, start) = Under(Piece[id], th)
        BY <1>1, <1>4 DEF Spoken, Under
    <2> QED
        BY <2>1, <2>2
<1>13. InText(told', text'.held, Arrived(ids', start')) /\ ToldWhole(told', Arrived(ids', start'))
    <2>1. /\ InText(told \o Under(SubSeq(h, 1, ok), th), SubSeq(h, ok + 1, Len(h)),
                    Arrived(ids, start) \o Under(Piece[id], th))
          /\ ToldWhole(told \o Under(SubSeq(h, 1, ok), th), Arrived(ids, start) \o Under(Piece[id], th))
        BY <1>1, <1>3, <1>5, <1>6, TextGrows
    <2> QED
        BY <1>10, <1>11, <1>12, <2>1, Zenon
<1>14. FlagAfter(ids', start') = th
    <2>1. FlagAfter(ids', start') = IF id \in {ThinkOpen, ThinkClose} THEN id = ThinkOpen ELSE FlagAfter(ids, start)
        BY <1>1, FlagAppend
    <2>2. CASE id \in {ThinkOpen, ThinkClose}
        <3>1. id = ThinkClose /\ th = FALSE /\ (id = ThinkOpen) = FALSE
            BY <1>4, <2>2, EmissionAssumption
        <3> QED
            BY <2>1, <2>2, <3>1
    <2>3. CASE id \notin {ThinkOpen, ThinkClose}
        BY <1>1, <1>4, <2>1, <2>3, Zenon
    <2> QED
        BY <2>2, <2>3
<1>15. ids' \in Seq(Tokens)
    BY <1>1
<1> QED
    BY <1>1, <1>10, <1>11, <1>13, <1>14, <1>15 DEF TextInv

\* The bytes held back go out when the job ends, unless nobody is listening.
LEMMA FlushTextInv ==
    ASSUME TextInv, Flush
    PROVE  TextInv'
<1>1. /\ ids \in Seq(Tokens) /\ start \in BOOLEAN /\ gone \in BOOLEAN /\ text \in Texts
      /\ text.thinking = FlagAfter(ids, start) /\ InText(told, text.held, Arrived(ids, start))
      /\ job' = "flushed" /\ UNCHANGED <<ids, start>>
    BY DEF TextInv, Flush
<1>2. << >> \in Seq(Byte) /\ text.held \in Seq(Byte) /\ text.thinking \in BOOLEAN
    BY <1>1 DEF Texts
<1>3. /\ text' \in Texts /\ text'.thinking = text.thinking
      /\ text'.held = IF gone THEN text.held ELSE << >>
    <2>1. text' = [text EXCEPT !.held = IF gone THEN text.held ELSE << >>, !.said = << >>]
        BY DEF Flush
    <2>2. (IF gone THEN text.held ELSE << >>) \in Seq(Byte)
        BY <1>2
    <2> QED
        BY <1>1, <1>2, <2>1, <2>2, Zenon DEF Texts
<1>4. InText(told', text'.held, Arrived(ids', start')) /\ gone' \in BOOLEAN
    <2>1. CASE text.held # << >> /\ ~gone
        <3>1. Emit(text.held)
            BY <2>1 DEF Flush
        <3>2. told' = told \o Under(text.held, text.thinking) /\ gone' \in BOOLEAN
            BY <1>2, <1>3, <3>1, EmitTells
        <3>3. /\ told \in Seq(Marked) /\ Arrived(ids, start) \in Seq(Marked)
              /\ BytesOf(told) \o text.held = BytesOf(Arrived(ids, start))
            BY <1>1 DEF InText
        <3>4. /\ Under(text.held, text.thinking) \in Seq(Marked)
              /\ BytesOf(Under(text.held, text.thinking)) = text.held
            BY <1>2, UnderSeq
        <3>5. BytesOf(told') = BytesOf(Arrived(ids, start)) /\ told' \in Seq(Marked)
            <4>1. BytesOf(told \o Under(text.held, text.thinking))
                      = BytesOf(told) \o BytesOf(Under(text.held, text.thinking))
                BY <3>3, <3>4, BytesOfTwo
            <4>2. told \o Under(text.held, text.thinking) \in Seq(Marked)
                BY <3>3, <3>4
            <4> QED
                BY <3>2, <3>3, <3>4, <4>1, <4>2, Zenon
        <3>6. BytesOf(Arrived(ids, start)) \o << >> = BytesOf(Arrived(ids, start))
            <4>1. BytesOf(Arrived(ids, start)) \in Seq(Byte)
                BY <3>3, BytesOfSeq
            <4> QED
                BY <4>1
        <3>7. text'.held = << >> /\ Partial(<< >>)
            BY <1>2, <1>3, <2>1 DEF Partial
        <3> QED
            BY <1>1, <3>2, <3>3, <3>5, <3>6, <3>7 DEF InText
    <2>2. CASE ~(text.held # << >> /\ ~gone)
        <3>1. UNCHANGED <<told, gone>>
            BY <2>2 DEF Flush
        <3>2. text'.held = text.held
            BY <1>3, <2>2
        <3> QED
            BY <1>1, <3>1, <3>2
    <2> QED
        BY <2>1, <2>2
<1> QED
    BY <1>1, <1>3, <1>4 DEF TextInv

LEMMA NextTextInv == HttpInv /\ TextInv /\ [Next]_vars => TextInv'
<1> SUFFICES ASSUME HttpInv, TextInv, [Next]_vars
             PROVE  TextInv'
    OBVIOUS
<1>1. CASE UNCHANGED jobVars
    BY <1>1 DEF TextInv, jobVars
<1>2. CASE Generate
    <2>1. pc = "generate" /\ UNCHANGED <<ids, start, text, gone, told>>
        BY <1>2 DEF Generate
    <2>2. told = << >>
        BY <2>1 DEF HttpInv, FlowInv, TextInv
    <2>3. job' = job \/ job' = "running"
        BY <1>2 DEF Generate
    <2>4. ToldWhole(told, Arrived(ids, start))
        BY <2>2, NothingTold
    <2> QED
        BY <2>1, <2>2, <2>3, <2>4 DEF TextInv
<1>3. CASE SignalDone
    BY <1>3 DEF SignalDone, TextInv
<1>4. ASSUME NEW id \in Tokens, Out(id)
      PROVE  TextInv'
    BY <1>4, TagTextInv, PieceTextInv
<1>5. CASE Flush
    BY <1>5, FlushTextInv
<1>6. CASE \/ ClientLeaves \/ CutShort \/ Handle \/ StateEvent \/ WaitDone \/ LastChunk \/ Catch \/ Close
           \/ \E r \in Requests : Receive(r)
    <2>1. UNCHANGED jobVars
        BY <1>6 DEF ClientLeaves, CutShort, Handle, StateEvent, WaitDone, LastChunk, Catch, Close, Receive
    <2> QED
        BY <1>1, <2>1
<1>7. CASE UNCHANGED vars
    BY <1>1, <1>7 DEF vars, jobVars
<1> QED
    BY <1>2, <1>3, <1>4, <1>5, <1>6, <1>7 DEF Next, Thread, SchedulerThread

\* What a client reads is the text of the tokens, in order and complete but for
\* the bytes held back; characters are whole, each under the flag its last byte
\* arrived under (Server::out of serve.cpp), for every vocabulary, every way its
\* tokens cut characters in pieces and every place of the thinking tags.
THEOREM TextIsTheTokens == Spec => []TextOfTokens
<1>1. TextInv => TextOfTokens
    <2> SUFFICES ASSUME TextInv
                 PROVE  TextOfTokens
        OBVIOUS
    <2>1. PICK all : all = Arrived(ids, start)
        OBVIOUS
    <2>2. PICK n \in Nat : n = Len(told)
        BY DEF TextInv, InText
    <2>3. /\ all \in Seq(Marked) /\ BytesOf(told) \o text.held = BytesOf(all)
          /\ job = "running" => ToldWhole(told, all)
        BY <2>1 DEF TextInv, InText
    <2>4. DOMAIN all = 1 .. Len(all)
        BY <2>3
    <2>5. [i \in 1 .. n |-> told[i].byte] \o text.held = [i \in DOMAIN all |-> all[i].byte]
        BY <2>2, <2>3, <2>4 DEF BytesOf
    <2>6. (job = "running" /\ IsUtf8(all)) =>
              \A i \in 1 .. n : LastOf(all, i) <= n /\ told[i].rs = all[LastOf(all, i)].rs
        BY <2>2, <2>3 DEF ToldWhole
    <2> QED
        BY <2>1, <2>2, <2>5, <2>6, Zenon DEF TextOfTokens
<1> QED
    BY InitHttpInv, NextHttpInv, InitTextInv, NextTextInv, <1>1, PTL DEF Spec

-----------------------------------------------------------------------------

Spots == {"receive", "handle", "event", "alive", "generate", "wait", "last", "catch", "end", "closed"}

\* Where the connection's thread is, what it plans and where its job is.
PlaceInv == plan \in Plans /\ pc \in Spots /\ job \in {"none", "running", "flushed", "done"}

LEMMA RoutePlanned == \A r \in Requests : Route(r) \in Plans
BY DEF Route, Answer, Throw, Plans

LEMMA NextPlaceInv == HttpInv /\ PlaceInv /\ [Next]_vars => PlaceInv'
<1> SUFFICES ASSUME HttpInv, PlaceInv, [Next]_vars
             PROVE  PlaceInv'
    OBVIOUS
<1>1. CASE UNCHANGED vars
    BY <1>1 DEF vars, PlaceInv
<1>2. CASE ClientLeaves
    BY <1>2 DEF ClientLeaves, jobVars, PlaceInv
<1>3. ASSUME NEW r \in Requests, Receive(r)
      PROVE  PlaceInv'
    BY <1>3, RoutePlanned DEF Receive, jobVars, PlaceInv, Spots
<1>4. CASE CutShort
    BY <1>4 DEF CutShort, jobVars, PlaceInv, Spots, Throw, Plans
<1>5. CASE Handle
    <2>1. plan' = plan /\ job' = job
        BY <1>5 DEF Handle, jobVars
    <2>2. pc' \in Spots
        <3>1. CASE plan.what = "throw"
            BY <1>5, <3>1 DEF Handle, Spots
        <3>2. CASE plan.what = "send"
            BY <1>5, <3>2 DEF Handle, Spots, Send, Write
        <3>3. CASE plan.what = "sse"
            BY <1>5, <3>3 DEF Handle, Spots, BeginStream, Write
        <3>4. CASE plan.what = "stream"
            BY <1>5, <3>4 DEF Handle, Spots, BeginStream, Write
        <3>5. CASE plan.what = "plain"
            BY <1>5, <3>5 DEF Handle, Spots
        <3>6. plan.what \in {"throw", "send", "sse", "stream", "plain"}
            BY <1>5 DEF Handle, HttpInv, FlowInv
        <3> QED
            BY <3>1, <3>2, <3>3, <3>4, <3>5, <3>6
    <2> QED
        BY <2>1, <2>2 DEF PlaceInv
<1>6. CASE StateEvent
    BY <1>6 DEF StateEvent, jobVars, PlaceInv, Spots, Write, AliveFails
<1>7. CASE Generate
    BY <1>7 DEF Generate, PlaceInv, Spots
<1>8. CASE WaitDone
    BY <1>8 DEF WaitDone, jobVars, PlaceInv, Spots, Write, Send
<1>9. CASE LastChunk
    BY <1>9 DEF LastChunk, jobVars, PlaceInv, Spots, Write
<1>10. CASE Catch
    BY <1>10 DEF Catch, jobVars, PlaceInv, Spots
<1>11. CASE Close
    BY <1>11 DEF Close, jobVars, PlaceInv, Spots
<1>12. CASE SchedulerThread \/ \E id \in Tokens : Out(id)
    BY <1>12 DEF SchedulerThread, Flush, SignalDone, Out, PlaceInv
<1> QED
    BY <1>1, <1>2, <1>3, <1>4, <1>5, <1>6, <1>7, <1>8, <1>9, <1>10, <1>11, <1>12 DEF Next, Thread

\* The bytes held back are those of one unfinished character, three at most,
\* whatever the tokens are (Server::out of serve.cpp); and every variable has its
\* type.
THEOREM TypesOfResponse == Spec => []TypeOK
<1>1. Init => PlaceInv
    BY DEF Init, PlaceInv, Spots, NoPlan, Plans
<1>2. HttpInv /\ TextInv /\ PlaceInv => TypeOK
    <2> SUFFICES ASSUME HttpInv, TextInv, PlaceInv
                 PROVE  TypeOK
        OBVIOUS
    <2>1. wire \in Seq(Words)
        <3>1. << >> \in Seq(Words) /\ <<"full">> \in Seq(Words)
            BY DEF Words
        <3>2. Going(wire) => wire \in Seq(Words)
            BY DEF Going
        <3>3. Ended(wire) => wire \in Seq(Words)
            BY DEF Ended, Words
        <3> QED
            BY <3>1, <3>2, <3>3 DEF HttpInv, WireInv
    <2>2. text.held \in BoundedSeq(Byte, 3)
        <3>1. PICK h : h = text.held
            OBVIOUS
        <3>2. h \in Seq(Byte) /\ Len(h) <= 3
            BY <3>1, PartialShort DEF TextInv, InText, Partial
        <3>3. PICK m \in Nat : m = Len(h)
            BY <3>2
        <3>4. m \in 0 .. 3 /\ h \in [1 .. m -> Byte]
            BY <3>2, <3>3
        <3> QED
            BY <3>1, <3>4, Zenon DEF BoundedSeq, SeqOf
    <2>3. text \in [held : BoundedSeq(Byte, 3), thinking : BOOLEAN, said : Seq(Byte)]
        BY <2>2, Zenon DEF TextInv, Texts
    <2>4. told \in Seq(Marked) /\ ids \in Seq(Tokens) /\ start \in BOOLEAN /\ gone \in BOOLEAN
        BY DEF TextInv, InText
    <2>5. here \in BOOLEAN /\ streaming \in BOOLEAN /\ done \in BOOLEAN
        BY DEF HttpInv, WireInv
    <2> QED
        BY <2>1, <2>3, <2>4, <2>5 DEF TypeOK, PlaceInv, Spots, Words, Marked
<1> QED
    BY InitHttpInv, NextHttpInv, InitTextInv, NextTextInv, NextPlaceInv, <1>1, <1>2, PTL DEF Spec
=============================================================================
