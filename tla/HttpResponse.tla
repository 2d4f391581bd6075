---------------------------- MODULE HttpResponse ----------------------------
(***************************************************************************)
(* One connection of the server (front/http.cpp, and the handler of main   *)
(* in front/serve.cpp): a thread of its own receives the request, routes   *)
(* it and answers it, with one plain response or with a chunked stream.  A *)
(* generation is done by the scheduler thread, which writes the deltas of  *)
(* a stream to the socket while the handler waits; the client may leave at *)
(* any time, and from then on every write throws.  A client whose leaving  *)
(* has not reached the socket yet counts as present.                       *)
(*                                                                         *)
(* "wire" holds what the socket took, a word per write: "full" (a complete *)
(* response), "head" (of a stream), "delta", "event", "keepalive",         *)
(* "final", "[DONE]" and "error" (chunks), "end" (the terminating chunk).  *)
(***************************************************************************)
EXTENDS Emission

CONSTANTS
    Router,         \* llama.cpp's router endpoints are served (not --no-router)
    MaxIds,         \* bound on the tokens of a generation
    MaxAlive        \* bound on the keepalives of a state stream

ASSUME HttpAssumption ==
    /\ Router \in BOOLEAN
    /\ MaxIds \in Nat
    /\ MaxAlive \in Nat

Generations == {"/v1/chat/completions", "/v1/completions"}
ApiPaths == Generations \cup
    {"/health", "/props", "/metrics", "/v1/models", "/models", "/models/load", "/models/unload", "/models/sse"}

\* A request: "file", the path names a file of the web UI or falls back to its
\* index; "body", what is in it: no JSON or nothing to answer ("bad"), another
\* model ("other"), or what the endpoint wants.
Requests ==
    [method : {"GET", "POST", "OPTIONS"}, path : ApiPaths \cup {"/page"},
     file : BOOLEAN, body : {"good", "other", "bad"}, stream : BOOLEAN]

Answer(status) == [what |-> "send", status |-> status]
Throw == [what |-> "throw", status |-> 500]

\* What the handler is going to do with a request.
Route(r) ==
    LET IsModels == r.path \in {"/v1/models", "/models"} /\ r.method = "GET"
        OnRouter(p) == Router /\ r.path = p
    IN  CASE r.method = "OPTIONS" \/ r.path \in {"/health", "/props"} -> Answer(200)
          [] r.method = "GET" /\ r.path \notin ApiPaths /\ r.file -> Answer(200)
          [] IsModels -> Answer(200)
          [] OnRouter("/models/load") ->
                CASE r.body = "good" -> Answer(200) [] r.body = "other" -> Answer(404) [] OTHER -> Throw
          [] OnRouter("/models/unload") \/ OnRouter("/models") -> Answer(400)
          [] OnRouter("/models/sse") -> [what |-> "sse", status |-> 200]
          [] r.path \in Generations /\ r.body = "bad" -> Throw
          [] r.path \in Generations -> [what |-> IF r.stream THEN "stream" ELSE "plain", status |-> 200]
          [] OTHER -> Answer(404)

NoPlan == [what |-> "none", status |-> 0]
Plans == [what : {"none", "throw", "send", "sse", "stream", "plain"}, status : {0, 200, 400, 404, 500}]

VARIABLES
    here,           \* the client is there: writes reach it
    pc,             \* where the connection's thread is
    plan,           \* what it does with its request
    streaming, done,    \* Response::streaming_, done_
    wire,           \* what the socket took
    job,            \* "none", "running", "flushed", "done": the job's way through the scheduler
    ids,            \* tokens that went through out
    start,          \* thinking_open: the prompt ended in an open thinking tag
    text,           \* bytes held back and thinking flag of the job, last piece said
    gone,           \* an emit failed
    told            \* what emit was called with: bytes, each with its flag

vars == <<here, pc, plan, streaming, done, wire, job, ids, start, text, gone, told>>
jobVars == <<job, ids, start, text, gone, told>>

Init ==
    /\ here = TRUE /\ pc = "receive" /\ plan = NoPlan
    /\ streaming = FALSE /\ done = FALSE /\ wire = << >>
    /\ job = "none" /\ ids = << >> /\ start \in BOOLEAN
    /\ text = [held |-> << >>, thinking |-> start, said |-> << >>]
    /\ gone = FALSE /\ told = << >>

ClientLeaves ==
    /\ here
    /\ pc # "closed"
    /\ here' = FALSE
    /\ UNCHANGED <<pc, plan, streaming, done, wire>> /\ UNCHANGED jobVars

-----------------------------------------------------------------------------
(* The connection's thread.                                                *)

\* A write and what follows it: the client is there and "next" comes after it,
\* or it throws and the handler is left for its catch.
Write(words, next) ==
    \/ here /\ wire' = wire \o words /\ pc' = next
    \/ ~here /\ UNCHANGED wire /\ pc' = "catch"

\* Response::send, which is made once.
Send(next) ==
    IF done THEN pc' = next /\ UNCHANGED <<wire, done>>
    ELSE Write(<<"full">>, next) /\ done' = here

\* Faulty variant: a stream is begun without taking note of it.
BeginQuietly(next) == Write(<<"head">>, next) /\ UNCHANGED streaming

\* Response::begin_stream.
BeginStream(next) == Write(<<"head">>, next) /\ streaming' = here

\* Faulty variant: the terminating chunk whenever asked for.
EndAgain == streaming

\* Response::end has something to write.
Unended == streaming /\ ~done

\* The whole request arrived.
Receive(r) ==
    /\ pc = "receive"
    /\ plan' = Route(r)
    /\ pc' = "handle"
    /\ UNCHANGED <<here, streaming, done, wire>> /\ UNCHANGED jobVars

\* The client sends no more: without a complete header the connection is
\* closed at once, a body cut short is handled as it is and does not parse.
CutShort ==
    /\ pc = "receive"
    /\ \/ pc' = "closed" /\ UNCHANGED plan
       \/ pc' = "handle" /\ plan' = Throw
    /\ UNCHANGED <<here, streaming, done, wire>> /\ UNCHANGED jobVars

\* The handler up to its first write, or to the generation of a plain answer.
Handle ==
    /\ pc = "handle"
    /\ CASE plan.what = "throw" -> pc' = "catch" /\ UNCHANGED <<streaming, done, wire>>
         [] plan.what = "send" -> Send("end") /\ UNCHANGED streaming
         [] plan.what = "sse" -> BeginStream("event") /\ UNCHANGED done
         [] plan.what = "stream" -> BeginStream("generate") /\ UNCHANGED done
         [] plan.what = "plain" -> pc' = "generate" /\ UNCHANGED <<streaming, done, wire>>
    /\ UNCHANGED <<here, plan>> /\ UNCHANGED jobVars

\* Faulty variant: the failed write is caught inside the loop.
LoopOn == "alive"

\* The try around the keepalive loop ends it at the first write that fails; the
\* end() after it fails again, which leaves the handler for its catch.
AliveFails == "catch"

\* /models/sse: one event, then keepalives until a write fails.
StateEvent ==
    /\ \/ pc = "event" /\ Write(<<"event">>, "alive")
       \/ pc = "alive" /\ here /\ Len(wire) < MaxAlive + 2 /\ Write(<<"keepalive">>, "alive")
       \/ pc = "alive" /\ ~here /\ pc' = AliveFails /\ UNCHANGED wire
    /\ UNCHANGED <<here, plan, streaming, done>> /\ UNCHANGED jobVars

\* Server::generate: a prompt the context has no room for throws, others queue.
Generate ==
    /\ pc = "generate"
    /\ \/ pc' = "catch" /\ UNCHANGED job
       \/ pc' = "wait" /\ job' = "running"
    /\ UNCHANGED <<here, plan, streaming, done, wire, ids, start, text, gone, told>>

\* The job is done: the chunk with the usage, [DONE] and the end, or the answer.
WaitDone ==
    /\ pc = "wait"
    /\ job = "done"
    /\ IF plan.what = "stream" THEN Write(<<"final">>, "last") /\ UNCHANGED done ELSE Send("end")
    /\ UNCHANGED <<here, plan, streaming>> /\ UNCHANGED jobVars

LastChunk ==
    /\ pc = "last"
    /\ Write(<<"[DONE]">> \o IF Unended THEN <<"end">> ELSE << >>, "end")
    /\ done' = (done \/ (here /\ streaming))
    /\ UNCHANGED <<here, plan, streaming>> /\ UNCHANGED jobVars

\* The catch around the handler: a 500 when no stream was begun, else an error
\* chunk and the end; a write that throws here is given up.
Catch ==
    /\ pc = "catch"
    /\ pc' = "end"
    /\ IF ~here THEN UNCHANGED <<wire, done>>
       ELSE /\ wire' = wire \o (IF ~streaming THEN (IF done THEN << >> ELSE <<"full">>)
                                ELSE <<"error">> \o IF Unended THEN <<"end">> ELSE << >>)
            /\ done' = TRUE
    /\ UNCHANGED <<here, plan, streaming>> /\ UNCHANGED jobVars

\* The end() after the handler, and close.
Close ==
    /\ pc = "end"
    /\ pc' = "closed"
    /\ IF here /\ Unended THEN wire' = Append(wire, "end") /\ done' = TRUE ELSE UNCHANGED <<wire, done>>
    /\ UNCHANGED <<here, plan, streaming>> /\ UNCHANGED jobVars

-----------------------------------------------------------------------------
(* The scheduler thread, working on the connection's job.                  *)

\* j.emit with some bytes: a stream writes a delta, which may throw; a plain
\* answer collects them.
Emit(bytes) ==
    /\ told' = told \o [i \in DOMAIN bytes |-> [byte |-> bytes[i], rs |-> text'.thinking]]
    /\ wire' = IF here /\ plan.what = "stream" THEN Append(wire, "delta") ELSE wire
    /\ gone' = (~here /\ plan.what = "stream")

\* Server::out.
Out(id) ==
    /\ job = "running"
    /\ ~gone
    /\ Len(ids) < MaxIds
    /\ ids' = Append(ids, id)
    /\ text' = Taken(text, id)
    /\ IF text'.said # << >> THEN Emit(text'.said) ELSE UNCHANGED <<told, wire, gone>>
    /\ UNCHANGED <<here, pc, plan, streaming, done, job, start>>

\* Server::finish, the bytes still held back.
Flush ==
    /\ job = "running"
    /\ job' = "flushed"
    /\ text' = [text EXCEPT !.held = IF gone THEN @ ELSE << >>, !.said = << >>]
    /\ IF text.held # << >> /\ ~gone THEN Emit(text.held) ELSE UNCHANGED <<told, wire, gone>>
    /\ UNCHANGED <<here, pc, plan, streaming, done, ids, start>>

\* finish has reset the slot and sets done.
SignalDone ==
    /\ job = "flushed"
    /\ job' = "done"
    /\ UNCHANGED <<here, pc, plan, streaming, done, wire, ids, start, text, gone, told>>

-----------------------------------------------------------------------------

Thread == Handle \/ StateEvent \/ Generate \/ WaitDone \/ LastChunk \/ Catch \/ Close
SchedulerThread == Flush \/ SignalDone

Next ==
    \/ ClientLeaves
    \/ \E r \in Requests : Receive(r)
    \/ CutShort
    \/ Thread
    \/ \E id \in Tokens : Out(id)
    \/ SchedulerThread
    \/ pc = "closed" /\ UNCHANGED vars

Spec == Init /\ [][Next]_vars

\* Both threads go on; a client that left also sends no more.  The end of a
\* generation is the token limit's (Scheduler!Answered).
FairSpec == Spec /\ WF_vars(Thread) /\ WF_vars(SchedulerThread) /\ WF_vars(~here /\ CutShort)

-----------------------------------------------------------------------------
(* Properties.                                                             *)

Chunks == {"delta", "event", "keepalive", "final", "[DONE]", "error"}

\* Bytes held back are those of an unfinished character, three at most.
TypeOK ==
    /\ here \in BOOLEAN /\ plan \in Plans
    /\ pc \in {"receive", "handle", "event", "alive", "generate", "wait", "last", "catch", "end", "closed"}
    /\ streaming \in BOOLEAN /\ done \in BOOLEAN
    /\ wire \in Seq(Chunks \cup {"full", "head", "end"})
    /\ job \in {"none", "running", "flushed", "done"}
    /\ ids \in Seq(Tokens) /\ start \in BOOLEAN /\ gone \in BOOLEAN
    /\ text \in [held : BoundedSeq(Byte, 3), thinking : BOOLEAN, said : Seq(Byte)]
    /\ told \in Seq([byte : Byte, rs : BOOLEAN])

\* At most one response is on the wire: a complete one alone, or the head of a
\* stream, then chunks, then one terminating chunk with nothing after it --
\* whichever of the two threads wrote them and whatever failed on the way.
OneResponse ==
    \A i \in DOMAIN wire :
        /\ wire[i] \in {"full", "head"} <=> i = 1
        /\ wire[i] \in {"full", "end"} => i = Len(wire)

\* A client that stayed and sent its request has its answer when the connection
\* closes: complete, and a stream of text says how it ended, with [DONE] or an
\* error, after every piece of the text.
Answered ==
    (pc = "closed" /\ here /\ plan # NoPlan) =>
        \/ wire = <<"full">> /\ plan.what \in {"send", "throw", "plain"}
        \/ /\ plan.what = "stream"
           /\ wire[Len(wire)] = "end"
           /\ \/ wire[Len(wire) - 1] = "[DONE]" /\ job = "done"
              \/ wire[Len(wire) - 1] = "error" /\ job = "none"

\* The text emit is given is that of the tokens, in order and complete but for
\* the bytes held back, and when it is UTF-8 each character goes out
\* whole, under the flag in force when its last byte arrived: a thinking tag
\* in the middle of a character takes the character's first bytes along.
TextOfTokens ==
    LET all == Arrived(ids, start)
        n == Len(told)
    IN  /\ [i \in 1 .. n |-> told[i].byte] \o text.held = [i \in DOMAIN all |-> all[i].byte]
        /\ (job = "running" /\ IsUtf8(all)) =>
              \A i \in 1 .. n : LastOf(all, i) <= n /\ told[i].rs = all[LastOf(all, i)].rs

\* A client that left does not keep its thread: the keepalives, a generation
\* it no longer reads and a request it never completed all come to an end.
ThreadReturns == ~here ~> pc = "closed"
=============================================================================
