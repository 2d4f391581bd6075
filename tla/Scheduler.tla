----------------------------- MODULE Scheduler -----------------------------
(***************************************************************************)
(* The serving loop of front/serve.cpp.  Handler threads (one per          *)
(* connection) queue a Job that lives in the stack frame of generate() and *)
(* wait for it; one scheduler thread admits queued jobs into free slots,   *)
(* prefills their prompts, and runs lockstep rounds over the active slots: *)
(* draft, one verify pass over the rows of all slots, then per job match,  *)
(* accept, emit, and finish.                                               *)
(*                                                                         *)
(* A lock section of the code is one action, so qmu and the mutex of a job *)
(* are not variables.  Between lock sections every call that can block (an *)
(* emit to a slow client) or that another thread can observe is an action  *)
(* of its own.                                                             *)
(***************************************************************************)
EXTENDS Integers, Sequences, SequencesExt

CONSTANTS
    Jobs,           \* requests the handlers may bring
    NSlots,         \* --slots, after the clamp in main
    Token,          \* vocabulary
    Stop,           \* eos and <|im_end|>
    Greedy(_),      \* the top-1 token after a sequence: the target model
    Prompt,         \* Prompt[j]: the encoded prompt of j
    MaxTokens,      \* MaxTokens[j]: max_tokens of j
    Sampled,        \* jobs with temperature > 0: they take no drafts
    Streaming,      \* jobs whose emit writes to the client's socket
    MaxCtx,         \* --ctx
    Margin,         \* positions generate() keeps free behind a prompt (8)
    Chunk,          \* --chunk: longest prefill call
    MaxRows,        \* rows one verify pass can hold
    Backend,        \* "fn" (Flash-Next, MTP drafts) or "b27" (27B, DFlash2)
    NDraft,         \* max_draft(): drafts per slot at most, 0 for none
    FrameReuse      \* TRUE: memory of a returned generate() may be overwritten

ASSUME SchedulerAssumption ==
    /\ NSlots \in Nat \ {0}
    /\ Stop \subseteq Token
    /\ \A n \in 0 .. MaxCtx : \A w \in [1 .. n -> Token] : Greedy(w) \in Token
    /\ Prompt \in [Jobs -> Seq(Token) \ {<< >>}]
    /\ MaxTokens \in [Jobs -> Int]
    /\ Sampled \subseteq Jobs
    /\ Streaming \subseteq Jobs
    /\ MaxCtx \in Nat
    /\ Margin \in Nat
    /\ Chunk \in Nat \ {0}
    /\ MaxRows \in Nat
    /\ Backend \in {"fn", "b27"}
    /\ NDraft \in Nat
    /\ FrameReuse \in BOOLEAN

Slots == 0 .. NSlots - 1
NoSlot == -1

VARIABLES
    queue, active, used,                \* shared under qmu; used is local to run()
    sched,                              \* what the scheduler thread does next
    drafts, rows, still, q, r0, mm, k,  \* its locals in a round
    slot, pos, idLast, ids, gone, fin, done,    \* fields of each Job
    handler, client,                    \* connection threads and their peers
    seq, pass                           \* the engine's slots

sharedVars == <<queue, active, used>>
roundVars == <<drafts, rows, still, q, r0, mm, k>>
jobVars == <<slot, pos, idLast, ids, gone, fin, done>>
engineVars == <<seq, pass>>
vars == <<sharedVars, sched, roundVars, jobVars, handler, client, engineVars>>

Engine == INSTANCE TokenEngine

-----------------------------------------------------------------------------
(* Handler threads: generate()                                             *)

TooLong(j) == Len(Prompt[j]) + Margin > MaxCtx

Refuse(j) ==
    /\ handler[j] = "new"
    /\ TooLong(j)
    /\ handler' = [handler EXCEPT ![j] = "refused"]
    /\ UNCHANGED <<sharedVars, sched, roundVars, jobVars, client, engineVars>>

Enqueue(j) ==
    /\ handler[j] = "new"
    /\ ~TooLong(j)
    /\ queue' = Append(queue, j)
    /\ handler' = [handler EXCEPT ![j] = "queued"]
    /\ UNCHANGED <<active, used, sched, roundVars, jobVars, client, engineVars>>

\* Faulty variant: the job is queued and the scheduler not woken.
NotifyNobody(j) ==
    /\ handler[j] = "queued"
    /\ handler' = [handler EXCEPT ![j] = "checking"]
    /\ UNCHANGED <<sharedVars, sched, roundVars, jobVars, client, engineVars>>

\* qcv.notify_one(), after qmu is released
NotifyScheduler(j) ==
    /\ handler[j] = "queued"
    /\ handler' = [handler EXCEPT ![j] = "checking"]
    /\ sched' = IF sched = "parked" THEN "check" ELSE sched
    /\ UNCHANGED <<sharedVars, roundVars, jobVars, client, engineVars>>

\* j.cv.wait evaluates its predicate under j.mu; returning ends the life of j
WaitDone(j) ==
    /\ handler[j] = "checking"
    /\ handler' = [handler EXCEPT ![j] = IF done[j] THEN "returned" ELSE "parked"]
    /\ UNCHANGED <<sharedVars, sched, roundVars, jobVars, client, engineVars>>

SpuriousWake(j) ==
    /\ handler[j] = "parked"
    /\ handler' = [handler EXCEPT ![j] = "checking"]
    /\ UNCHANGED <<sharedVars, sched, roundVars, jobVars, client, engineVars>>

Handler(j) ==
    Refuse(j) \/ Enqueue(j) \/ NotifyScheduler(j) \/ WaitDone(j) \/ SpuriousWake(j)

-----------------------------------------------------------------------------
(* Clients of streaming requests: each may stop reading once (the bound of *)
(* the model on stalls), read again, or disconnect for good.               *)

Served(j) == j \in Streaming /\ handler[j] \notin {"new", "refused", "returned"}

ClientMoves(j, from, to) ==
    /\ Served(j)
    /\ client[j] \in from
    /\ client' = [client EXCEPT ![j] = to]
    /\ UNCHANGED <<sharedVars, sched, roundVars, jobVars, handler, engineVars>>

Stall(j) == ClientMoves(j, {"reading"}, "stalled")
Resume(j) == ClientMoves(j, {"stalled"}, "resumed")
Leave(j) == ClientMoves(j, {"reading", "stalled", "resumed"}, "left")

Client(j) == Stall(j) \/ Resume(j) \/ Leave(j)

-----------------------------------------------------------------------------
(* Admission                                                               *)

Park ==
    /\ sched = "check"
    /\ queue = << >> /\ active = << >>
    /\ sched' = "parked"
    /\ UNCHANGED <<sharedVars, roundVars, jobVars, handler, client, engineVars>>

FirstFree(s) == ~used[s] /\ \A t \in Slots : t < s => used[t]

Admit ==
    /\ sched = "check"
    /\ queue # << >> /\ Len(active) < NSlots
    /\ \E s \in Slots :
        /\ FirstFree(s)
        /\ used' = [used EXCEPT ![s] = TRUE]
        /\ slot' = [slot EXCEPT ![Head(queue)] = s]
    /\ active' = Append(active, Head(queue))
    /\ queue' = Tail(queue)
    /\ sched' = "reset"
    /\ UNCHANGED <<roundVars, pos, idLast, ids, gone, fin, done, handler, client, engineVars>>

Admitted == Last(active)    \* the job being prefilled

ResetAdmitted ==
    /\ sched = "reset"
    /\ Engine!ResetSlot(slot[Admitted])
    /\ sched' = "prefill"
    /\ UNCHANGED <<sharedVars, roundVars, jobVars, handler, client>>

\* c0 of the chunk loop is pos while the job is prefilled
NextChunk(j) ==
    LET n == IF Len(Prompt[j]) - pos[j] < Chunk THEN Len(Prompt[j]) - pos[j] ELSE Chunk
    IN  SubSeq(Prompt[j], pos[j] + 1, pos[j] + n)

\* pick(): the greedy top-1 or any sampled token
Pick(j, context, id) == j \in Sampled \/ id = Greedy(context)

PrefillChunk ==
    /\ sched = "prefill"
    /\ LET j == Admitted
           toks == NextChunk(j)
           last == pos[j] + Len(toks) = Len(Prompt[j])
       IN  /\ Engine!Prefill(slot[j], toks)
           /\ pos' = [pos EXCEPT ![j] = @ + Len(toks)]
           /\ IF last
              THEN /\ \E id \in Token :
                        /\ Pick(j, seq'[slot[j]], id)
                        /\ idLast' = [idLast EXCEPT ![j] = id]
                   /\ sched' = "check"
              ELSE UNCHANGED <<idLast, sched>>
    /\ UNCHANGED <<sharedVars, roundVars, slot, ids, gone, fin, done, handler, client>>

-----------------------------------------------------------------------------
(* One round: draft, verify                                                *)

DraftN(n) ==
    IF Backend = "b27" THEN NDraft
    ELSE IF n <= 1 THEN NDraft
    ELSE IF n = 2 /\ NDraft > 0 THEN 1
    ELSE 0

Drafts(j) == NDraft > 0 /\ j \notin Sampled

\* The draft model may propose anything: drafts[s] is a guess for slot s.
Draft ==
    /\ sched = "check"
    /\ active # << >>
    /\ queue = << >> \/ Len(active) >= NSlots
    /\ LET n == DraftN(Len(active))
           drafting == {slot[j] : j \in {a \in ToSet(active) : Drafts(a)}}
       IN  \E guess \in [drafting -> [1 .. n -> Token]] :
               drafts' = [s \in Slots |-> IF s \in drafting THEN guess[s] ELSE << >>]
    /\ sched' = "verify"
    /\ UNCHANGED <<sharedVars, rows, still, q, r0, mm, k, jobVars, handler, client, engineVars>>

Batch(j) == <<idLast[j]>> \o drafts[slot[j]]

Requests == [s \in {slot[j] : j \in ToSet(active)} |->
                Batch(CHOOSE j \in ToSet(active) : slot[j] = s)]

\* top-1 of every row a job has in the pass
JobRows(j) == [t \in 1 .. Len(Batch(j)) |-> Greedy(seq[slot[j]] \o SubSeq(Batch(j), 1, t))]

AllRows == FlattenSeq([i \in 1 .. Len(active) |-> JobRows(active[i])])

PassFits ==
    /\ \A i \in 1 .. Len(active) : pos[active[i]] + Len(Batch(active[i])) <= MaxCtx
    /\ Len(AllRows) <= MaxRows

Verify ==
    /\ sched = "verify"
    /\ PassFits
    /\ Engine!Forward(Requests)
    /\ rows' = AllRows
    /\ sched' = "job"
    /\ UNCHANGED <<sharedVars, drafts, still, q, r0, mm, k, jobVars, handler, client>>

\* The engine throws and nothing in run() catches: the process ends.
Terminate ==
    /\ sched = "verify"
    /\ ~PassFits
    /\ sched' = "down"
    /\ UNCHANGED <<sharedVars, roundVars, jobVars, handler, client, engineVars>>

-----------------------------------------------------------------------------
(* Per job of the round: stop, or emit, match, accept                      *)

Job == active[q]

\* Faulty variant: one token more than max_tokens.
LimitPassed(j) == Len(ids[j]) > MaxTokens[j]

Limit(j) == Len(ids[j]) >= MaxTokens[j]

\* An emit of a token of j: it waits while the client does not read, and may
\* fail once the client has left.  A token inside a UTF-8 character or a
\* thinking tag emits nothing.
Emits(j, ok) ==
    /\ j \in Streaming => client[j] # "stalled"
    /\ ok \/ (j \in Streaming /\ client[j] = "left")

Out(j, id) ==
    IF gone[j] THEN UNCHANGED <<ids, gone, fin>>
    ELSE /\ ids' = [ids EXCEPT ![j] = Append(@, id)]
         /\ \/ UNCHANGED <<gone, fin>>             \* held back, nothing to emit yet
            \/ Emits(j, TRUE) /\ UNCHANGED <<gone, fin>>
            \/ /\ Emits(j, FALSE)
               /\ gone' = [gone EXCEPT ![j] = TRUE]
               /\ fin' = [fin EXCEPT ![j] = "abort"]

\* Faulty variant: the row of id_last is not counted.
NextR0Drafts == r0 + Len(drafts[slot[Job]])

\* The first row of the next job in the pass.
NextR0 == r0 + Len(Batch(Job))

StopJob ==
    /\ sched = "job" /\ q <= Len(active)
    /\ idLast[Job] \in Stop
    /\ fin' = [fin EXCEPT ![Job] = "stop"]
    /\ Engine!Accept(slot[Job], 1)
    /\ r0' = NextR0
    /\ sched' = "flush"
    /\ UNCHANGED <<sharedVars, drafts, rows, still, q, mm, k, slot, pos, idLast, ids, gone, done, handler, client>>

EmitLast ==
    /\ sched = "job" /\ q <= Len(active)
    /\ idLast[Job] \notin Stop
    /\ Out(Job, idLast[Job])
    /\ sched' = "match"
    /\ UNCHANGED <<sharedVars, roundVars, slot, pos, idLast, done, handler, client, engineVars>>

\* draft i of a job agrees with the target and does not end the answer
Agrees(j, i) == rows[r0 + i] = drafts[slot[j]][i] /\ drafts[slot[j]][i] \notin Stop

\* Faulty variant: the count of accepted drafts starts one too low.
CommitCountsLow(m) == mm' = m - 1 /\ Engine!Accept(slot[Job], m + 1)

\* Faulty variant: a round without an accepted draft is not committed.
CommitDrafts(m) == mm' = m /\ IF m > 0 THEN Engine!Accept(slot[Job], m + 1) ELSE UNCHANGED engineVars

\* m drafts and the row of id_last
Commit(m) == mm' = m /\ Engine!Accept(slot[Job], m + 1)

Match ==
    /\ sched = "match"
    /\ LET n == Len(drafts[slot[Job]])
       IN  \E m \in 0 .. n :
               /\ \A i \in 1 .. m : Agrees(Job, i)
               /\ m < n => ~Agrees(Job, m + 1)
               /\ Commit(m)
    /\ k' = 0
    /\ sched' = "drafts"
    /\ UNCHANGED <<sharedVars, drafts, rows, still, q, r0, jobVars, handler, client>>

EmitDraft ==
    /\ sched = "drafts"
    /\ k < mm /\ ~Limit(Job)
    /\ Out(Job, drafts[slot[Job]][k + 1])
    /\ k' = k + 1
    /\ UNCHANGED <<sharedVars, sched, drafts, rows, still, q, r0, mm, slot, pos, idLast, done, handler, client, engineVars>>

\* Faulty variant: the position counts the accepted drafts and not id_last.
NextPosDrafts(j) == pos[j] + mm

NextPos(j) == pos[j] + mm + 1

\* k < mm here means full: max_tokens cut the accepted drafts short
Advance ==
    /\ sched = "drafts"
    /\ k = mm \/ Limit(Job)
    /\ \E id \in Token :
        /\ Job \in Sampled \/ id = rows[r0 + mm + 1]
        /\ idLast' = [idLast EXCEPT ![Job] = id]
    /\ pos' = [pos EXCEPT ![Job] = NextPos(Job)]
    /\ r0' = NextR0
    /\ IF k < mm \/ gone[Job] \/ Limit(Job)
       THEN sched' = "flush" /\ UNCHANGED <<still, q>>
       ELSE /\ still' = Append(still, Job)
            /\ q' = q + 1
            /\ sched' = "job"
    /\ mm' = 0 /\ k' = 0
    /\ UNCHANGED <<sharedVars, drafts, rows, slot, ids, gone, fin, done, handler, client, engineVars>>

-----------------------------------------------------------------------------
(* finish(): flush, reset the slot, wake the handler                       *)

\* The bytes still held back, if any, are emitted; a failure is not reported.
Flush ==
    /\ sched = "flush"
    /\ \/ UNCHANGED gone                            \* nothing held back
       \/ ~gone[Job] /\ Emits(Job, TRUE) /\ UNCHANGED gone
       \/ ~gone[Job] /\ Emits(Job, FALSE) /\ gone' = [gone EXCEPT ![Job] = TRUE]
    /\ fin' = [fin EXCEPT ![Job] = IF @ = "" THEN "length" ELSE @]
    /\ sched' = "finish"
    /\ UNCHANGED <<sharedVars, roundVars, slot, pos, idLast, ids, done, handler, client, engineVars>>

\* Faulty variant: the slot is not reset.
FinishKeepsSlot ==
    /\ sched = "finish"
    /\ done' = [done EXCEPT ![Job] = TRUE]
    /\ sched' = "notify"
    /\ UNCHANGED <<sharedVars, roundVars, slot, pos, idLast, ids, gone, fin, handler, client, engineVars>>

Finish ==
    /\ sched = "finish"
    /\ Engine!ResetSlot(slot[Job])
    /\ done' = [done EXCEPT ![Job] = TRUE]
    /\ sched' = "notify"
    /\ UNCHANGED <<sharedVars, roundVars, slot, pos, idLast, ids, gone, fin, handler, client>>

\* j.cv.notify_all(), after j.mu is released: the Job may be gone by then
NotifyJob ==
    /\ sched = "notify"
    /\ handler' = [handler EXCEPT ![Job] = IF @ = "parked" THEN "checking" ELSE @]
    /\ q' = q + 1
    /\ sched' = "job"
    /\ UNCHANGED <<sharedVars, drafts, rows, still, r0, mm, k, jobVars, client, engineVars>>

\* Faulty variant: the slots of the jobs that go on are freed, too.
FinishedAll == ToSet(active)

Finished == ToSet(active) \ ToSet(still)

\* What reading j->slot may return: the Job lives in the frame of generate(),
\* so after its return the read is of dead memory.
SlotRead(j) ==
    IF FrameReuse /\ handler[j] = "returned" THEN Slots \cup {NoSlot} ELSE {slot[j]}

Release ==
    /\ sched = "job" /\ q > Len(active)
    /\ \E freed \in [Finished -> Slots \cup {NoSlot}] :
        /\ \A j \in Finished : freed[j] \in SlotRead(j)
        /\ used' = [s \in Slots |-> used[s] /\ \A j \in Finished : freed[j] # s]
    /\ active' = still
    /\ sched' = "check"
    /\ drafts' = [s \in Slots |-> << >>]             \* the locals of the round end here
    /\ rows' = << >> /\ still' = << >>
    /\ q' = 1 /\ r0' = 0 /\ mm' = 0 /\ k' = 0
    /\ UNCHANGED <<queue, jobVars, handler, client, engineVars>>

-----------------------------------------------------------------------------

Init ==
    /\ queue = << >> /\ active = << >>
    /\ used = [s \in Slots |-> FALSE]
    /\ sched = "check"
    /\ drafts = [s \in Slots |-> << >>]
    /\ rows = << >> /\ still = << >>
    /\ q = 1 /\ r0 = 0 /\ mm = 0 /\ k = 0
    /\ slot = [j \in Jobs |-> NoSlot]
    /\ pos = [j \in Jobs |-> 0]
    /\ idLast = [j \in Jobs |-> CHOOSE id \in Token : TRUE]     \* read only after pick
    /\ ids = [j \in Jobs |-> << >>]
    /\ gone = [j \in Jobs |-> FALSE]
    /\ fin = [j \in Jobs |-> ""]
    /\ done = [j \in Jobs |-> FALSE]
    /\ handler = [j \in Jobs |-> "new"]
    /\ client = [j \in Jobs |-> "reading"]
    /\ Engine!EngineInit

Loop ==
    \/ Park \/ Admit \/ ResetAdmitted \/ PrefillChunk
    \/ Draft \/ Verify \/ Terminate
    \/ StopJob \/ EmitLast \/ Match \/ EmitDraft \/ Advance
    \/ Flush \/ Finish \/ NotifyJob \/ Release

\* Nothing left to do: every request answered or refused, the scheduler waits
\* on qcv (or the process has ended).
Quiescent ==
    /\ \/ sched = "down"
       \/ sched = "parked" /\ \A j \in Jobs : handler[j] \in {"refused", "returned"}
    /\ UNCHANGED vars

Next ==
    \/ sched # "down" /\ Loop
    \/ sched # "down" /\ \E j \in Jobs : Handler(j) \/ Client(j)
    \/ Quiescent

Spec == Init /\ [][Next]_vars

-----------------------------------------------------------------------------

\* Threads and clients keep going: the scheduler and the handlers are never
\* starved, and a client that stalls reads on or disconnects.
Fairness ==
    /\ WF_vars(sched # "down" /\ Loop)
    /\ \A j \in Jobs :
        /\ WF_vars(sched # "down" /\ NotifyScheduler(j))
        /\ WF_vars(sched # "down" /\ WaitDone(j))
        /\ WF_vars(sched # "down" /\ (Resume(j) \/ Leave(j)))

FairSpec == Spec /\ Fairness

-----------------------------------------------------------------------------
(* Properties                                                              *)

SchedStates ==
    {"check", "parked", "reset", "prefill", "verify", "job", "match",
     "drafts", "flush", "finish", "notify", "down"}

TypeOK ==
    /\ queue \in Seq(Jobs) /\ active \in Seq(Jobs) /\ still \in Seq(Jobs)
    /\ used \in [Slots -> BOOLEAN]
    /\ sched \in SchedStates
    /\ drafts \in [Slots -> Seq(Token)]
    /\ rows \in Seq(Token)
    /\ q \in Nat /\ r0 \in Nat /\ mm \in Nat /\ k \in Nat
    /\ slot \in [Jobs -> Slots \cup {NoSlot}]
    /\ pos \in [Jobs -> Nat]
    /\ idLast \in [Jobs -> Token]
    /\ ids \in [Jobs -> Seq(Token)]
    /\ gone \in [Jobs -> BOOLEAN] /\ done \in [Jobs -> BOOLEAN]
    /\ fin \in [Jobs -> {"", "stop", "length", "abort"}]
    /\ handler \in [Jobs -> {"new", "refused", "queued", "checking", "parked", "returned"}]
    /\ client \in [Jobs -> {"reading", "stalled", "resumed", "left"}]
    /\ Engine!EngineTypeOK

\* No two active jobs share a slot, and the slots marked used are exactly those
\* of the active jobs: run() neither leaks a slot nor gives one out twice, and
\* its search for a free slot cannot run past the vector.
SlotAccounting ==
    /\ \A a, b \in 1 .. Len(active) : slot[active[a]] = slot[active[b]] => a = b
    /\ {s \in Slots : used[s]} = {slot[j] : j \in ToSet(active)}

\* Speculation is exact: whatever the drafts, the other slots and the timing,
\* the tokens of a greedy request are those of plain decoding, one by one.
GreedyExact ==
    \A j \in Jobs \ Sampled : \A i \in 1 .. Len(ids[j]) :
        /\ ids[j][i] = Greedy(Prompt[j] \o SubSeq(ids[j], 1, i - 1))
        /\ ids[j][i] \notin Stop

\* Between rounds the engine holds, for every active job, its prompt and the
\* tokens given out so far: committing, matching and emitting stay in step, and
\* the position of the job is the length the engine committed.
EngineInStep ==
    sched = "check" =>
        \A j \in ToSet(active) :
            /\ seq[slot[j]] = Prompt[j] \o ids[j]
            /\ pos[j] = Len(seq[slot[j]])

\* No rows of a pass are left unaccepted when the next admission or round
\* starts: the buffers accept() replays from are overwritten by the next pass.
EveryPassAccepted ==
    sched \in {"check", "parked"} => \A s \in Slots : pass[s] = << >>

\* A slot no job uses has been reset: a job never inherits another's state.
FreeSlotsClean ==
    \A s \in Slots : ~used[s] => seq[s] = << >> /\ pass[s] = << >>

\* An answered request says why it ended, truthfully: "length" at exactly the
\* limit, "stop" when the model wants to stop and not past the limit, "abort"
\* only when the client left.
TruthfulFinish ==
    \A j \in Jobs : done[j] =>
        /\ fin[j] = "length" => Len(ids[j]) = IF MaxTokens[j] < 1 THEN 1 ELSE MaxTokens[j]
        /\ fin[j] = "stop" =>
            /\ Len(ids[j]) < MaxTokens[j] \/ ids[j] = << >>
            /\ j \notin Sampled => Greedy(Prompt[j] \o ids[j]) \in Stop
        /\ fin[j] = "abort" => client[j] = "left"
        /\ fin[j] # ""

\* Every pass the scheduler prepares satisfies what the engine asserts of it
\* (qwen4exp.cpp throws "pos >= max_ctx", qwen35.cpp "bad request").
PassWithinContext == sched = "verify" => PassFits

\* generate() returns only when the scheduler is finished with its Job: the
\* scheduler holds no pointer to a Job whose frame is gone.
WaitsForScheduler ==
    \A j \in ToSet(active) : handler[j] # "returned"

\* Every queued request is answered unless the process dies.
Answered ==
    \A j \in Jobs : handler[j] = "queued" ~> handler[j] = "returned" \/ sched = "down"

-----------------------------------------------------------------------------
(* The service a client sees, with everything shared between requests      *)
(* hidden: a request is answered once its Job is done.                     *)

ServiceStatus ==
    [j \in Jobs |->
        CASE handler[j] = "new"     -> "idle"
          [] handler[j] = "refused" -> "refused"
          [] done[j]                -> "answered"
          [] OTHER                  -> "running"]

Service == INSTANCE GreedyService WITH
    status <- ServiceStatus,
    answer <- ids,
    reason <- [j \in Jobs |-> IF done[j] THEN fin[j] ELSE ""]

\* The scheduler implements the service: batching, drafts and slots show in no
\* answer.
ImplementsService == Service!ServiceSpec
=============================================================================
