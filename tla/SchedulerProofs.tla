-------------------------- MODULE SchedulerProofs --------------------------
(***************************************************************************)
(* Proofs about Scheduler, for any number of jobs, slots and tokens, any   *)
(* draft model and any target model: the slots first, then the answers,    *)
(* which are exact, end for the reason they name, and show the batching,   *)
(* the drafts and the slots nowhere (the scheduler implements              *)
(* GreedyService).                                                         *)
(*                                                                         *)
(* SlotAccounting is not inductive: Admit needs to know that the head of   *)
(* the queue is not active already, and Release that the jobs it keeps are *)
(* active ones, each once.  SlotInv adds that.  Neither EngineInStep nor   *)
(* GreedyExact is inductive.  AnswerInv says what is true of each job at   *)
(* each step of a round: what the engine has committed for it, which rows  *)
(* of the pass are its own, and how many of the tokens of the pass its     *)
(* client has been given.                                                  *)
(***************************************************************************)
EXTENDS Scheduler, SequenceFacts

HandlerStates == {"new", "refused", "queued", "checking", "parked", "returned"}

\* The types of the variables the slot bookkeeping reads.
SlotTypes ==
    /\ queue \in Seq(Jobs) /\ active \in Seq(Jobs) /\ still \in Seq(Jobs)
    /\ used \in [Slots -> BOOLEAN]
    /\ slot \in [Jobs -> Slots \cup {NoSlot}]
    /\ handler \in [Jobs -> HandlerStates]
    /\ q \in Nat \ {0}

\* A job is queued once, after its handler took it, and not while it is active.
QueueFresh ==
    /\ \A a, b \in 1 .. Len(queue) : queue[a] = queue[b] => a = b
    /\ \A a \in 1 .. Len(queue) : \A b \in 1 .. Len(active) : queue[a] # active[b]
    /\ \A a \in 1 .. Len(queue) : handler[queue[a]] # "new"
    /\ \A b \in 1 .. Len(active) : handler[active[b]] # "new"

\* Active jobs own a slot each, and only their slots are marked used.
SlotsOwned ==
    /\ \A a \in 1 .. Len(active) : slot[active[a]] \in Slots /\ used[slot[active[a]]]
    /\ \A a, b \in 1 .. Len(active) : slot[active[a]] = slot[active[b]] => a = b
    /\ \A s \in Slots : used[s] => \E a \in 1 .. Len(active) : slot[active[a]] = s

InJob == {"match", "drafts", "flush", "finish", "notify"}

\* still holds jobs of the round that have been dealt with, each once.
StillActive ==
    /\ sched \in InJob => q <= Len(active)
    /\ \A i \in 1 .. Len(still) : \E p \in 1 .. Len(active) : p < q /\ still[i] = active[p]
    /\ \A i, n \in 1 .. Len(still) : still[i] = still[n] => i = n

SlotInv == SlotTypes /\ QueueFresh /\ SlotsOwned /\ StillActive

-----------------------------------------------------------------------------

\* Steps that leave the bookkeeping alone and make no handler new again keep
\* the invariant.
LEMMA SlotFrame ==
    ASSUME SlotInv,
           UNCHANGED <<queue, active, used, still, slot, q>>,
           handler' \in [Jobs -> HandlerStates],
           \A j \in Jobs : handler'[j] = "new" => handler[j] = "new",
           sched' \in InJob => q <= Len(active)
    PROVE  SlotInv'
<1>1. SlotTypes'
    BY DEF SlotInv, SlotTypes
<1>2. QueueFresh'
    BY DEF SlotInv, SlotTypes, QueueFresh
<1>3. SlotsOwned'
    BY DEF SlotInv, SlotsOwned
<1>4. StillActive'
    BY DEF SlotInv, StillActive
<1> QED
    BY <1>1, <1>2, <1>3, <1>4 DEF SlotInv

LEMMA InitSlotInv == Init => SlotInv
<1> SUFFICES ASSUME Init
             PROVE  SlotInv
    OBVIOUS
<1>1. /\ queue = << >> /\ active = << >> /\ still = << >>
      /\ used = [s \in Slots |-> FALSE]
      /\ slot = [j \in Jobs |-> NoSlot]
      /\ handler = [j \in Jobs |-> "new"]
      /\ q = 1 /\ sched = "check"
    BY Zenon DEF Init
<1>2. SlotTypes
    BY <1>1 DEF SlotTypes, HandlerStates
<1>3. QueueFresh /\ SlotsOwned
    BY <1>1 DEF QueueFresh, SlotsOwned
<1>4. StillActive
    BY <1>1 DEF StillActive, InJob
<1> QED
    BY <1>2, <1>3, <1>4 DEF SlotInv

\* A handler queues its job once, when it is new.
LEMMA HandlerSlotInv ==
    ASSUME SlotInv, NEW j \in Jobs, Handler(j)
    PROVE  SlotInv'
<1> USE DEF HandlerStates
<1>1. CASE Refuse(j)
    BY <1>1, SlotFrame DEF Refuse, SlotInv, SlotTypes, sharedVars, roundVars, jobVars, StillActive
<1>2. CASE Enqueue(j)
    <2> USE <1>2 DEF Enqueue, SlotInv, SlotTypes, sharedVars, roundVars, jobVars
    <2>1. SlotTypes'
        OBVIOUS
    <2>2. QueueFresh'
        BY DEF QueueFresh
    <2>3. SlotsOwned'
        BY DEF SlotsOwned
    <2>4. StillActive'
        BY DEF StillActive
    <2> QED
        BY <2>1, <2>2, <2>3, <2>4
<1>3. CASE NotifyScheduler(j)
    BY <1>3, SlotFrame
       DEF NotifyScheduler, SlotInv, SlotTypes, sharedVars, roundVars, jobVars, StillActive, InJob
<1>4. CASE WaitDone(j)
    BY <1>4, SlotFrame DEF WaitDone, SlotInv, SlotTypes, sharedVars, roundVars, jobVars, StillActive
<1>5. CASE SpuriousWake(j)
    BY <1>5, SlotFrame DEF SpuriousWake, SlotInv, SlotTypes, sharedVars, roundVars, jobVars, StillActive
<1> QED
    BY <1>1, <1>2, <1>3, <1>4, <1>5 DEF Handler

LEMMA ClientSlotInv ==
    ASSUME SlotInv, NEW j \in Jobs, Client(j)
    PROVE  SlotInv'
BY SlotFrame
   DEF Client, Stall, Resume, Leave, ClientMoves, SlotInv, SlotTypes, StillActive,
       sharedVars, roundVars, jobVars

\* The steps of the scheduler that work on slots and jobs already assigned.
Working ==
    \/ Park \/ ResetAdmitted \/ PrefillChunk \/ Draft \/ Verify \/ Terminate
    \/ StopJob \/ EmitLast \/ Match \/ EmitDraft \/ Flush \/ Finish

LEMMA WorkingSlotInv ==
    ASSUME SlotInv, Working
    PROVE  SlotInv'
<1> USE DEF sharedVars, roundVars, jobVars, InJob
<1>1. UNCHANGED <<queue, active, used, still, slot, q, handler>>
    <2>1. CASE Park \/ ResetAdmitted \/ Draft \/ Verify \/ Terminate
        BY <2>1 DEF Park, ResetAdmitted, Draft, Verify, Terminate
    <2>2. CASE PrefillChunk
        BY <2>2 DEF PrefillChunk
    <2>3. CASE StopJob \/ EmitLast \/ Match \/ EmitDraft
        BY <2>3 DEF StopJob, EmitLast, Match, Commit, EmitDraft
    <2>4. CASE Flush \/ Finish
        BY <2>4 DEF Flush, Finish
    <2> QED
        BY <2>1, <2>2, <2>3, <2>4 DEF Working
<1>2. sched' \in InJob => q <= Len(active)
    <2>1. CASE Park \/ ResetAdmitted \/ Draft \/ Verify \/ Terminate
        BY <2>1 DEF Park, ResetAdmitted, Draft, Verify, Terminate
    <2>2. CASE PrefillChunk
        BY <2>2 DEF PrefillChunk
    <2>3. CASE StopJob \/ EmitLast
        BY <2>3 DEF StopJob, EmitLast
    <2>4. CASE Match \/ EmitDraft \/ Flush \/ Finish
        BY <2>4 DEF Match, Commit, EmitDraft, Flush, Finish, SlotInv, StillActive
    <2> QED
        BY <2>1, <2>2, <2>3, <2>4 DEF Working
<1> QED
    BY <1>1, <1>2, SlotFrame DEF SlotInv, SlotTypes

\* The head of the queue takes a slot no active job owns.
LEMMA AdmitSlotInv ==
    ASSUME SlotInv, Admit
    PROVE  SlotInv'
<1> DEFINE j == Head(queue)
<1>1. PICK s \in Slots : /\ ~used[s]
                         /\ used' = [used EXCEPT ![s] = TRUE]
                         /\ slot' = [slot EXCEPT ![j] = s]
    BY DEF Admit, FirstFree
<1>2. /\ queue # << >> /\ sched' = "reset"
      /\ active' = Append(active, j)
      /\ queue' = Tail(queue)
      /\ UNCHANGED <<handler, still, q>>
    BY DEF Admit, roundVars
<1>3. queue \in Seq(Jobs) /\ active \in Seq(Jobs) /\ j \in Jobs /\ j = queue[1]
    BY <1>2 DEF SlotInv, SlotTypes
<1>4. SlotTypes'
    BY <1>1, <1>2, <1>3 DEF SlotInv, SlotTypes
<1>5. \A a \in 1 .. Len(active) : active[a] # j
    <2>1. 1 \in 1 .. Len(queue)
        BY <1>2, <1>3
    <2> QED
        BY <1>3, <2>1, Zenon DEF SlotInv, QueueFresh
<1>6. /\ Len(active') = Len(active) + 1
      /\ active'[Len(active) + 1] = j
      /\ \A a \in 1 .. Len(active) : active'[a] = active[a] /\ active[a] \in Jobs
    BY <1>2, <1>3
<1>7. \A a \in 1 .. Len(active') : a \in 1 .. Len(active) \/ a = Len(active) + 1
    BY <1>3, <1>6
<1>8. QueueFresh'
    <2>1. \A a \in 1 .. Len(queue') : queue'[a] = queue[a + 1] /\ a + 1 \in 1 .. Len(queue) /\ a + 1 # 1
        BY <1>2, <1>3
    <2>2. \A a \in 1 .. Len(queue') : queue'[a] # j
        BY <1>2, <1>3, <2>1 DEF SlotInv, QueueFresh
    <2>3. \A a, b \in 1 .. Len(queue') : queue'[a] = queue'[b] => a = b
        BY <1>2, <1>3, <2>1 DEF SlotInv, QueueFresh
    <2>4. \A a \in 1 .. Len(queue') : \A b \in 1 .. Len(active') : queue'[a] # active'[b]
        <3> SUFFICES ASSUME NEW a \in 1 .. Len(queue'), NEW b \in 1 .. Len(active')
                     PROVE  queue'[a] # active'[b]
            OBVIOUS
        <3>1. CASE b = Len(active) + 1
            BY <3>1, <1>6, <2>2
        <3>2. CASE b \in 1 .. Len(active)
            <4>1. queue[a + 1] # active[b]
                BY <3>2, <2>1, Zenon DEF SlotInv, QueueFresh
            <4> QED
                BY <3>2, <4>1, <1>6, <2>1, Zenon
        <3> QED
            BY <3>1, <3>2, <1>7
    <2>5. \A a \in 1 .. Len(queue') : handler'[queue'[a]] # "new"
        BY <1>2, <2>1 DEF SlotInv, QueueFresh
    <2>6. \A b \in 1 .. Len(active') : handler'[active'[b]] # "new"
        BY <1>2, <1>3, <1>6, <1>7 DEF SlotInv, QueueFresh
    <2> QED
        BY <2>3, <2>4, <2>5, <2>6 DEF QueueFresh
<1>9. SlotsOwned'
    <2>1. \A a \in 1 .. Len(active) : slot'[active'[a]] = slot[active[a]] /\ slot[active[a]] # s
        BY <1>1, <1>3, <1>5, <1>6 DEF SlotInv, SlotTypes, SlotsOwned
    <2>2. slot'[active'[Len(active) + 1]] = s
        BY <1>1, <1>3, <1>6 DEF SlotInv, SlotTypes
    <2>3. \A t \in Slots : used'[t] <=> used[t] \/ t = s
        BY <1>1, Zenon DEF SlotInv, SlotTypes
    <2>4. \A a \in 1 .. Len(active') : slot'[active'[a]] \in Slots /\ used'[slot'[active'[a]]]
        <3> SUFFICES ASSUME NEW a \in 1 .. Len(active')
                     PROVE  slot'[active'[a]] \in Slots /\ used'[slot'[active'[a]]]
            OBVIOUS
        <3>1. CASE a \in 1 .. Len(active)
            BY <3>1, <2>1, <2>3, ZenonT(40) DEF SlotInv, SlotsOwned
        <3>2. CASE a = Len(active) + 1
            BY <3>2, <2>2, <2>3, Zenon
        <3> QED
            BY <1>7, <3>1, <3>2
    <2>5. \A a, b \in 1 .. Len(active') : slot'[active'[a]] = slot'[active'[b]] => a = b
        BY <1>7, <2>1, <2>2 DEF SlotInv, SlotsOwned
    <2>6. \A t \in Slots : used'[t] => \E a \in 1 .. Len(active') : slot'[active'[a]] = t
        BY <1>3, <1>6, <2>1, <2>2, <2>3 DEF SlotInv, SlotsOwned
    <2> QED
        BY <2>4, <2>5, <2>6 DEF SlotsOwned
<1>10. StillActive'
    BY <1>2, <1>3 DEF SlotInv, SlotTypes, StillActive, InJob
<1> QED
    BY <1>4, <1>8, <1>9, <1>10 DEF SlotInv

\* A job dealt with joins still once, or goes on to finish().
LEMMA AdvanceSlotInv ==
    ASSUME SlotInv, Advance
    PROVE  SlotInv'
<1>1. UNCHANGED <<queue, active, used, slot, handler>> /\ sched = "drafts"
    BY DEF Advance, sharedVars
<1>2. q \in 1 .. Len(active) /\ active \in Seq(Jobs) /\ still \in Seq(Jobs)
    BY <1>1 DEF SlotInv, SlotTypes, StillActive, InJob
<1>3. CASE sched' = "flush" /\ UNCHANGED <<still, q>>
    BY <1>1, <1>2, <1>3, SlotFrame DEF SlotInv, SlotTypes
<1>4. CASE still' = Append(still, active[q]) /\ q' = q + 1 /\ sched' = "job"
    <2>1. SlotTypes'
        BY <1>1, <1>2, <1>4 DEF SlotInv, SlotTypes
    <2>2. QueueFresh' /\ SlotsOwned'
        BY <1>1 DEF SlotInv, QueueFresh, SlotsOwned
    <2>3. \A i \in 1 .. Len(still) : still[i] # active[q]
        <3>1. \A i \in 1 .. Len(still) : \E p \in 1 .. Len(active) : p # q /\ still[i] = active[p]
            BY <1>2 DEF SlotInv, StillActive
        <3> QED
            BY <3>1, <1>2, Zenon DEF SlotInv, SlotsOwned
    <2>4. /\ Len(still') = Len(still) + 1
          /\ still'[Len(still) + 1] = active[q]
          /\ \A i \in 1 .. Len(still) : still'[i] = still[i]
          /\ \A i \in 1 .. Len(still') : i \in 1 .. Len(still) \/ i = Len(still) + 1
        BY <1>2, <1>4
    <2>5. \A i, n \in 1 .. Len(still') : still'[i] = still'[n] => i = n
        BY <2>3, <2>4 DEF SlotInv, StillActive
    <2>6. \A i \in 1 .. Len(still') : \E p \in 1 .. Len(active') : p < q' /\ still'[i] = active'[p]
        <3> SUFFICES ASSUME NEW i \in 1 .. Len(still')
                     PROVE  \E p \in 1 .. Len(active) : p < q + 1 /\ still'[i] = active[p]
            BY <1>1, <1>4
        <3>1. CASE i = Len(still) + 1
            BY <3>1, <1>2, <2>4
        <3>2. CASE i \in 1 .. Len(still)
            BY <3>2, <1>2, <2>4 DEF SlotInv, StillActive
        <3> QED
            BY <2>4, <3>1, <3>2
    <2> QED
        BY <1>4, <2>1, <2>2, <2>5, <2>6 DEF SlotInv, StillActive, InJob
<1> QED
    BY <1>3, <1>4 DEF Advance, Job

LEMMA NotifyJobSlotInv ==
    ASSUME SlotInv, NotifyJob
    PROVE  SlotInv'
<1>1. /\ UNCHANGED <<queue, active, used, slot, still>>
      /\ q' = q + 1 /\ sched' = "job"
      /\ handler' = [handler EXCEPT ![Job] = IF @ = "parked" THEN "checking" ELSE @]
    BY DEF NotifyJob, sharedVars, jobVars
<1>2. SlotTypes' /\ \A j \in Jobs : handler'[j] = "new" => handler[j] = "new"
    <2>1. sched = "notify"
        BY DEF NotifyJob
    <2>2. Job \in Jobs
        BY <2>1 DEF Job, SlotInv, SlotTypes, StillActive, InJob
    <2>3. handler' \in [Jobs -> HandlerStates] /\ \A j \in Jobs : handler'[j] = "new" => handler[j] = "new"
        BY <1>1, <2>2 DEF SlotInv, SlotTypes, HandlerStates
    <2> QED
        BY <1>1, <2>3 DEF SlotInv, SlotTypes
<1>3. QueueFresh'
    BY <1>1, <1>2 DEF SlotInv, SlotTypes, QueueFresh
<1>4. SlotsOwned'
    BY <1>1 DEF SlotInv, SlotsOwned
<1>5. StillActive'
    BY <1>1 DEF SlotInv, SlotTypes, StillActive, InJob
<1> QED
    BY <1>2, <1>3, <1>4, <1>5 DEF SlotInv

\* The slots of the jobs the round dropped are freed, and no other, as long as
\* the Jobs the scheduler reads are alive.
LEMMA ReleaseSlotInv ==
    ASSUME FrameReuse = FALSE, SlotInv, Release
    PROVE  SlotInv'
<1>1. PICK freed \in [Finished -> Slots \cup {NoSlot}] :
        /\ \A j \in Finished : freed[j] \in SlotRead(j)
        /\ used' = [s \in Slots |-> used[s] /\ \A j \in Finished : freed[j] # s]
    BY DEF Release
<1>2. /\ active' = still /\ still' = << >> /\ q' = 1 /\ sched' = "check"
      /\ UNCHANGED <<queue, slot, handler>>
    BY DEF Release, jobVars
<1>3. \A j \in Finished : freed[j] = slot[j]
    BY <1>1 DEF SlotRead
<1>4. used' \in [Slots -> BOOLEAN] /\ \A s \in Slots : used'[s] <=> used[s] /\ \A j \in Finished : slot[j] # s
    BY <1>1, <1>3, Zenon DEF SlotInv, SlotTypes
<1>5. SlotTypes'
    BY <1>2, <1>4 DEF SlotInv, SlotTypes
<1>6. active \in Seq(Jobs) /\ still \in Seq(Jobs)
    BY DEF SlotInv, SlotTypes
<1>7. \A i \in 1 .. Len(still) : \E p \in 1 .. Len(active) : still[i] = active[p]
    BY DEF SlotInv, StillActive
<1>8. QueueFresh'
    BY <1>2, <1>7 DEF SlotInv, QueueFresh
<1>9. SlotsOwned'
    <2>1. \A j \in Finished : \E p \in 1 .. Len(active) : active[p] = j
        BY <1>6 DEF Finished, ToSet
    <2>2. \A i \in 1 .. Len(still) : \A j \in Finished : still[i] # j
        BY <1>6 DEF Finished, ToSet
    <2>3. \A i \in 1 .. Len(still) : \A j \in Finished : slot[j] # slot[still[i]]
        BY <1>7, <2>1, <2>2 DEF SlotInv, SlotsOwned
    <2>4. \A i \in 1 .. Len(still) : slot[still[i]] \in Slots /\ used'[slot[still[i]]]
        <3> SUFFICES ASSUME NEW i \in 1 .. Len(still)
                     PROVE  slot[still[i]] \in Slots /\ used'[slot[still[i]]]
            OBVIOUS
        <3>1. slot[still[i]] \in Slots /\ used[slot[still[i]]]
            BY <1>7, Zenon DEF SlotInv, SlotsOwned
        <3> QED
            BY <1>4, <2>3, <3>1, Zenon
    <2>5. \A i, n \in 1 .. Len(still) : slot[still[i]] = slot[still[n]] => i = n
        BY <1>7 DEF SlotInv, SlotsOwned, StillActive
    <2>6. \A s \in Slots : used'[s] => \E i \in 1 .. Len(still) : slot[still[i]] = s
        <3> SUFFICES ASSUME NEW s \in Slots, used'[s]
                     PROVE  \E i \in 1 .. Len(still) : slot[still[i]] = s
            OBVIOUS
        <3>1. PICK a \in 1 .. Len(active) : slot[active[a]] = s
            BY <1>4, Zenon DEF SlotInv, SlotsOwned
        <3>2. active[a] \notin Finished
            BY <1>4, <3>1, Zenon
        <3> QED
            BY <1>6, <3>1, <3>2, SMTT(40) DEF Finished, ToSet
    <2> QED
        BY <1>2, <2>4, <2>5, <2>6 DEF SlotsOwned
<1>10. StillActive'
    BY <1>2 DEF StillActive, InJob
<1> QED
    BY <1>5, <1>8, <1>9, <1>10 DEF SlotInv

-----------------------------------------------------------------------------

LEMMA NextSlotInv ==
    ASSUME FrameReuse = FALSE, SlotInv, [Next]_vars
    PROVE  SlotInv'
<1>1. ASSUME NEW j \in Jobs, Handler(j) \/ Client(j)
      PROVE  SlotInv'
    BY <1>1, HandlerSlotInv, ClientSlotInv
<1>2. CASE Loop
    BY <1>2, WorkingSlotInv, AdmitSlotInv, AdvanceSlotInv, NotifyJobSlotInv, ReleaseSlotInv, Zenon
       DEF Loop, Working
<1>3. CASE UNCHANGED vars
    BY <1>3, SlotFrame DEF vars, sharedVars, roundVars, jobVars, SlotInv, SlotTypes, StillActive
<1> QED
    BY <1>1, <1>2, <1>3, Zenon DEF Next, Quiescent

\* Slot bookkeeping (serve.cpp run()): as long as a finished Job outlives the
\* round it finished in, the scheduler neither leaks a slot nor gives one to two
\* jobs, for any number of slots, requests and clients.
THEOREM SlotsNeverShared ==
    ASSUME FrameReuse = FALSE
    PROVE  Spec => []SlotAccounting
<1>1. Init => SlotInv
    BY InitSlotInv
<1>2. SlotInv /\ [Next]_vars => SlotInv'
    BY NextSlotInv
<1>3. SlotInv => SlotAccounting
    <2> SUFFICES ASSUME SlotInv
                 PROVE  SlotAccounting
        OBVIOUS
    <2>1. ToSet(active) = {active[a] : a \in 1 .. Len(active)}
        BY DEF ToSet, SlotInv, SlotTypes
    <2>2. {s \in Slots : used[s]} = {slot[j] : j \in ToSet(active)}
        <3>1. ASSUME NEW s \in Slots, used[s]
              PROVE  s \in {slot[j] : j \in ToSet(active)}
            <4>1. PICK a \in 1 .. Len(active) : slot[active[a]] = s
                BY <3>1, Zenon DEF SlotInv, SlotsOwned
            <4>2. active[a] \in ToSet(active)
                BY <2>1
            <4> QED
                BY <4>1, <4>2
        <3>2. \A j \in ToSet(active) : slot[j] \in Slots /\ used[slot[j]]
            BY <2>1, ZenonT(40) DEF SlotInv, SlotsOwned
        <3>3. \A s \in Slots : s \in {slot[j] : j \in ToSet(active)} => used[s]
            BY <3>2, Zenon
        <3> QED
            BY <3>1, <3>2, <3>3
    <2> QED
        BY <2>2 DEF SlotAccounting, SlotInv, SlotsOwned
<1> QED
    BY <1>1, <1>2, <1>3, PTL DEF Spec

-----------------------------------------------------------------------------
(* Free slots are clean.  A slot is freed only at the end of the round its *)
(* job finished in; until then CleanInv follows it.                        *)

Clean(s) == seq[s] = << >> /\ pass[s] = << >>

BetweenRounds == {"check", "parked", "reset", "prefill", "verify"}

CleanInv ==
    /\ DOMAIN seq = Slots /\ DOMAIN pass = Slots
    /\ sched \in BetweenRounds => q = 1
    /\ sched \in {"reset", "prefill"} => active # << >>
    /\ FreeSlotsClean
    /\ \A p \in 1 .. Len(active) :
            p < q /\ (\A i \in 1 .. Len(still) : still[i] # active[p]) => Clean(slot[active[p]])
    /\ sched = "notify" => Clean(slot[Job])

LEMMA InitCleanInv == Init => CleanInv
<1> SUFFICES ASSUME Init
             PROVE  CleanInv
    OBVIOUS
<1>1. /\ active = << >> /\ q = 1 /\ sched = "check"
      /\ seq = [s \in Slots |-> << >>] /\ pass = [s \in Slots |-> << >>]
    BY Zenon DEF Init, Engine!EngineInit
<1> QED
    BY <1>1 DEF CleanInv, FreeSlotsClean, Clean

\* Steps that touch neither the engine nor the bookkeeping.
LEMMA CleanFrame ==
    ASSUME CleanInv,
           UNCHANGED <<seq, pass, used, active, still, slot, q>>,
           sched' \in BetweenRounds => sched \in BetweenRounds,
           sched' \in {"reset", "prefill"} => sched \in {"reset", "prefill"},
           sched' = "notify" => sched = "notify"
    PROVE  CleanInv'
<1>1. FreeSlotsClean'
    BY DEF CleanInv, FreeSlotsClean
<1>2. \A s : Clean(s)' <=> Clean(s)
    BY DEF Clean
<1>3. Job' = Job
    BY DEF Job
<1> QED
    BY <1>1, <1>2, <1>3 DEF CleanInv

\* Steps of the round that change the engine in the slot of the current job.
LEMMA CleanJob ==
    ASSUME SlotInv, CleanInv, q \in 1 .. Len(active),
           UNCHANGED <<used, active, still, slot, q>>,
           DOMAIN seq' = Slots, DOMAIN pass' = Slots,
           \A s \in Slots : s # slot[Job] => seq'[s] = seq[s] /\ pass'[s] = pass[s],
           sched' \in {"flush", "drafts", "notify"},
           sched' = "notify" => Clean(slot[Job])'
    PROVE  CleanInv'
<1>1. slot[Job] \in Slots /\ used[slot[Job]]
    BY Zenon DEF SlotInv, SlotsOwned, Job
<1>2. FreeSlotsClean'
    BY <1>1 DEF CleanInv, FreeSlotsClean
<1>3. \A p \in 1 .. Len(active) : p < q => slot[active[p]] \in Slots /\ slot[active[p]] # slot[Job]
    BY DEF SlotInv, SlotsOwned, Job
<1>4. \A p \in 1 .. Len(active) : p < q /\ Clean(slot[active[p]]) => Clean(slot[active[p]])'
    BY <1>3 DEF Clean
<1>5. Job' = Job
    BY DEF Job
<1> QED
    BY <1>2, <1>4, <1>5 DEF CleanInv, BetweenRounds

\* Steps between rounds: no job of the round has been dealt with, so only the
\* free slots matter, and the engine changes in slots of active jobs alone.
LEMMA CleanPass ==
    ASSUME SlotInv, CleanInv, q = 1,
           UNCHANGED <<used, active, still, slot, q>>,
           DOMAIN seq' = Slots, DOMAIN pass' = Slots,
           \A s \in Slots : ~used[s] => seq'[s] = seq[s] /\ pass'[s] = pass[s],
           sched' \in BetweenRounds \cup {"job"},
           sched' \in {"reset", "prefill"} => active # << >>
    PROVE  CleanInv'
<1>1. FreeSlotsClean'
    BY DEF CleanInv, FreeSlotsClean
<1>2. \A p \in 1 .. Len(active) : ~(p < q)
    BY DEF SlotInv, SlotTypes
<1> QED
    BY <1>1, <1>2 DEF CleanInv, BetweenRounds

LEMMA ThreadsCleanInv ==
    ASSUME SlotInv, CleanInv, NEW j \in Jobs, Handler(j) \/ Client(j)
    PROVE  CleanInv'
<1> USE DEF sharedVars, roundVars, jobVars, engineVars
<1>1. CASE Refuse(j) \/ WaitDone(j) \/ SpuriousWake(j) \/ Client(j)
    BY <1>1, CleanFrame DEF Refuse, WaitDone, SpuriousWake, Client, Stall, Resume, Leave, ClientMoves
<1>2. CASE Enqueue(j)
    BY <1>2, CleanFrame DEF Enqueue
<1>3. CASE NotifyScheduler(j)
    BY <1>3, CleanFrame DEF NotifyScheduler, BetweenRounds
<1> QED
    BY <1>1, <1>2, <1>3 DEF Handler

\* The engine works on the slots of active jobs only: prefill on the admitted
\* job, a pass on all of them.
LEMMA PassesCleanInv ==
    ASSUME SlotInv, CleanInv, ResetAdmitted \/ PrefillChunk \/ Verify
    PROVE  CleanInv'
<1> USE DEF sharedVars, roundVars, jobVars
<1>1. \A a \in 1 .. Len(active) : used[slot[active[a]]] /\ slot[active[a]] \in Slots
    BY Zenon DEF SlotInv, SlotsOwned
<1>2. CASE ResetAdmitted
    <2>1. Len(active) \in 1 .. Len(active) /\ q = 1
        BY <1>2 DEF ResetAdmitted, CleanInv, SlotInv, SlotTypes, BetweenRounds
    <2>2. used[slot[Admitted]]
        BY <1>1, <2>1 DEF Admitted, Last
    <2>3. /\ UNCHANGED <<used, active, still, slot, q>> /\ sched' = "prefill" /\ active # << >>
          /\ seq' = [seq EXCEPT ![slot[Admitted]] = << >>]
          /\ pass' = [pass EXCEPT ![slot[Admitted]] = << >>]
        BY <1>2 DEF ResetAdmitted, Engine!ResetSlot, CleanInv
    <2> QED
        BY <2>1, <2>2, <2>3, CleanPass DEF CleanInv, BetweenRounds
<1>3. CASE PrefillChunk
    <2>1. Len(active) \in 1 .. Len(active) /\ q = 1
        BY <1>3 DEF PrefillChunk, CleanInv, SlotInv, SlotTypes, BetweenRounds
    <2>2. used[slot[Admitted]]
        BY <1>1, <2>1 DEF Admitted, Last
    <2>3. PICK toks : Engine!Prefill(slot[Admitted], toks)
        BY <1>3, Zenon DEF PrefillChunk
    <2>4. /\ seq' = [seq EXCEPT ![slot[Admitted]] = @ \o toks]
          /\ pass' = [pass EXCEPT ![slot[Admitted]] = << >>]
        BY <2>3 DEF Engine!Prefill
    <2>5. /\ UNCHANGED <<used, active, still, slot, q>> /\ active # << >>
          /\ sched' \in {"check", "prefill"}
        BY <1>3 DEF PrefillChunk, CleanInv
    <2> QED
        BY <2>1, <2>2, <2>4, <2>5, CleanPass DEF CleanInv, BetweenRounds
<1>4. CASE Verify
    <2>1. /\ UNCHANGED <<used, active, still, slot, q, seq>> /\ sched' = "job" /\ q = 1
          /\ pass' = [s \in Slots |-> IF s \in DOMAIN Requests THEN Requests[s] ELSE pass[s]]
        BY <1>4 DEF Verify, Engine!Forward, CleanInv, BetweenRounds
    <2>2. \A s \in DOMAIN Requests : used[s]
        <3>1. DOMAIN Requests = {slot[j] : j \in ToSet(active)}
            BY DEF Requests
        <3>2. \A j \in ToSet(active) : used[slot[j]]
            BY <1>1 DEF ToSet, SlotInv, SlotTypes
        <3> QED
            BY <3>1, <3>2, Zenon
    <2> QED
        BY <2>1, <2>2, CleanPass DEF CleanInv, BetweenRounds
<1> QED
    BY <1>2, <1>3, <1>4

\* The steps of a job in its round.
LEMMA RoundCleanInv ==
    ASSUME SlotInv, CleanInv,
           StopJob \/ EmitLast \/ Match \/ EmitDraft \/ Flush \/ Finish
    PROVE  CleanInv'
<1> USE DEF sharedVars, roundVars, jobVars, engineVars
<1>1. CASE EmitLast \/ EmitDraft \/ Flush
    BY <1>1, CleanFrame DEF EmitLast, EmitDraft, Flush, BetweenRounds
<1>2. CASE StopJob
    <2>1. q \in 1 .. Len(active)
        BY <1>2 DEF StopJob, SlotInv, SlotTypes
    <2>2. /\ UNCHANGED <<used, active, still, slot, q>> /\ sched' = "flush"
          /\ seq' = [seq EXCEPT ![slot[Job]] = @ \o SubSeq(pass[slot[Job]], 1, 1)]
          /\ pass' = [pass EXCEPT ![slot[Job]] = << >>]
        BY <1>2 DEF StopJob, Engine!Accept
    <2> QED
        BY <2>1, <2>2, CleanJob DEF CleanInv
<1>3. CASE Match
    <2>1. q \in 1 .. Len(active)
        BY <1>3 DEF Match, Commit, SlotInv, SlotTypes, StillActive, InJob
    <2>2. PICK m : Engine!Accept(slot[Job], m)
        BY <1>3, Zenon DEF Match, Commit
    <2>3. /\ UNCHANGED <<used, active, still, slot, q>> /\ sched' = "drafts"
          /\ seq' = [seq EXCEPT ![slot[Job]] = @ \o SubSeq(pass[slot[Job]], 1, m)]
          /\ pass' = [pass EXCEPT ![slot[Job]] = << >>]
        BY <1>3, <2>2 DEF Match, Commit, Engine!Accept
    <2> QED
        BY <2>1, <2>3, CleanJob DEF CleanInv
<1>4. CASE Finish
    <2>1. q \in 1 .. Len(active)
        BY <1>4 DEF Finish, SlotInv, SlotTypes, StillActive, InJob
    <2>2. /\ UNCHANGED <<used, active, still, slot, q>> /\ sched' = "notify"
          /\ seq' = [seq EXCEPT ![slot[Job]] = << >>]
          /\ pass' = [pass EXCEPT ![slot[Job]] = << >>]
        BY <1>4 DEF Finish, Engine!ResetSlot
    <2>3. slot[Job] \in Slots
        BY <2>1 DEF SlotInv, SlotsOwned, Job
    <2>4. Clean(slot[Job])'
        BY <2>2, <2>3 DEF Clean, CleanInv, Job
    <2> QED
        BY <2>1, <2>2, <2>4, CleanJob DEF CleanInv
<1> QED
    BY <1>1, <1>2, <1>3, <1>4

LEMMA AdmitCleanInv ==
    ASSUME SlotInv, CleanInv, Park \/ Admit \/ Draft \/ Terminate
    PROVE  CleanInv'
<1> USE DEF sharedVars, roundVars, jobVars, engineVars
<1>1. CASE Park \/ Draft \/ Terminate
    BY <1>1, CleanFrame DEF Park, Draft, Terminate, BetweenRounds
<1>2. CASE Admit
    <2>1. PICK s \in Slots : used' = [used EXCEPT ![s] = TRUE]
        BY <1>2, Zenon DEF Admit
    <2>2. /\ active' = Append(active, Head(queue)) /\ sched' = "reset" /\ q = 1
          /\ UNCHANGED <<q, still, seq, pass>>
        BY <1>2 DEF Admit, CleanInv, BetweenRounds
    <2>3. FreeSlotsClean'
        BY <2>1, <2>2 DEF CleanInv, FreeSlotsClean, SlotInv, SlotTypes
    <2>4. active' # << >>
        BY <1>2, <2>2 DEF Admit, SlotInv, SlotTypes
    <2> QED
        BY <2>2, <2>3, <2>4 DEF CleanInv, BetweenRounds
<1> QED
    BY <1>1, <1>2

LEMMA AdvanceCleanInv ==
    ASSUME SlotInv, CleanInv, Advance
    PROVE  CleanInv'
<1>1. UNCHANGED <<active, used, slot, seq, pass>> /\ sched = "drafts"
    BY DEF Advance, sharedVars, engineVars
<1>2. q \in 1 .. Len(active) /\ active \in Seq(Jobs) /\ still \in Seq(Jobs)
    BY <1>1 DEF SlotInv, SlotTypes, StillActive, InJob
<1>3. CASE sched' = "flush" /\ UNCHANGED <<still, q>>
    BY <1>1, <1>3, CleanFrame DEF BetweenRounds
<1>4. CASE still' = Append(still, active[q]) /\ q' = q + 1 /\ sched' = "job"
    <2>1. FreeSlotsClean'
        BY <1>1 DEF CleanInv, FreeSlotsClean
    <2>2. \E i \in 1 .. Len(still') : still'[i] = active[q]
        BY <1>2, <1>4
    <2>3. \A i \in 1 .. Len(still) : i \in 1 .. Len(still') /\ still'[i] = still[i]
        BY <1>2, <1>4
    <2>4. \A p \in 1 .. Len(active') :
            p < q' /\ (\A i \in 1 .. Len(still') : still'[i] # active'[p]) => Clean(slot[active[p]])
        BY <1>1, <1>2, <1>4, <2>2, <2>3 DEF CleanInv
    <2> QED
        BY <1>1, <1>4, <2>1, <2>4 DEF CleanInv, BetweenRounds, Clean
<1> QED
    BY <1>3, <1>4 DEF Advance, Job

LEMMA NotifyJobCleanInv ==
    ASSUME SlotInv, CleanInv, NotifyJob
    PROVE  CleanInv'
<1>1. /\ UNCHANGED <<active, used, slot, still, seq, pass>>
      /\ q' = q + 1 /\ sched' = "job" /\ sched = "notify"
    BY DEF NotifyJob, sharedVars, jobVars, engineVars
<1>2. FreeSlotsClean'
    BY <1>1 DEF CleanInv, FreeSlotsClean
<1>3. \A p \in 1 .. Len(active) : p < q + 1 => p < q \/ p = q
    BY DEF SlotInv, SlotTypes
<1> QED
    BY <1>1, <1>2, <1>3 DEF CleanInv, BetweenRounds, Clean, Job

LEMMA ReleaseCleanInv ==
    ASSUME FrameReuse = FALSE, SlotInv, CleanInv, Release
    PROVE  CleanInv'
<1>1. PICK freed \in [Finished -> Slots \cup {NoSlot}] :
        /\ \A j \in Finished : freed[j] \in SlotRead(j)
        /\ used' = [s \in Slots |-> used[s] /\ \A j \in Finished : freed[j] # s]
    BY DEF Release
<1>2. UNCHANGED <<seq, pass>> /\ q' = 1 /\ sched' = "check" /\ q > Len(active)
    BY DEF Release, engineVars
<1>3. \A j \in Finished : freed[j] = slot[j]
    BY <1>1 DEF SlotRead
<1>4. \A j \in Finished : Clean(slot[j])
    <2> SUFFICES ASSUME NEW j \in Finished
                 PROVE  Clean(slot[j])
        OBVIOUS
    <2>1. PICK p \in 1 .. Len(active) : active[p] = j
        BY DEF Finished, ToSet, SlotInv, SlotTypes
    <2>2. p < q
        BY <1>2 DEF SlotInv, SlotTypes
    <2>3. \A i \in 1 .. Len(still) : still[i] # j
        BY DEF Finished, ToSet, SlotInv, SlotTypes
    <2> QED
        BY <2>1, <2>2, <2>3 DEF CleanInv
<1>5. FreeSlotsClean'
    <2> SUFFICES ASSUME NEW s \in Slots, ~used'[s]
                 PROVE  Clean(s)
        BY <1>2 DEF FreeSlotsClean, Clean
    <2>1. ~used[s] \/ \E j \in Finished : freed[j] = s
        BY <1>1, Zenon
    <2>2. CASE ~used[s]
        BY <2>2 DEF CleanInv, FreeSlotsClean, Clean
    <2>3. CASE \E j \in Finished : freed[j] = s
        BY <2>3, <1>3, <1>4
    <2> QED
        BY <2>1, <2>2, <2>3
<1> QED
    BY <1>2, <1>5 DEF CleanInv, BetweenRounds

LEMMA NextCleanInv ==
    ASSUME FrameReuse = FALSE, SlotInv, CleanInv, [Next]_vars
    PROVE  CleanInv'
<1>1. ASSUME NEW j \in Jobs, Handler(j) \/ Client(j)
      PROVE  CleanInv'
    BY <1>1, ThreadsCleanInv
<1>2. CASE Loop
    BY <1>2, AdmitCleanInv, PassesCleanInv, RoundCleanInv, AdvanceCleanInv, NotifyJobCleanInv,
       ReleaseCleanInv, Zenon
       DEF Loop
<1>3. CASE UNCHANGED vars
    BY <1>3, CleanFrame DEF vars, sharedVars, roundVars, jobVars, engineVars
<1> QED
    BY <1>1, <1>2, <1>3, Zenon DEF Next, Quiescent

\* Slots are handed over clean (serve.cpp finish() resets a slot, run() frees it
\* later in the round): whenever a slot is marked free, the engine holds nothing
\* of its last job, for any number of slots, requests and drafts.
THEOREM FreedSlotsAreClean ==
    ASSUME FrameReuse = FALSE
    PROVE  Spec => []FreeSlotsClean
<1>1. Init => SlotInv /\ CleanInv
    BY InitSlotInv, InitCleanInv
<1>2. SlotInv /\ CleanInv /\ [Next]_vars => (SlotInv /\ CleanInv)'
    BY NextSlotInv, NextCleanInv
<1>3. SlotInv /\ CleanInv => FreeSlotsClean
    BY DEF CleanInv
<1> QED
    BY <1>1, <1>2, <1>3, PTL DEF Spec

-----------------------------------------------------------------------------
(* Every pass is accepted before the next: PassInv follows the rows of a   *)
(* pass from Verify to the accept of each job of the round.                *)

Accepted(s) == pass[s] = << >>

PassInv ==
    /\ sched \in BetweenRounds => \A s \in Slots : Accepted(s)
    /\ \A p \in 1 .. Len(active) : p < q => Accepted(slot[active[p]])
    /\ sched \in {"drafts", "flush", "finish", "notify"} => Accepted(slot[Job])

\* Steps that leave the engine alone and stay at the same job.
LEMMA PassFrame ==
    ASSUME PassInv,
           UNCHANGED <<pass, active, slot, q>>,
           sched' \in BetweenRounds => sched \in BetweenRounds,
           sched' \in {"drafts", "flush", "finish", "notify"} =>
               sched \in {"drafts", "flush", "finish", "notify"}
    PROVE  PassInv'
<1>1. \A s : Accepted(s)' <=> Accepted(s)
    BY DEF Accepted
<1>2. Job' = Job
    BY DEF Job
<1> QED
    BY <1>1, <1>2 DEF PassInv

\* The current job is accepted or reset: no rows of its slot are left.
LEMMA PassJob ==
    ASSUME SlotInv, CleanInv, PassInv, q \in 1 .. Len(active),
           UNCHANGED <<active, slot, q>>,
           pass' = [pass EXCEPT ![slot[Job]] = << >>],
           sched' \in {"drafts", "flush", "notify"}
    PROVE  PassInv'
<1>1. slot[Job] \in DOMAIN pass /\ \A p \in 1 .. Len(active) : slot[active[p]] \in DOMAIN pass
    BY DEF SlotInv, SlotsOwned, CleanInv, Job
<1>2. Accepted(slot[Job])'
    BY <1>1 DEF Accepted, Job
<1>3. \A p \in 1 .. Len(active) : Accepted(slot[active[p]]) => Accepted(slot[active[p]])'
    BY <1>1 DEF Accepted
<1> QED
    BY <1>2, <1>3 DEF PassInv, BetweenRounds

LEMMA NextPassInv ==
    ASSUME FrameReuse = FALSE, SlotInv, CleanInv, PassInv, [Next]_vars
    PROVE  PassInv'
<1> USE DEF sharedVars, roundVars, jobVars, engineVars
<1>1. ASSUME NEW j \in Jobs, Handler(j) \/ Client(j)
      PROVE  PassInv'
    <2>1. UNCHANGED <<pass, active, slot, q>> /\ (sched' = sched \/ (sched = "parked" /\ sched' = "check"))
        BY <1>1 DEF Handler, Refuse, Enqueue, NotifyScheduler, WaitDone, SpuriousWake,
                    Client, Stall, Resume, Leave, ClientMoves
    <2> QED
        BY <2>1, PassFrame DEF BetweenRounds
<1>2. CASE Park \/ Draft \/ Terminate \/ EmitLast \/ EmitDraft \/ Flush
    <2>1. UNCHANGED <<pass, active, slot, q>>
        BY <1>2 DEF Park, Draft, Terminate, EmitLast, EmitDraft, Flush
    <2>2. /\ sched' \in BetweenRounds => sched \in BetweenRounds
          /\ sched' \in {"drafts", "flush", "finish", "notify"} =>
                sched \in {"drafts", "flush", "finish", "notify"}
        BY <1>2 DEF Park, Draft, Terminate, EmitLast, EmitDraft, Flush, BetweenRounds
    <2> QED
        BY <2>1, <2>2, PassFrame
<1>3. CASE Admit
    BY <1>3 DEF Admit, CleanInv, PassInv, BetweenRounds, Accepted
<1>4. CASE ResetAdmitted
    <2>1. /\ pass' = [pass EXCEPT ![slot[Admitted]] = << >>] /\ q' = 1 /\ sched' = "prefill"
          /\ \A s \in Slots : Accepted(s) /\ UNCHANGED <<active>>
        BY <1>4 DEF ResetAdmitted, Engine!ResetSlot, PassInv, CleanInv, BetweenRounds
    <2> QED
        BY <2>1 DEF PassInv, CleanInv, Accepted
<1>5. CASE PrefillChunk
    <2>1. PICK toks : Engine!Prefill(slot[Admitted], toks)
        BY <1>5, Zenon DEF PrefillChunk
    <2>2. /\ pass' = [pass EXCEPT ![slot[Admitted]] = << >>] /\ q' = 1 /\ sched' \in {"check", "prefill"}
          /\ \A s \in Slots : Accepted(s) /\ UNCHANGED <<active>>
        BY <1>5, <2>1 DEF PrefillChunk, Engine!Prefill, PassInv, CleanInv, BetweenRounds
    <2> QED
        BY <2>2 DEF PassInv, CleanInv, Accepted
<1>6. CASE Verify
    BY <1>6 DEF Verify, PassInv, CleanInv, BetweenRounds
<1>7. CASE StopJob
    BY <1>7, PassJob DEF StopJob, Engine!Accept, SlotInv, SlotTypes
<1>8. CASE Match
    <2>1. PICK m : Engine!Accept(slot[Job], m)
        BY <1>8, Zenon DEF Match, Commit
    <2>2. q \in 1 .. Len(active) /\ UNCHANGED <<active, slot, q>> /\ sched' = "drafts"
        BY <1>8 DEF Match, Commit, SlotInv, SlotTypes, StillActive, InJob
    <2> QED
        BY <2>1, <2>2, PassJob DEF Engine!Accept
<1>9. CASE Finish
    BY <1>9, PassJob DEF Finish, Engine!ResetSlot, SlotInv, SlotTypes, StillActive, InJob
<1>10. CASE Advance \/ NotifyJob
    <2>1. /\ UNCHANGED <<pass, active, slot>>
          /\ \/ UNCHANGED q /\ sched' = "flush"
             \/ q' = q + 1 /\ sched' = "job"
          /\ Accepted(slot[Job])
        BY <1>10 DEF Advance, NotifyJob, PassInv
    <2>2. \A p \in 1 .. Len(active) : p < q + 1 => p < q \/ p = q
        BY DEF SlotInv, SlotTypes
    <2> QED
        BY <2>1, <2>2 DEF PassInv, BetweenRounds, Accepted, Job
<1>11. CASE Release
    <2>1. UNCHANGED pass /\ q' = 1 /\ sched' = "check" /\ q > Len(active)
        BY <1>11 DEF Release
    <2>2. \A s \in Slots : Accepted(s)
        <3> SUFFICES ASSUME NEW s \in Slots
                     PROVE  Accepted(s)
            OBVIOUS
        <3>1. CASE ~used[s]
            BY <3>1 DEF CleanInv, FreeSlotsClean, Accepted
        <3>2. CASE used[s]
            <4>1. PICK a \in 1 .. Len(active) : slot[active[a]] = s
                BY <3>2, Zenon DEF SlotInv, SlotsOwned
            <4>2. a < q
                BY <2>1 DEF SlotInv, SlotTypes
            <4> QED
                BY <4>1, <4>2 DEF PassInv
        <3> QED
            BY <3>1, <3>2
    <2> QED
        BY <2>1, <2>2 DEF PassInv, Accepted
<1>12. CASE UNCHANGED vars
    BY <1>12, PassFrame DEF vars
<1> QED
    BY <1>1, <1>2, <1>3, <1>4, <1>5, <1>6, <1>7, <1>8, <1>9, <1>10, <1>11, <1>12, Zenon
       DEF Next, Loop, Quiescent

\* accept() replays from buffers the next pass overwrites (qwen4exp.cpp), so
\* run() must accept every slot of a pass before it prefills or verifies again:
\* it does, also when jobs of the round stop, fail or reach their limit.
THEOREM PassesAreAccepted ==
    ASSUME FrameReuse = FALSE
    PROVE  Spec => []EveryPassAccepted
<1>1. Init => SlotInv /\ CleanInv /\ PassInv
    <2>1. Init => PassInv
        <3> SUFFICES ASSUME Init
                     PROVE  PassInv
            OBVIOUS
        <3>1. active = << >> /\ sched = "check" /\ pass = [s \in Slots |-> << >>]
            BY Zenon DEF Init, Engine!EngineInit
        <3> QED
            BY <3>1 DEF PassInv, Accepted
    <2> QED
        BY <2>1, InitSlotInv, InitCleanInv
<1>2. SlotInv /\ CleanInv /\ PassInv /\ [Next]_vars => (SlotInv /\ CleanInv /\ PassInv)'
    BY NextSlotInv, NextCleanInv, NextPassInv
<1>3. SlotInv /\ CleanInv /\ PassInv => EveryPassAccepted
    BY DEF PassInv, EveryPassAccepted, Accepted, BetweenRounds
<1> QED
    BY <1>1, <1>2, <1>3, PTL DEF Spec

-----------------------------------------------------------------------------
(* The answers.                                                            *)

\* What the client of j has seen: its prompt and the tokens given so far.
Context(j) == Prompt[j] \o ids[j]

\* What a row of a pass is computed from: base and the first t tokens j runs.
Row(base, j, t) == base \o SubSeq(Batch(j), 1, t)

Unfinished(j) == ~gone[j] /\ ~done[j] /\ fin[j] = ""

Fresh(j) == Unfinished(j) /\ pos[j] = 0 /\ ids[j] = << >>

MayGoOn(j) == ids[j] = << >> \/ Len(ids[j]) < MaxTokens[j]

\* Between rounds: the engine holds what the client has seen, and the next
\* token is chosen.
Ready(j) ==
    /\ Unfinished(j) /\ MayGoOn(j)
    /\ seq[slot[j]] = Context(j) /\ pos[j] = Len(Context(j))
    /\ Pick(j, Context(j), idLast[j])

Prefilling(j) ==
    /\ Unfinished(j) /\ ids[j] = << >>
    /\ pos[j] < Len(Prompt[j])
    /\ seq[slot[j]] = SubSeq(Prompt[j], 1, pos[j])

\* The rows of j begin behind row r and are computed on top of base.
RowsFor(j, base, r) == \A t \in 1 .. Len(Batch(j)) : rows[r + t] = Greedy(Row(base, j, t))

\* A job of the round that is not dealt with yet.
Waiting(j, r) == Ready(j) /\ pass[slot[j]] = Batch(j) /\ RowsFor(j, seq[slot[j]], r)

\* out() is the only reason for an answer to have ended.
GoneAborts(j) == fin[j] = IF gone[j] THEN "abort" ELSE ""

Emitted(j) == ~done[j] /\ ids[j] # << >> /\ GoneAborts(j)

\* idLast is out, the drafts are not.
Matching(j) ==
    /\ Emitted(j)
    /\ pos[j] = Len(seq[slot[j]]) /\ pass[slot[j]] = Batch(j)
    /\ RowsFor(j, seq[slot[j]], r0)
    /\ ~gone[j] => Context(j) = Row(seq[slot[j]], j, 1)

\* mm drafts are committed and k of them are out.
Emitting(j) ==
    /\ Emitted(j)
    /\ mm \in 0 .. Len(drafts[slot[j]]) /\ k \in 0 .. mm
    /\ \A i \in 1 .. mm : Agrees(j, i)
    /\ LET base == SubSeq(seq[slot[j]], 1, pos[j])
       IN  /\ pos[j] \in 0 .. Len(seq[slot[j]])
           /\ seq[slot[j]] = Row(base, j, mm + 1)
           /\ RowsFor(j, base, r0)
           /\ ~gone[j] => Context(j) = Row(base, j, k + 1)

\* The answer of j has ended, and fin says why; "" stands for the limit.
Ended(j) ==
    /\ fin[j] \in {"", "length"} => Len(ids[j]) = Service!TokenLimit(j)
    /\ fin[j] = "stop" => MayGoOn(j) /\ \E id \in Stop : Pick(j, Context(j), id)

ExactSoFar(j) ==
    \A i \in 1 .. Len(ids[j]) :
        /\ ids[j][i] = Greedy(Prompt[j] \o SubSeq(ids[j], 1, i - 1))
        /\ ids[j][i] \notin Stop

\* What is true of every job at any time.
JobInv(j) ==
    /\ j \notin Sampled => ExactSoFar(j)
    /\ Len(ids[j]) <= Service!TokenLimit(j)
    /\ fin[j] = "abort" => j \in Streaming /\ client[j] = "left"
    /\ done[j] => Ended(j) /\ fin[j] # "" /\ handler[j] \notin {"new", "refused"}
    /\ handler[j] = "new" => Fresh(j)

Rounds == {"job", "match", "drafts", "flush", "finish", "notify"}
Past == {"flush", "finish", "notify"}

Offsets(first) ==
    /\ first \in [1 .. Len(active) + 1 -> Nat]
    /\ \A p \in 1 .. Len(active) : first[p + 1] = first[p] + 1 + Len(drafts[slot[active[p]]])
    /\ r0 = first[IF sched \in Past THEN q + 1 ELSE q]
    /\ \A p \in 1 .. Len(active) :
          p > q \/ (p = q /\ sched = "job") => Waiting(active[p], first[p])

JobsInv == \A j \in Jobs : JobInv(j)

QueueInv ==
    /\ \A i \in 1 .. Len(queue) : Fresh(queue[i]) /\ handler[queue[i]] # "refused"
    /\ \A i \in 1 .. Len(active) : handler[active[i]] # "refused"

\* Between rounds every active job is ready, but the one being admitted.
BetweenInv ==
    /\ sched \in {"check", "parked", "verify"} => \A p \in 1 .. Len(active) : Ready(active[p])
    /\ sched \in {"reset", "prefill"} => \A p \in 1 .. Len(active) - 1 : Ready(active[p])
    /\ sched = "reset" => Fresh(Admitted)
    /\ sched = "prefill" => Prefilling(Admitted)
    /\ sched \in BetweenRounds => r0 = 0

\* In a round the jobs behind q wait, and those in still are ready again.
RoundInv ==
    /\ sched \in Rounds => \E first \in [1 .. Len(active) + 1 -> Nat] : Offsets(first)
    /\ \A i \in 1 .. Len(still) : Ready(still[i])

\* The job the round is at.
CurrentInv ==
    /\ sched = "match" => Matching(Job)
    /\ sched = "drafts" => Emitting(Job)
    /\ sched \in {"flush", "finish"} => ~done[Job] /\ Ended(Job)
    /\ sched = "flush" /\ gone[Job] => fin[Job] = "abort"
    /\ sched = "finish" => fin[Job] # ""
    /\ sched = "notify" => done[Job]

AnswerInv == JobsInv /\ QueueInv /\ BetweenInv /\ RoundInv /\ CurrentInv

-----------------------------------------------------------------------------
(* Types                                                                   *)

HandlerTypes == handler \in [Jobs -> HandlerStates]
ClientTypes == client \in [Jobs -> {"reading", "stalled", "resumed", "left"}]
RoundTypes ==
    /\ queue \in Seq(Jobs) /\ active \in Seq(Jobs) /\ still \in Seq(Jobs)
    /\ used \in [Slots -> BOOLEAN]
    /\ drafts \in [Slots -> Seq(Token)]
    /\ rows \in Seq(Token)
    /\ q \in Nat /\ r0 \in Nat /\ mm \in Nat /\ k \in Nat
JobTypes ==
    /\ slot \in [Jobs -> Slots \cup {NoSlot}]
    /\ pos \in [Jobs -> Nat]
    /\ idLast \in [Jobs -> Token]
    /\ ids \in [Jobs -> Seq(Token)]
    /\ gone \in [Jobs -> BOOLEAN] /\ done \in [Jobs -> BOOLEAN]
    /\ fin \in [Jobs -> {"", "stop", "length", "abort"}]
EngineTypes ==
    /\ seq \in [Slots -> Seq(Token)]
    /\ pass \in [Slots -> Seq(Token)]

LEMMA TypeParts ==
    /\ TypeOK <=> sched \in SchedStates /\ RoundTypes /\ JobTypes /\ HandlerTypes /\ ClientTypes /\ EngineTypes
    /\ TypeOK' <=> /\ sched' \in SchedStates /\ RoundTypes' /\ JobTypes'
                   /\ HandlerTypes' /\ ClientTypes' /\ EngineTypes'
BY Zenon DEF TypeOK, RoundTypes, JobTypes, HandlerTypes, HandlerStates, ClientTypes, EngineTypes, Engine!EngineTypeOK

LEMMA NoTokens == << >> \in Seq(Token) /\ Len(<< >>) = 0
BY EmptySeq

LEMMA InitTypeOK == Init => TypeOK
<1> SUFFICES ASSUME Init
             PROVE  TypeOK
    OBVIOUS
<1>1. idLast \in [Jobs -> Token]
    <2>1. \A j \in Jobs : \E id : id \in Token
        <3> SUFFICES ASSUME NEW j \in Jobs
                     PROVE  \E id : id \in Token
            OBVIOUS
        <3>1. Prompt[j] \in Seq(Token) /\ Prompt[j] # << >>
            BY SchedulerAssumption
        <3>2. 1 \in 1 .. Len(Prompt[j])
            BY <3>1, EmptySeq
        <3> QED
            BY <3>1, <3>2, ElementOfSeq
    <2>2. idLast = [j \in Jobs |-> CHOOSE id \in Token : TRUE]
        BY Zenon DEF Init
    <2>3. ASSUME NEW j \in Jobs
          PROVE  (CHOOSE id \in Token : TRUE) \in Token
        BY <2>1, Zenon
    <2> DEFINE any == CHOOSE id \in Token : TRUE
    <2>4. \A j \in Jobs : any \in Token
        BY <2>3
    <2> HIDE DEF any
    <2>5. [j \in Jobs |-> any] \in [Jobs -> Token]
        BY <2>4
    <2> QED
        BY <2>2, <2>5 DEF any
<1>2. /\ queue = << >> /\ active = << >> /\ still = << >> /\ rows = << >>
      /\ used = [s \in Slots |-> FALSE] /\ drafts = [s \in Slots |-> << >>]
      /\ sched = "check" /\ q = 1 /\ r0 = 0 /\ mm = 0 /\ k = 0
      /\ slot = [j \in Jobs |-> NoSlot] /\ pos = [j \in Jobs |-> 0]
      /\ ids = [j \in Jobs |-> << >>] /\ fin = [j \in Jobs |-> ""]
      /\ gone = [j \in Jobs |-> FALSE] /\ done = [j \in Jobs |-> FALSE]
      /\ handler = [j \in Jobs |-> "new"] /\ client = [j \in Jobs |-> "reading"]
      /\ seq = [s \in Slots |-> << >>] /\ pass = [s \in Slots |-> << >>]
    BY Zenon DEF Init, Engine!EngineInit
<1>3. sched \in SchedStates /\ HandlerTypes /\ ClientTypes
    BY <1>2 DEF SchedStates, HandlerTypes, HandlerStates, ClientTypes
<1>4. RoundTypes
    <2>1. drafts \in [Slots -> Seq(Token)] /\ used \in [Slots -> BOOLEAN]
        BY <1>2, NoTokens, Zenon
    <2>2. queue \in Seq(Jobs) /\ active \in Seq(Jobs) /\ still \in Seq(Jobs) /\ rows \in Seq(Token)
        BY <1>2, EmptySeq
    <2>3. q \in Nat /\ r0 \in Nat /\ mm \in Nat /\ k \in Nat
        BY <1>2
    <2> QED
        BY <2>1, <2>2, <2>3 DEF RoundTypes
<1>5. EngineTypes
    BY <1>2, NoTokens, Zenon DEF EngineTypes
<1>6. JobTypes
    <2>1. ids \in [Jobs -> Seq(Token)]
        BY <1>2, NoTokens, Zenon
    <2> QED
        BY <1>1, <1>2, <2>1 DEF JobTypes
<1> QED
    BY <1>3, <1>4, <1>5, <1>6, TypeParts

\* The handlers and the clients.
LEMMA ThreadsTypeOK ==
    ASSUME SlotInv, TypeOK, NEW j \in Jobs, Handler(j) \/ Client(j)
    PROVE  TypeOK'
<1> USE TypeParts DEF sharedVars, roundVars, jobVars, engineVars
<1>1. UNCHANGED <<active, used, roundVars, jobVars, engineVars>>
    BY DEF Handler, Refuse, Enqueue, NotifyScheduler, WaitDone, SpuriousWake,
           Client, Stall, Resume, Leave, ClientMoves
<1>2. queue' \in Seq(Jobs) /\ sched' \in SchedStates
    <2>1. \/ UNCHANGED queue
          \/ queue' = Append(queue, j)
        BY DEF Handler, Refuse, Enqueue, NotifyScheduler, WaitDone, SpuriousWake,
               Client, Stall, Resume, Leave, ClientMoves
    <2>2. sched' = sched \/ sched' = "check"
        BY DEF Handler, Refuse, Enqueue, NotifyScheduler, WaitDone, SpuriousWake,
               Client, Stall, Resume, Leave, ClientMoves
    <2>3. queue \in Seq(Jobs)
        BY DEF RoundTypes
    <2> QED
        BY <2>1, <2>2, <2>3 DEF SchedStates
<1>3. HandlerTypes'
    BY DEF Handler, Refuse, Enqueue, NotifyScheduler, WaitDone, SpuriousWake,
           Client, Stall, Resume, Leave, ClientMoves, HandlerTypes, HandlerStates
<1>4. ClientTypes'
    BY DEF Handler, Refuse, Enqueue, NotifyScheduler, WaitDone, SpuriousWake,
           Client, Stall, Resume, Leave, ClientMoves, ClientTypes
<1>5. RoundTypes' /\ JobTypes' /\ EngineTypes'
    BY <1>1, <1>2 DEF RoundTypes, JobTypes, EngineTypes
<1> QED
    BY <1>2, <1>3, <1>4, <1>5

LEMMA AdmissionTypeOK ==
    ASSUME SlotInv, CleanInv, TypeOK, Park \/ Admit \/ ResetAdmitted \/ PrefillChunk
    PROVE  TypeOK'
<1> USE TypeParts DEF sharedVars, roundVars, jobVars, engineVars
<1>1. CASE Park
    BY <1>1 DEF Park, SchedStates, RoundTypes, JobTypes, HandlerTypes, ClientTypes, EngineTypes
<1>2. CASE Admit
    <2>1. PICK s \in Slots : /\ used' = [used EXCEPT ![s] = TRUE]
                             /\ slot' = [slot EXCEPT ![Head(queue)] = s]
        BY <1>2 DEF Admit
    <2>2. /\ Head(queue) \in Jobs /\ Tail(queue) \in Seq(Jobs)
          /\ active' = Append(active, Head(queue)) /\ queue' = Tail(queue) /\ sched' = "reset"
          /\ UNCHANGED <<roundVars, pos, idLast, ids, gone, fin, done, handler, client, engineVars>>
        BY <1>2 DEF Admit, RoundTypes
    <2>3. RoundTypes'
        BY <2>1, <2>2 DEF RoundTypes
    <2>4. slot' \in [Jobs -> Slots \cup {NoSlot}]
        BY <2>1, <2>2 DEF JobTypes
    <2>5. JobTypes'
        BY <2>2, <2>4 DEF JobTypes
    <2> QED
        BY <2>2, <2>3, <2>5 DEF SchedStates, HandlerTypes, ClientTypes, EngineTypes
<1>3. CASE ResetAdmitted
    <2>1. EngineTypes'
        BY <1>3, NoTokens, Zenon DEF ResetAdmitted, Engine!ResetSlot, EngineTypes
    <2> QED
        BY <1>3, <2>1 DEF ResetAdmitted, SchedStates, RoundTypes, JobTypes, HandlerTypes, ClientTypes
<1>4. CASE PrefillChunk
    <2> DEFINE j == Admitted
               n == IF Len(Prompt[j]) - pos[j] < Chunk THEN Len(Prompt[j]) - pos[j] ELSE Chunk
               toks == NextChunk(j)
    <2>1. active # << >> /\ active \in Seq(Jobs)
        BY <1>4 DEF PrefillChunk, CleanInv, RoundTypes
    <2>2. j \in Jobs
        BY <2>1 DEF Admitted, Last
    <2> HIDE DEF j
    <2>3. /\ Prompt[j] \in Seq(Token) /\ Len(Prompt[j]) \in Nat /\ pos[j] \in Nat /\ Chunk \in Nat
        <3>1. Prompt[j] \in Seq(Token) /\ Chunk \in Nat
            BY <2>2, SchedulerAssumption
        <3> QED
            BY <2>2, <3>1, LenProperties DEF JobTypes
    <2>4. n \in Int /\ n <= Len(Prompt[j]) - pos[j]
        BY <2>3
    <2>5. toks \in Seq(Token) /\ Len(toks) \in Nat
        <3>1. \A i \in pos[j] + 1 .. pos[j] + n : Prompt[j][i] \in Token
            BY <2>3, <2>4
        <3>2. toks = SubSeq(Prompt[j], pos[j] + 1, pos[j] + n)
            BY DEF NextChunk
        <3> HIDE DEF n, toks
        <3>3. toks \in Seq(Token)
            BY <2>3, <2>4, <3>1, <3>2, SubSeqProperties
        <3> QED
            BY <3>3, LenProperties
    <2> HIDE DEF n, toks
    <2>6. /\ seq' = [seq EXCEPT ![slot[j]] = @ \o toks]
          /\ pass' = [pass EXCEPT ![slot[j]] = << >>]
          /\ pos' = [pos EXCEPT ![j] = @ + Len(toks)]
        BY <1>4, Zenon DEF PrefillChunk, Engine!Prefill, j, toks
    <2>7. seq' \in [Slots -> Seq(Token)] /\ pass' \in [Slots -> Seq(Token)]
        <3>1. \A s \in Slots : seq[s] \o toks \in Seq(Token)
            BY <2>5, ConcatProperties DEF EngineTypes
        <3>2. seq' \in [Slots -> Seq(Token)]
            BY <2>6, <3>1, Zenon DEF EngineTypes
        <3> QED
            BY <2>6, <3>2, NoTokens, Zenon DEF EngineTypes
    <2>8. pos' \in [Jobs -> Nat]
        <3>1. pos' = [pos EXCEPT ![j] = pos[j] + Len(toks)] /\ pos[j] + Len(toks) \in Nat
            BY <2>3, <2>5, <2>6
        <3> QED
            BY <3>1 DEF JobTypes
    <2>9. idLast' \in [Jobs -> Token]
        BY <1>4 DEF PrefillChunk, JobTypes
    <2>10. /\ UNCHANGED <<queue, active, used, roundVars, slot, ids, gone, fin, done, handler, client>>
           /\ sched' \in {"check", "prefill"}
        BY <1>4 DEF PrefillChunk
    <2>11. JobTypes' /\ RoundTypes'
        BY <2>8, <2>9, <2>10 DEF JobTypes, RoundTypes
    <2> QED
        BY <2>7, <2>10, <2>11 DEF EngineTypes, HandlerTypes, ClientTypes, SchedStates
<1> QED
    BY <1>1, <1>2, <1>3, <1>4

\* The job a round is at.
LEMMA CurrentJob ==
    ASSUME SlotInv, TypeOK, sched \in InJob \/ (sched = "job" /\ q <= Len(active))
    PROVE  q \in 1 .. Len(active) /\ Job \in Jobs /\ slot[Job] \in Slots
<1>1. q \in 1 .. Len(active) /\ active \in Seq(Jobs)
    BY DEF SlotInv, SlotTypes, StillActive
<1>2. Job \in Jobs
    BY <1>1 DEF Job
<1>3. slot[Job] \in Slots
    BY <1>1, Zenon DEF SlotInv, SlotsOwned, Job
<1> QED
    BY <1>1, <1>2, <1>3

LEMMA BatchFacts ==
    ASSUME TypeOK, NEW j \in Jobs, slot[j] \in Slots
    PROVE  /\ Batch(j) \in Seq(Token) /\ Len(Batch(j)) = 1 + Len(drafts[slot[j]])
           /\ Len(drafts[slot[j]]) \in Nat
           /\ Batch(j)[1] = idLast[j]
           /\ \A i \in 1 .. Len(drafts[slot[j]]) : Batch(j)[i + 1] = drafts[slot[j]][i]
<1> DEFINE d == drafts[slot[j]]
           x == <<idLast[j]>>
<1>1. d \in Seq(Token) /\ Len(d) \in Nat
    <2>1. d \in Seq(Token)
        BY TypeParts DEF RoundTypes
    <2> QED
        BY <2>1, LenProperties
<1>2. x \in Seq(Token) /\ Len(x) = 1 /\ x[1] = idLast[j]
    <2>1. idLast[j] \in Token
        BY TypeParts DEF JobTypes
    <2> QED
        BY <2>1
<1>3. Batch(j) = x \o d
    BY DEF Batch
<1> HIDE DEF d, x
<1>4. /\ x \o d \in Seq(Token) /\ Len(x \o d) = 1 + Len(d)
      /\ \A i \in 1 .. 1 + Len(d) : (x \o d)[i] = IF i <= 1 THEN x[i] ELSE d[i - 1]
    <2>1. /\ x \o d \in Seq(Token) /\ Len(x \o d) = Len(x) + Len(d)
          /\ \A i \in 1 .. Len(x) + Len(d) : (x \o d)[i] = IF i <= Len(x) THEN x[i] ELSE d[i - Len(x)]
        BY <1>1, <1>2, ConcatProperties, Zenon
    <2> QED
        BY <1>2, <2>1
<1>5. (x \o d)[1] = idLast[j] /\ \A i \in 1 .. Len(d) : (x \o d)[i + 1] = d[i]
    BY <1>1, <1>2, <1>4
<1> QED
    BY <1>1, <1>3, <1>4, <1>5 DEF d

\* Every active job runs its own batch in the pass, in its own slot.
LEMMA RequestFacts ==
    ASSUME SlotInv, TypeOK
    PROVE  /\ \A p \in 1 .. Len(active) :
                  /\ active[p] \in Jobs /\ slot[active[p]] \in Slots
                  /\ slot[active[p]] \in DOMAIN Requests
                  /\ Requests[slot[active[p]]] = Batch(active[p])
           /\ DOMAIN Requests = {slot[active[p]] : p \in 1 .. Len(active)}
<1>1. active \in Seq(Jobs) /\ ToSet(active) = {active[p] : p \in 1 .. Len(active)}
    BY DEF ToSet, SlotInv, SlotTypes
<1>2. DOMAIN Requests = {slot[active[p]] : p \in 1 .. Len(active)}
    BY <1>1 DEF Requests
<1>3. ASSUME NEW p \in 1 .. Len(active)
      PROVE  /\ active[p] \in Jobs /\ slot[active[p]] \in Slots
             /\ slot[active[p]] \in DOMAIN Requests
             /\ Requests[slot[active[p]]] = Batch(active[p])
    <2>1. active[p] \in Jobs /\ active[p] \in ToSet(active)
        BY <1>1
    <2>2. slot[active[p]] \in Slots
        BY Zenon DEF SlotInv, SlotsOwned
    <2>3. slot[active[p]] \in DOMAIN Requests
        BY <1>2
    <2>4. \A j \in ToSet(active) : slot[j] = slot[active[p]] => j = active[p]
        <3>1. \A a \in 1 .. Len(active) : slot[active[a]] = slot[active[p]] => a = p
            BY Zenon DEF SlotInv, SlotsOwned
        <3> QED
            BY <1>1, <3>1, Zenon
    <2>5. (CHOOSE j \in ToSet(active) : slot[j] = slot[active[p]]) = active[p]
        BY <2>1, <2>4, Zenon
    <2>6. \A s \in DOMAIN Requests : Requests[s] = Batch(CHOOSE j \in ToSet(active) : slot[j] = s)
        BY Zenon DEF Requests
    <2> QED
        BY <2>1, <2>2, <2>3, <2>5, <2>6, Zenon
<1> QED
    BY <1>2, <1>3

\* A row of a pass: a prefix of the batch on top of a sequence.
LEMMA RowFacts ==
    ASSUME TypeOK, NEW j \in Jobs, slot[j] \in Slots, NEW base \in Seq(Token),
           NEW t \in 0 .. Len(Batch(j))
    PROVE  /\ Row(base, j, t) \in Seq(Token)
           /\ Len(Row(base, j, t)) = Len(base) + t
           /\ t = 0 => Row(base, j, t) = base
           /\ t # 0 => Row(base, j, t) = Append(Row(base, j, t - 1), Batch(j)[t])
<1> DEFINE b == Batch(j)
<1>1. b \in Seq(Token) /\ Len(b) \in Nat
    BY BatchFacts, LenProperties
<1> HIDE DEF b
<1>2. \A i \in 0 .. Len(b) : SubSeq(b, 1, i) \in Seq(Token) /\ Len(SubSeq(b, 1, i)) = i
    <2> SUFFICES ASSUME NEW i \in 0 .. Len(b)
                 PROVE  SubSeq(b, 1, i) \in Seq(Token) /\ Len(SubSeq(b, 1, i)) = i
        OBVIOUS
    <2>1. \A n \in 1 .. i : b[n] \in Token
        BY <1>1
    <2> QED
        BY <1>1, <2>1, SubSeqProperties
<1>3. t \in 0 .. Len(b)
    BY DEF b
<1>4. Row(base, j, t) \in Seq(Token) /\ Len(Row(base, j, t)) = Len(base) + t
    BY <1>2, <1>3, ConcatProperties DEF Row, b
<1>5. ASSUME t = 0
      PROVE  Row(base, j, t) = base
    <2>1. SubSeq(b, 1, 0) = << >>
        BY SubSeqEmpty
    <2> QED
        BY <1>5, <2>1, ConcatEmptySeq DEF Row, b
<1>6. ASSUME t # 0
      PROVE  Row(base, j, t) = Append(Row(base, j, t - 1), b[t])
    <2>1. t \in 1 .. Len(b) /\ t - 1 \in 0 .. Len(b) /\ b[t] \in Token
        BY <1>1, <1>3, <1>6
    <2>2. SubSeq(b, 1, t) = SubSeq(b, 1, t - 1) \o <<b[t]>>
        <3>1. 1 \in 1 .. Len(b) /\ t \in 1 .. Len(b)
            BY <1>1, <2>1
        <3> QED
            BY <1>1, <3>1, SubSeqRecursiveSecond
    <2>3. SubSeq(b, 1, t - 1) \in Seq(Token) /\ <<b[t]>> \in Seq(Token)
        BY <1>2, <2>1
    <2>4. base \o SubSeq(b, 1, t) = (base \o SubSeq(b, 1, t - 1)) \o <<b[t]>>
        <3> DEFINE u == SubSeq(b, 1, t - 1)
                   v == <<b[t]>>
        <3>1. u \in Seq(Token) /\ v \in Seq(Token)
            BY <2>3
        <3> HIDE DEF u, v
        <3>2. (base \o u) \o v = base \o (u \o v)
            BY <3>1, ConcatAssociative, SMTT(30)
        <3> QED
            BY <2>2, <3>2 DEF u, v
    <2>5. (base \o SubSeq(b, 1, t - 1)) \o <<b[t]>> = Append(base \o SubSeq(b, 1, t - 1), b[t])
        BY <2>1, <2>3, ConcatProperties, AppendIsConcat
    <2> QED
        BY <2>4, <2>5 DEF Row, b
<1> QED
    BY <1>4, <1>5, <1>6 DEF b

\* A row keeps what it was built on.
LEMMA RowBase ==
    ASSUME TypeOK, NEW j \in Jobs, slot[j] \in Slots, NEW base \in Seq(Token),
           NEW t \in 0 .. Len(Batch(j))
    PROVE  SubSeq(Row(base, j, t), 1, Len(base)) = base
<1> DEFINE x == SubSeq(Batch(j), 1, t)
<1>1. Batch(j) \in Seq(Token) /\ Len(Batch(j)) \in Nat /\ Len(base) \in Nat
    BY BatchFacts, LenProperties
<1>2. x \in Seq(Token)
    <2>1. \A i \in 1 .. t : Batch(j)[i] \in Token
        BY <1>1
    <2> QED
        BY <1>1, <2>1, SubSeqProperties
<1>3. Row(base, j, t) = base \o x
    BY DEF Row
<1> HIDE DEF x
<1>4. CASE base = << >>
    BY <1>4, SubSeqEmpty
<1>5. CASE base # << >>
    <2>1. 1 \in 1 .. Len(base) /\ Len(base) \in 1 .. Len(base)
        BY <1>1, <1>5, EmptySeq
    <2>2. SubSeq(base \o x, 1, Len(base)) = SubSeq(base, 1, Len(base))
        BY <1>2, <2>1, SubSeqOfConcat1
    <2> QED
        BY <1>3, <2>2, SubSeqFull
<1> QED
    BY <1>4, <1>5

\* A verify pass: the rows of every job lie behind those of the jobs before it.
LEMMA VerifyRows ==
    ASSUME SlotInv, TypeOK, Verify
    PROVE  /\ rows' \in Seq(Token)
           /\ \E first \in [1 .. Len(active) + 1 -> Nat] :
                  /\ first[1] = 0
                  /\ \A p \in 1 .. Len(active) :
                        /\ first[p + 1] = first[p] + 1 + Len(drafts[slot[active[p]]])
                        /\ \A t \in 1 .. Len(Batch(active[p])) :
                               rows'[first[p] + t] = Greedy(Row(seq[slot[active[p]]], active[p], t))
<1> DEFINE parts == [i \in 1 .. Len(active) |-> JobRows(active[i])]
<1>1. active \in Seq(Jobs) /\ Len(active) \in Nat
    BY LenProperties DEF SlotInv, SlotTypes
<1>2. ASSUME NEW p \in 1 .. Len(active)
      PROVE  /\ JobRows(active[p]) \in Seq(Token)
             /\ Len(JobRows(active[p])) = Len(Batch(active[p]))
             /\ \A t \in 1 .. Len(Batch(active[p])) :
                    JobRows(active[p])[t] = Greedy(Row(seq[slot[active[p]]], active[p], t))
    <2> DEFINE j == active[p]
               base == seq[slot[j]]
    <2>1. j \in Jobs /\ slot[j] \in Slots /\ slot[j] \in DOMAIN Requests /\ Requests[slot[j]] = Batch(j)
        BY RequestFacts
    <2>2. base \in Seq(Token) /\ Len(base) \in Nat /\ Batch(j) \in Seq(Token) /\ Len(Batch(j)) \in Nat
        <3>1. base \in Seq(Token)
            BY <2>1, TypeParts DEF EngineTypes
        <3> QED
            BY <2>1, <3>1, BatchFacts, LenProperties
    <2>3. Len(base) + Len(Batch(j)) <= MaxCtx
        <3>1. Engine!FitsContext(Requests)
            BY Zenon DEF Verify, Engine!Forward
        <3> QED
            BY <2>1, <3>1, Zenon DEF Engine!FitsContext
    <2> HIDE DEF j
    <2>4. JobRows(j) = [t \in 1 .. Len(Batch(j)) |-> Greedy(Row(base, j, t))]
        BY DEF JobRows, Row
    <2>5. ASSUME NEW t \in 1 .. Len(Batch(j))
          PROVE  Greedy(Row(base, j, t)) \in Token
        <3> DEFINE w == Row(base, j, t)
                   n == Len(base) + t
        <3>1. t \in 0 .. Len(Batch(j))
            BY <2>2
        <3> HIDE DEF base
        <3>2. w \in Seq(Token) /\ Len(w) = n
            BY <2>1, <2>2, <3>1, RowFacts
        <3>3. n \in 0 .. MaxCtx
            BY <2>2, <2>3, SchedulerAssumption
        <3>4. w \in [1 .. n -> Token]
            BY <3>2, LenProperties
        <3> HIDE DEF w, n
        <3>5. Greedy(w) \in Token
            BY <3>3, <3>4, SchedulerAssumption, Zenon
        <3> QED
            BY <3>5 DEF w
    <2> HIDE DEF base
    <2>6. JobRows(j) \in [1 .. Len(Batch(j)) -> Token]
        BY <2>4, <2>5
    <2>7. JobRows(j) \in Seq(Token) /\ Len(JobRows(j)) = Len(Batch(j))
        BY <2>2, <2>6
    <2> QED
        BY <2>4, <2>7 DEF base, j
<1>3. parts \in Seq(Seq(Token)) /\ Len(parts) = Len(active)
    <2>1. parts \in [1 .. Len(active) -> Seq(Token)]
        BY <1>2
    <2> HIDE DEF parts
    <2> QED
        BY <1>1, <2>1
<1>4. \A p \in 1 .. Len(active) : parts[p] = JobRows(active[p])
    OBVIOUS
<1>5. rows' = FlattenSeq(parts)
    BY DEF Verify, AllRows
<1> HIDE DEF parts
<1>6. PICK first : Flattened(parts, Len(parts), FlattenSeq(parts), first)
    BY <1>3, FlattenPlaces
<1>7. /\ first \in [1 .. Len(active) + 1 -> Nat] /\ first[1] = 0
      /\ \A p \in 1 .. Len(active) : first[p + 1] = first[p] + Len(parts[p])
      /\ \A p \in 1 .. Len(active) : \A t \in 1 .. Len(parts[p]) : rows'[first[p] + t] = parts[p][t]
    BY <1>3, <1>5, <1>6 DEF Flattened, Places
<1>8. ASSUME NEW p \in 1 .. Len(active)
      PROVE  /\ first[p + 1] = first[p] + 1 + Len(drafts[slot[active[p]]])
             /\ \A t \in 1 .. Len(Batch(active[p])) :
                    rows'[first[p] + t] = Greedy(Row(seq[slot[active[p]]], active[p], t))
    <2>1. /\ Len(Batch(active[p])) = 1 + Len(drafts[slot[active[p]]])
          /\ Len(drafts[slot[active[p]]]) \in Nat
        BY RequestFacts, BatchFacts
    <2>2. first[p] \in Nat /\ Len(parts[p]) = Len(Batch(active[p]))
        BY <1>2, <1>4, <1>7
    <2>3. first[p + 1] = first[p] + 1 + Len(drafts[slot[active[p]]])
        <3>1. first[p + 1] = first[p] + Len(parts[p])
            BY <1>7, Zenon
        <3>2. PICK a \in Nat, n \in Nat : a = first[p] /\ n = Len(drafts[slot[active[p]]])
            BY <2>1, <2>2, Zenon
        <3>3. first[p + 1] = a + (1 + n)
            BY <2>1, <2>2, <3>1, <3>2, Zenon
        <3>4. a + (1 + n) = a + 1 + n
            OBVIOUS
        <3> QED
            BY <3>2, <3>3, <3>4, Zenon
    <2>4. \A t \in 1 .. Len(Batch(active[p])) :
                    rows'[first[p] + t] = Greedy(Row(seq[slot[active[p]]], active[p], t))
        <3>1. \A t \in 1 .. Len(Batch(active[p])) : rows'[first[p] + t] = JobRows(active[p])[t]
            BY <1>4, <1>7, <2>2, Zenon
        <3> QED
            BY <1>2, <3>1, Zenon
    <2> QED
        BY <2>3, <2>4
<1>9. rows' \in Seq(Token)
    BY <1>3, <1>5, FlattenPlaces
<1> QED
    BY <1>7, <1>8, <1>9

LEMMA AcceptTypes ==
    ASSUME TypeOK, NEW s \in Slots, NEW m, Engine!Accept(s, m)
    PROVE  EngineTypes'
<1>1. /\ m \in 1 .. Len(pass[s])
      /\ seq' = [seq EXCEPT ![s] = seq[s] \o SubSeq(pass[s], 1, m)]
      /\ pass' = [pass EXCEPT ![s] = << >>]
    BY DEF Engine!Accept
<1>2. seq \in [Slots -> Seq(Token)] /\ pass \in [Slots -> Seq(Token)]
    BY TypeParts DEF EngineTypes
<1>3. pass[s] \in Seq(Token) /\ Len(pass[s]) \in Nat /\ seq[s] \in Seq(Token)
    BY <1>2, LenProperties
<1>4. SubSeq(pass[s], 1, m) \in Seq(Token)
    <2>1. \A i \in 1 .. m : pass[s][i] \in Token
        BY <1>1, <1>3
    <2> QED
        BY <1>1, <1>3, <2>1, SubSeqProperties
<1>5. seq[s] \o SubSeq(pass[s], 1, m) \in Seq(Token)
    BY <1>3, <1>4, ConcatProperties
<1> QED
    BY <1>1, <1>2, <1>5, NoTokens, Zenon DEF EngineTypes

LEMMA OutTypes ==
    ASSUME TypeOK, NEW j \in Jobs, NEW id \in Token, Out(j, id),
           UNCHANGED <<slot, pos, idLast, done>>
    PROVE  JobTypes'
<1>1. ids \in [Jobs -> Seq(Token)] /\ Append(ids[j], id) \in Seq(Token)
    BY TypeParts, AppendProperties DEF JobTypes
<1>2. ids' \in [Jobs -> Seq(Token)]
    BY <1>1 DEF Out
<1>3. gone' \in [Jobs -> BOOLEAN] /\ fin' \in [Jobs -> {"", "stop", "length", "abort"}]
    <2>1. gone \in [Jobs -> BOOLEAN] /\ fin \in [Jobs -> {"", "stop", "length", "abort"}]
        BY TypeParts DEF JobTypes
    <2>2. \/ UNCHANGED <<gone, fin>>
          \/ gone' = [gone EXCEPT ![j] = TRUE] /\ fin' = [fin EXCEPT ![j] = "abort"]
        BY DEF Out
    <2> QED
        BY <2>1, <2>2
<1> QED
    BY <1>2, <1>3, TypeParts DEF JobTypes

\* Drafting, verifying and the end of a round.
LEMMA PassTypeOK ==
    ASSUME SlotInv, TypeOK, Draft \/ Verify \/ Terminate \/ NotifyJob \/ Release
    PROVE  TypeOK'
<1> USE TypeParts DEF sharedVars, roundVars, jobVars, engineVars
<1>1. CASE Draft
    <2> DEFINE n == DraftN(Len(active))
               drafting == {slot[j] : j \in {a \in ToSet(active) : Drafts(a)}}
    <2>1. PICK guess \in [drafting -> [1 .. n -> Token]] :
            drafts' = [s \in Slots |-> IF s \in drafting THEN guess[s] ELSE << >>]
        BY <1>1 DEF Draft
    <2>2. n \in Nat
        BY SchedulerAssumption DEF DraftN
    <2> HIDE DEF n, drafting
    <2>3. \A s \in drafting : guess[s] \in Seq(Token)
        BY <2>2
    <2>4. drafts' \in [Slots -> Seq(Token)]
        BY <2>1, <2>3, NoTokens, Zenon
    <2> QED
        BY <1>1, <2>4 DEF Draft, SchedStates, RoundTypes, JobTypes, HandlerTypes, ClientTypes, EngineTypes
<1>2. CASE Verify
    <2>1. EngineTypes'
        <3>1. /\ seq' = seq
              /\ pass' = [s \in Slots |-> IF s \in DOMAIN Requests THEN Requests[s] ELSE pass[s]]
            BY <1>2 DEF Verify, Engine!Forward
        <3>2. \A s \in DOMAIN Requests : Requests[s] \in Seq(Token)
            BY RequestFacts, BatchFacts
        <3> QED
            BY <3>1, <3>2, Zenon DEF EngineTypes
    <2>2. rows' \in Seq(Token)
        BY <1>2, VerifyRows
    <2> QED
        BY <1>2, <2>1, <2>2 DEF Verify, SchedStates, RoundTypes, JobTypes, HandlerTypes, ClientTypes
<1>3. CASE Terminate
    BY <1>3 DEF Terminate, SchedStates, RoundTypes, JobTypes, HandlerTypes, ClientTypes, EngineTypes
<1>4. CASE NotifyJob
    <2>1. HandlerTypes'
        BY <1>4 DEF NotifyJob, HandlerTypes, HandlerStates
    <2>2. /\ UNCHANGED <<sharedVars, drafts, rows, still, r0, mm, k, jobVars, client, engineVars>>
          /\ q' = q + 1 /\ sched' = "job"
        BY <1>4 DEF NotifyJob
    <2>3. RoundTypes'
        BY <2>2 DEF RoundTypes
    <2> QED
        BY <2>1, <2>2, <2>3 DEF SchedStates, JobTypes, ClientTypes, EngineTypes
<1>5. CASE Release
    <2>1. used' \in [Slots -> BOOLEAN]
        BY <1>5, Zenon DEF Release
    <2>2. drafts' \in [Slots -> Seq(Token)]
        BY <1>5, NoTokens, Zenon DEF Release
    <2>3. still' \in Seq(Jobs) /\ rows' \in Seq(Token) /\ active' \in Seq(Jobs)
        BY <1>5, EmptySeq DEF Release, RoundTypes
    <2>4. /\ q' = 1 /\ r0' = 0 /\ mm' = 0 /\ k' = 0 /\ sched' = "check"
          /\ UNCHANGED <<queue, jobVars, handler, client, engineVars>>
        BY <1>5 DEF Release
    <2>5. RoundTypes'
        BY <2>1, <2>2, <2>3, <2>4 DEF RoundTypes
    <2> QED
        BY <2>4, <2>5 DEF SchedStates, JobTypes, HandlerTypes, ClientTypes, EngineTypes
<1> QED
    BY <1>1, <1>2, <1>3, <1>4, <1>5

LEMMA JobTypeOK ==
    ASSUME SlotInv, TypeOK,
           StopJob \/ EmitLast \/ Match \/ EmitDraft \/ Advance \/ Flush \/ Finish,
           EmitDraft => mm <= Len(drafts[slot[Job]])
    PROVE  TypeOK'
<1> USE TypeParts DEF sharedVars, roundVars, jobVars, engineVars
<1>1. q \in 1 .. Len(active) /\ Job \in Jobs /\ slot[Job] \in Slots
    BY CurrentJob DEF StopJob, EmitLast, Match, EmitDraft, Advance, Flush, Finish, InJob
<1>2. Batch(Job) \in Seq(Token) /\ Len(Batch(Job)) \in Nat /\ Len(drafts[slot[Job]]) \in Nat
    BY <1>1, BatchFacts, LenProperties
<1>3. NextR0 \in Nat
    BY <1>2 DEF NextR0, RoundTypes
<1>4. CASE StopJob
    <2>1. EngineTypes'
        BY <1>1, <1>4, AcceptTypes DEF StopJob
    <2>2. fin' \in [Jobs -> {"", "stop", "length", "abort"}]
        BY <1>4 DEF StopJob, JobTypes
    <2>3. r0' \in Nat
        BY <1>3, <1>4 DEF StopJob
    <2>4. JobTypes' /\ RoundTypes'
        BY <1>4, <2>2, <2>3 DEF StopJob, JobTypes, RoundTypes
    <2> QED
        BY <1>4, <2>1, <2>4 DEF StopJob, SchedStates, HandlerTypes, ClientTypes
<1>5. CASE EmitLast
    <2>1. idLast[Job] \in Token
        BY <1>1 DEF JobTypes
    <2>2. JobTypes'
        BY <1>1, <1>5, <2>1, OutTypes DEF EmitLast
    <2> QED
        BY <1>5, <2>2 DEF EmitLast, SchedStates, RoundTypes, HandlerTypes, ClientTypes, EngineTypes
<1>6. CASE Match
    <2>1. PICK m \in 0 .. Len(drafts[slot[Job]]) : Commit(m)
        BY <1>6, Zenon DEF Match
    <2>2. EngineTypes'
        BY <1>1, <2>1, AcceptTypes DEF Commit
    <2>3. mm' \in Nat /\ k' \in Nat
        BY <1>2, <1>6, <2>1 DEF Commit, Match
    <2> QED
        BY <1>6, <2>2, <2>3 DEF Match, SchedStates, RoundTypes, JobTypes, HandlerTypes, ClientTypes
<1>7. CASE EmitDraft
    <2> DEFINE d == drafts[slot[Job]]
    <2>1. d \in Seq(Token) /\ k \in Nat /\ mm \in Nat /\ k < mm /\ mm <= Len(d) /\ Len(d) \in Nat
        BY <1>1, <1>2, <1>7 DEF EmitDraft, RoundTypes
    <2>2. Out(Job, d[k + 1]) /\ k' = k + 1 /\ UNCHANGED <<slot, pos, idLast, done>>
        BY <1>7 DEF EmitDraft
    <2> HIDE DEF d
    <2>3. k + 1 \in 1 .. Len(d) /\ k' \in Nat
        BY <2>1, <2>2
    <2>4. d[k + 1] \in Token
        BY <2>1, <2>3, ElementOfSeq
    <2>5. JobTypes'
        BY <1>1, <2>2, <2>4, OutTypes
    <2> QED
        BY <1>7, <2>3, <2>5 DEF EmitDraft, SchedStates, RoundTypes, HandlerTypes, ClientTypes, EngineTypes
<1>8. CASE Advance
    <2>1. r0' \in Nat
        BY <1>3, <1>8 DEF Advance
    <2>2. idLast' \in [Jobs -> Token]
        BY <1>8 DEF Advance, JobTypes
    <2>3. pos' \in [Jobs -> Nat]
        <3>1. pos[Job] \in Nat /\ mm \in Nat
            BY <1>1 DEF JobTypes, RoundTypes
        <3>2. NextPos(Job) \in Nat
            BY <3>1 DEF NextPos
        <3>3. pos' = [pos EXCEPT ![Job] = NextPos(Job)]
            BY <1>8 DEF Advance
        <3> QED
            BY <3>2, <3>3 DEF JobTypes
    <2>4. still' \in Seq(Jobs) /\ q' \in Nat /\ sched' \in SchedStates /\ mm' \in Nat /\ k' \in Nat
        <3>1. \/ still' = still /\ q' = q /\ sched' = "flush"
              \/ still' = Append(still, Job) /\ q' = q + 1 /\ sched' = "job"
            BY <1>8 DEF Advance
        <3>2. mm' = 0 /\ k' = 0
            BY <1>8 DEF Advance
        <3>3. still' \in Seq(Jobs)
            <4>1. still \in Seq(Jobs)
                BY DEF RoundTypes
            <4>2. Append(still, Job) \in Seq(Jobs)
                BY <1>1, <4>1, AppendProperties
            <4> QED
                BY <3>1, <4>1, <4>2, Zenon
        <3>4. q' \in Nat
            BY <3>1 DEF RoundTypes
        <3> QED
            BY <3>1, <3>2, <3>3, <3>4 DEF SchedStates
    <2>5. UNCHANGED <<sharedVars, drafts, rows, slot, ids, gone, fin, done, handler, client, engineVars>>
        BY <1>8 DEF Advance
    <2>6. RoundTypes' /\ JobTypes'
        BY <2>1, <2>2, <2>3, <2>4, <2>5 DEF RoundTypes, JobTypes
    <2> QED
        BY <2>4, <2>5, <2>6 DEF HandlerTypes, ClientTypes, EngineTypes
<1>9. CASE Flush
    <2>1. gone' \in [Jobs -> BOOLEAN]
        BY <1>9 DEF Flush, JobTypes
    <2>2. fin' \in [Jobs -> {"", "stop", "length", "abort"}]
        BY <1>9 DEF Flush, JobTypes
    <2> QED
        BY <1>9, <2>1, <2>2 DEF Flush, SchedStates, RoundTypes, JobTypes, HandlerTypes, ClientTypes, EngineTypes
<1>10. CASE Finish
    <2>1. EngineTypes'
        BY <1>10, NoTokens, Zenon DEF Finish, Engine!ResetSlot, EngineTypes
    <2>2. done' \in [Jobs -> BOOLEAN]
        BY <1>10 DEF Finish, JobTypes
    <2> QED
        BY <1>10, <2>1, <2>2 DEF Finish, SchedStates, RoundTypes, JobTypes, HandlerTypes, ClientTypes
<1> QED
    BY <1>4, <1>5, <1>6, <1>7, <1>8, <1>9, <1>10

-----------------------------------------------------------------------------
(* What a step leaves alone                                                *)

LEMMA JobFacts ==
    ASSUME TypeOK, NEW j \in Jobs
    PROVE  /\ ids[j] \in Seq(Token) /\ Len(ids[j]) \in Nat
           /\ ids[j] = << >> <=> Len(ids[j]) = 0
           /\ Prompt[j] \in Seq(Token) /\ Len(Prompt[j]) \in Nat \ {0}
           /\ Context(j) \in Seq(Token) /\ Len(Context(j)) = Len(Prompt[j]) + Len(ids[j])
           /\ pos[j] \in Nat /\ idLast[j] \in Token /\ MaxTokens[j] \in Int
<1>1. ids[j] \in Seq(Token) /\ pos[j] \in Nat /\ idLast[j] \in Token
    BY TypeParts DEF JobTypes
<1>2. Prompt[j] \in Seq(Token) /\ Prompt[j] # << >> /\ MaxTokens[j] \in Int
    BY SchedulerAssumption
<1>3. Len(Prompt[j]) \in Nat \ {0} /\ Len(ids[j]) \in Nat /\ (ids[j] = << >> <=> Len(ids[j]) = 0)
    BY <1>1, <1>2, EmptySeq
<1>4. Context(j) \in Seq(Token) /\ Len(Context(j)) = Len(Prompt[j]) + Len(ids[j])
    BY <1>1, <1>2, ConcatProperties DEF Context
<1> QED
    BY <1>1, <1>2, <1>3, <1>4

\* The fields of a Job but its slot.
SameJob(j) ==
    /\ ids'[j] = ids[j] /\ pos'[j] = pos[j] /\ idLast'[j] = idLast[j]
    /\ gone'[j] = gone[j] /\ fin'[j] = fin[j] /\ done'[j] = done[j]

LEMMA SameReady ==
    ASSUME NEW j, SameJob(j)
    PROVE  /\ Fresh(j) => Fresh(j)'
           /\ Ready(j) /\ slot'[j] = slot[j] /\ seq'[slot[j]] = seq[slot[j]] => Ready(j)'
           /\ Prefilling(j) /\ slot'[j] = slot[j] /\ seq'[slot[j]] = seq[slot[j]] => Prefilling(j)'
           /\ Ended(j) => Ended(j)'
BY DEF SameJob, Fresh, Ready, Prefilling, Unfinished, MayGoOn, Context, Pick, Ended, Service!TokenLimit

LEMMA SameWaiting ==
    ASSUME NEW j, NEW r, SameJob(j), Waiting(j, r), slot'[j] = slot[j],
           seq'[slot[j]] = seq[slot[j]], pass'[slot[j]] = pass[slot[j]],
           drafts' = drafts, rows' = rows
    PROVE  Waiting(j, r)'
<1>1. Ready(j)'
    BY SameReady DEF Waiting
<1>2. Batch(j)' = Batch(j)
    BY DEF Batch, SameJob
<1> QED
    BY <1>1, <1>2 DEF Waiting, RowsFor, Row

\* A job nobody works on, whose handler and client may move on.
LEMMA SameJobInv ==
    ASSUME NEW j, SameJob(j), JobInv(j),
           client[j] = "left" => client'[j] = "left",
           handler'[j] = "new" => handler[j] = "new",
           handler'[j] = "refused" => handler[j] \in {"new", "refused"}
    PROVE  JobInv(j)'
<1>1. ExactSoFar(j) => ExactSoFar(j)'
    BY DEF SameJob, ExactSoFar
<1>2. Service!TokenLimit(j)' = Service!TokenLimit(j)
    BY DEF Service!TokenLimit
<1> QED
    BY <1>1, <1>2, SameReady DEF SameJob, JobInv, Fresh, Unfinished

LEMMA InitAnswerInv == Init => AnswerInv
<1> SUFFICES ASSUME Init
             PROVE  AnswerInv
    OBVIOUS
<1>1. TypeOK
    BY InitTypeOK
<1>2. /\ queue = << >> /\ active = << >> /\ still = << >> /\ sched = "check" /\ r0 = 0
      /\ pos = [j \in Jobs |-> 0] /\ ids = [j \in Jobs |-> << >>] /\ fin = [j \in Jobs |-> ""]
      /\ gone = [j \in Jobs |-> FALSE] /\ done = [j \in Jobs |-> FALSE]
    BY Zenon DEF Init
<1>3. sched = "check" /\ r0 = 0 /\ Len(queue) = 0 /\ Len(active) = 0 /\ Len(still) = 0
    BY <1>2
<1>4. ASSUME NEW j \in Jobs
      PROVE  JobInv(j)
    <2>1. ids[j] = << >> /\ pos[j] = 0 /\ fin[j] = "" /\ ~gone[j] /\ ~done[j]
        BY <1>2
    <2>2. Len(ids[j]) = 0 /\ MaxTokens[j] \in Int
        BY <1>1, <2>1, JobFacts
    <2>3. ExactSoFar(j)
        BY <2>2 DEF ExactSoFar
    <2>4. Len(ids[j]) <= Service!TokenLimit(j)
        BY <2>2 DEF Service!TokenLimit
    <2>5. Fresh(j)
        BY <2>1, Zenon DEF Fresh, Unfinished
    <2>6. fin[j] # "abort" /\ ~done[j]
        BY <2>1
    <2> QED
        BY <2>3, <2>4, <2>5, <2>6 DEF JobInv
<1>5. QueueInv /\ BetweenInv
    BY <1>3 DEF QueueInv, BetweenInv
<1>6. RoundInv /\ CurrentInv
    BY <1>3 DEF RoundInv, CurrentInv, Rounds
<1> QED
    BY <1>4, <1>5, <1>6 DEF AnswerInv, JobsInv

\* What is said of a job reads neither the threads nor the step.
LEMMA SameState ==
    ASSUME NEW i, UNCHANGED <<roundVars, jobVars, engineVars>>
    PROVE  /\ Ready(i)' <=> Ready(i)
           /\ Fresh(i)' <=> Fresh(i)
           /\ Prefilling(i)' <=> Prefilling(i)
           /\ Ended(i)' <=> Ended(i)
           /\ Matching(i)' <=> Matching(i)
           /\ Emitting(i)' <=> Emitting(i)
           /\ \A r : Waiting(i, r)' <=> Waiting(i, r)
<1> USE DEF roundVars, jobVars, engineVars
<1>1. Batch(i)' = Batch(i) /\ Context(i)' = Context(i)
    BY DEF Batch, Context
<1>2. Ready(i)' <=> Ready(i)
    BY <1>1 DEF Ready, Unfinished, MayGoOn, Pick
<1>3. (Fresh(i)' <=> Fresh(i)) /\ (Prefilling(i)' <=> Prefilling(i))
    BY DEF Fresh, Unfinished, Prefilling
<1>4. Ended(i)' <=> Ended(i)
    BY <1>1 DEF Ended, Service!TokenLimit, MayGoOn, Pick
<1>5. (Emitted(i)' <=> Emitted(i)) /\ \A base, r : RowsFor(i, base, r)' <=> RowsFor(i, base, r)
    BY <1>1 DEF Emitted, GoneAborts, RowsFor, Row
<1>6. \A base, t : Row(base, i, t)' = Row(base, i, t)
    BY <1>1 DEF Row
<1>7. \A n : Agrees(i, n)' <=> Agrees(i, n)
    BY DEF Agrees
<1>8. Matching(i)' <=> Matching(i)
    BY <1>1, <1>5, <1>6 DEF Matching
<1>9. Emitting(i)' <=> Emitting(i)
    BY <1>1, <1>5, <1>6, <1>7 DEF Emitting
<1>10. \A r : Waiting(i, r)' <=> Waiting(i, r)
    BY <1>1, <1>2, <1>5 DEF Waiting
<1> QED
    BY <1>2, <1>3, <1>4, <1>8, <1>9, <1>10

LEMMA StutterAnswerInv ==
    ASSUME AnswerInv, UNCHANGED vars
    PROVE  AnswerInv'
<1> USE DEF vars, sharedVars
<1>1. \A i : /\ Ready(i)' <=> Ready(i)
             /\ Fresh(i)' <=> Fresh(i)
             /\ Prefilling(i)' <=> Prefilling(i)
             /\ Ended(i)' <=> Ended(i)
             /\ Matching(i)' <=> Matching(i)
             /\ Emitting(i)' <=> Emitting(i)
             /\ \A r : Waiting(i, r)' <=> Waiting(i, r)
    BY SameState
<1>2. \A j : SameJob(j)
    BY DEF SameJob, jobVars
<1>3. JobsInv' /\ QueueInv'
    BY <1>1, <1>2, SameJobInv DEF AnswerInv, JobsInv, QueueInv
<1>4. BetweenInv'
    BY <1>1 DEF AnswerInv, BetweenInv, BetweenRounds, Admitted, roundVars
<1>5. RoundInv'
    <2>1. \A first : Offsets(first)' <=> Offsets(first)
        BY <1>1 DEF Offsets, roundVars, jobVars
    <2> QED
        BY <1>1, <2>1 DEF AnswerInv, RoundInv, roundVars
<1>6. CurrentInv'
    <2>1. Job' = Job
        BY DEF Job, roundVars
    <2> QED
        BY <1>1, <2>1 DEF AnswerInv, CurrentInv, jobVars
<1> QED
    BY <1>3, <1>4, <1>5, <1>6 DEF AnswerInv

\* The handlers and the clients.
LEMMA ThreadsAnswerInv ==
    ASSUME SlotInv, CleanInv, TypeOK, AnswerInv, NEW j \in Jobs, Handler(j) \/ Client(j)
    PROVE  AnswerInv'
<1> USE DEF sharedVars, roundVars, jobVars, engineVars
<1>1. /\ UNCHANGED <<active, used, roundVars, jobVars, engineVars>>
      /\ sched' = sched \/ (sched = "parked" /\ sched' = "check")
    BY DEF Handler, Refuse, Enqueue, NotifyScheduler, WaitDone, SpuriousWake,
           Client, Stall, Resume, Leave, ClientMoves
<1>2. handler \in [Jobs -> HandlerStates] /\ queue \in Seq(Jobs) /\ active \in Seq(Jobs)
    BY DEF SlotInv, SlotTypes
<1>3. \A i \in Jobs : /\ client[i] = "left" => client'[i] = "left"
                      /\ handler'[i] = "new" => handler[i] = "new"
                      /\ handler'[i] = "refused" => handler[i] \in {"new", "refused"}
    BY <1>2, TypeParts
       DEF Handler, Refuse, Enqueue, NotifyScheduler, WaitDone, SpuriousWake,
           Client, Stall, Resume, Leave, ClientMoves, ClientTypes, HandlerStates
<1>4. \A i \in Jobs : SameJob(i)
    BY <1>1 DEF SameJob
<1>5. JobsInv'
    BY <1>3, <1>4, SameJobInv DEF AnswerInv, JobsInv
<1>6. \A i : /\ Ready(i)' <=> Ready(i)
             /\ Fresh(i)' <=> Fresh(i)
             /\ Prefilling(i)' <=> Prefilling(i)
             /\ Ended(i)' <=> Ended(i)
             /\ Matching(i)' <=> Matching(i)
             /\ Emitting(i)' <=> Emitting(i)
             /\ \A r : Waiting(i, r)' <=> Waiting(i, r)
    BY <1>1, SameState
<1>7. QueueInv'
    <2>1. \/ UNCHANGED queue
          \/ queue' = Append(queue, j) /\ Fresh(j) /\ handler'[j] = "queued"
        <3>1. handler[j] = "new" => Fresh(j)
            BY DEF AnswerInv, JobsInv, JobInv
        <3> QED
            BY <1>2, <3>1
               DEF Handler, Refuse, Enqueue, NotifyScheduler, WaitDone, SpuriousWake,
                   Client, Stall, Resume, Leave, ClientMoves
    <2>2. \A i \in 1 .. Len(queue) : Fresh(queue[i]) /\ handler'[queue[i]] # "refused"
        BY <1>2, <1>3 DEF AnswerInv, QueueInv, SlotInv, QueueFresh
    <2>3. \A i \in 1 .. Len(active) : handler'[active[i]] # "refused"
        BY <1>2, <1>3 DEF AnswerInv, QueueInv, SlotInv, QueueFresh
    <2>4. \A i \in 1 .. Len(queue') : Fresh(queue'[i]) /\ handler'[queue'[i]] # "refused"
        BY <1>2, <2>1, <2>2
    <2> QED
        BY <1>1, <1>6, <2>3, <2>4 DEF QueueInv
<1>8. BetweenInv'
    BY <1>1, <1>6 DEF AnswerInv, BetweenInv, BetweenRounds, Admitted
<1>9. RoundInv'
    <2>1. ASSUME NEW first, Offsets(first), sched' = sched
          PROVE  Offsets(first)'
        BY <1>1, <1>6, <2>1 DEF Offsets
    <2> QED
        BY <1>1, <1>6, <2>1 DEF AnswerInv, RoundInv, Rounds
<1>10. CurrentInv'
    <2>1. Job' = Job
        BY <1>1 DEF Job
    <2> QED
        BY <1>1, <1>6, <2>1 DEF AnswerInv, CurrentInv
<1> QED
    BY <1>5, <1>7, <1>8, <1>9, <1>10 DEF AnswerInv

\* A step works on one active job: everything said of the others stays true.
LEMMA ActiveStep ==
    ASSUME SlotInv, TypeOK, AnswerInv, NEW a \in 1 .. Len(active), NEW j, j = active[a],
           UNCHANGED <<queue, active, slot, client>>,
           \A i \in Jobs : i # j => SameJob(i),
           \A s \in Slots : s # slot[j] => seq'[s] = seq[s] /\ pass'[s] = pass[s],
           \A i \in Jobs : handler'[i] \in {"new", "refused"} => handler'[i] = handler[i],
           JobInv(j)'
    PROVE  /\ JobsInv' /\ QueueInv'
           /\ \A p \in 1 .. Len(active) : p # a =>
                /\ Ready(active[p]) => Ready(active[p])'
                /\ \A r : drafts' = drafts /\ rows' = rows /\ Waiting(active[p], r) => Waiting(active[p], r)'
<1>1. active \in Seq(Jobs) /\ queue \in Seq(Jobs) /\ \A p \in 1 .. Len(active) : active[p] \in Jobs
    BY DEF SlotInv, SlotTypes
<1>2. JobsInv'
    <2> SUFFICES ASSUME NEW i \in Jobs
                 PROVE  JobInv(i)'
        BY DEF JobsInv
    <2>1. CASE i = j
        BY <2>1
    <2>2. CASE i # j
        <3>1. /\ SameJob(i) /\ JobInv(i) /\ client'[i] = client[i]
              /\ handler'[i] \in {"new", "refused"} => handler'[i] = handler[i]
            BY <2>2 DEF AnswerInv, JobsInv
        <3> QED
            BY <3>1, SameJobInv
    <2> QED
        BY <2>1, <2>2
<1>3. QueueInv'
    <2>1. \A i \in 1 .. Len(queue) : queue[i] \in Jobs /\ queue[i] # j
        BY <1>1 DEF SlotInv, QueueFresh
    <2>2. \A i \in 1 .. Len(queue) : Fresh(queue[i])'
        <3> SUFFICES ASSUME NEW i \in 1 .. Len(queue)
                     PROVE  Fresh(queue[i])'
            OBVIOUS
        <3>1. SameJob(queue[i]) /\ Fresh(queue[i])
            BY <2>1 DEF AnswerInv, QueueInv
        <3> QED
            BY <3>1, SameReady
    <2> QED
        BY <1>1, <2>1, <2>2 DEF AnswerInv, QueueInv
<1>4. \A p \in 1 .. Len(active) : p # a => active[p] # j /\ slot[active[p]] \in Slots /\ slot[active[p]] # slot[j]
    BY Zenon DEF SlotInv, SlotsOwned
<1>5. ASSUME NEW p \in 1 .. Len(active), p # a
      PROVE  /\ Ready(active[p]) => Ready(active[p])'
             /\ \A r : drafts' = drafts /\ rows' = rows /\ Waiting(active[p], r) => Waiting(active[p], r)'
    <2> DEFINE i == active[p]
    <2>1. /\ SameJob(i) /\ slot'[i] = slot[i]
          /\ seq'[slot[i]] = seq[slot[i]] /\ pass'[slot[i]] = pass[slot[i]]
        BY <1>1, <1>4, <1>5
    <2>2. i' = i
        OBVIOUS
    <2> HIDE DEF i
    <2>3. Ready(i) => Ready(i)'
        BY <2>1, <2>2, SameReady
    <2>4. ASSUME NEW r, drafts' = drafts, rows' = rows, Waiting(i, r)
          PROVE  Waiting(i, r)'
        BY <2>1, <2>2, <2>4, SameWaiting
    <2> QED
        BY <2>3, <2>4 DEF i
<1> QED
    BY <1>2, <1>3, <1>5

\* The head of the queue is admitted as it was queued.
LEMMA AdmitAnswerInv ==
    ASSUME SlotInv, CleanInv, TypeOK, AnswerInv, Admit
    PROVE  AnswerInv'
<1> USE DEF sharedVars, roundVars, jobVars, engineVars
<1> DEFINE j == Head(queue)
<1>1. PICK s \in Slots : slot' = [slot EXCEPT ![j] = s]
    BY DEF Admit
<1>2. /\ sched = "check" /\ sched' = "reset" /\ queue # << >>
      /\ active' = Append(active, j) /\ queue' = Tail(queue)
      /\ UNCHANGED <<roundVars, pos, idLast, ids, gone, fin, done, handler, client, engineVars>>
    BY DEF Admit
<1>3. queue \in Seq(Jobs) /\ active \in Seq(Jobs) /\ slot \in [Jobs -> Slots \cup {NoSlot}]
    BY DEF SlotInv, SlotTypes
<1>4. /\ j = queue[1] /\ j \in Jobs /\ 1 \in 1 .. Len(queue)
      /\ \A i \in 1 .. Len(queue') : queue'[i] = queue[i + 1] /\ i + 1 \in 1 .. Len(queue)
    BY <1>2, <1>3
<1>5. /\ Len(active') = Len(active) + 1 /\ active'[Len(active')] = j
      /\ \A p \in 1 .. Len(active) : active'[p] = active[p] /\ active[p] \in Jobs
    BY <1>2, <1>3, <1>4
<1> HIDE DEF j
<1>6. \A p \in 1 .. Len(active) : active[p] # j
    <2>1. \A p \in 1 .. Len(active) : queue[1] # active[p]
        BY <1>4, Zenon DEF SlotInv, QueueFresh
    <2> QED
        BY <1>4, <2>1
<1>7. Fresh(j) /\ handler[j] # "refused"
    BY <1>4 DEF AnswerInv, QueueInv
<1>8. \A i \in Jobs : SameJob(i)
    BY <1>2 DEF SameJob
<1>9. JobsInv'
    BY <1>2, <1>8, SameJobInv DEF AnswerInv, JobsInv
<1>10. \A i \in Jobs : Fresh(i) => Fresh(i)'
    BY <1>8, SameReady
<1>11. QueueInv'
    <2>1. \A i \in 1 .. Len(queue') : Fresh(queue[i])' /\ handler'[queue'[i]] # "refused"
        <3> SUFFICES ASSUME NEW i \in 1 .. Len(queue')
                     PROVE  Fresh(queue[i])' /\ handler'[queue'[i]] # "refused"
            OBVIOUS
        <3>1. Fresh(queue[i + 1]) /\ handler[queue[i + 1]] # "refused" /\ queue[i + 1] \in Jobs
            BY <1>3, <1>4 DEF AnswerInv, QueueInv
        <3> QED
            BY <1>2, <1>4, <1>10, <3>1
    <2>2. \A i \in 1 .. Len(active') : handler'[active'[i]] # "refused"
        <3>1. \A i \in 1 .. Len(active') : i \in 1 .. Len(active) \/ i = Len(active')
            BY <1>3, <1>5
        <3> QED
            BY <1>2, <1>5, <1>7, <3>1 DEF AnswerInv, QueueInv
    <2> QED
        BY <2>1, <2>2 DEF QueueInv
<1>12. BetweenInv'
    <2>1. \A p \in 1 .. Len(active) : Ready(active[p])'
        <3> SUFFICES ASSUME NEW p \in 1 .. Len(active)
                     PROVE  Ready(active[p])'
            OBVIOUS
        <3>1. Ready(active[p]) /\ slot'[active[p]] = slot[active[p]] /\ seq' = seq /\ SameJob(active[p])
            BY <1>1, <1>2, <1>3, <1>5, <1>6, <1>8 DEF AnswerInv, BetweenInv
        <3> QED
            BY <1>5, <3>1, SameReady
    <2>2. Len(active') - 1 = Len(active) /\ Admitted' = j
        BY <1>3, <1>5 DEF Admitted, Last
    <2>3. Fresh(Admitted)'
        BY <1>4, <1>7, <1>10, <2>2
    <2>4. r0' = 0
        BY <1>2 DEF AnswerInv, BetweenInv, BetweenRounds
    <2> QED
        BY <1>2, <2>1, <2>2, <2>3, <2>4 DEF BetweenInv
<1>13. RoundInv'
    <2>1. still' = still /\ Len(still) = 0
        BY <1>2 DEF CleanInv, SlotInv, SlotTypes, StillActive, BetweenRounds
    <2> QED
        BY <1>2, <2>1 DEF RoundInv, Rounds
<1>14. CurrentInv'
    BY <1>2 DEF CurrentInv
<1> QED
    BY <1>9, <1>11, <1>12, <1>13, <1>14 DEF AnswerInv

\* Between rounds nothing is said of a round.
LEMMA IdleRound ==
    ASSUME sched' \in BetweenRounds \cup {"down"}, Len(still') = 0
    PROVE  RoundInv' /\ CurrentInv'
<1>1. /\ sched' \notin Rounds
      /\ sched' \notin {"match", "drafts", "flush", "finish", "notify"}
    BY DEF BetweenRounds, Rounds
<1>2. RoundInv'
    <2>1. \A i \in 1 .. Len(still') : FALSE
        OBVIOUS
    <2> QED
        BY <1>1, <2>1, Zenon DEF RoundInv
<1>3. CurrentInv'
    BY <1>1, Zenon DEF CurrentInv
<1> QED
    BY <1>2, <1>3

\* A chunk of a prompt extends what the engine has seen of it.
LEMMA NextPrefix ==
    ASSUME NEW S, NEW w \in Seq(S), NEW p \in Nat, p < Len(w), NEW n \in Nat, p + n <= Len(w)
    PROVE  /\ SubSeq(w, 1, p) \o SubSeq(w, p + 1, p + n) = SubSeq(w, 1, p + n)
           /\ Len(SubSeq(w, p + 1, p + n)) = n
<1>1. Len(w) \in Nat
    BY LenProperties
<1>2. 1 \in 1 .. Len(w) + 1 /\ p \in 1 - 1 .. Len(w) /\ p + n \in p .. Len(w)
    BY <1>1
<1>3. SubSeq(w, 1, p) \o SubSeq(w, p + 1, p + n) = SubSeq(w, 1, p + n)
    BY <1>2, ConcatAdjacentSubSeq
<1>4. Len(SubSeq(w, p + 1, p + n)) = n
    <2>1. \A i \in p + 1 .. p + n : w[i] \in S
        BY <1>1
    <2> QED
        BY <2>1, SubSeqProperties
<1> QED
    BY <1>3, <1>4

\* The admitted job is prefilled from a clean slot, chunk by chunk; the others
\* stay ready.
LEMMA PrefillAnswerInv ==
    ASSUME SlotInv, CleanInv, TypeOK, AnswerInv, ResetAdmitted \/ PrefillChunk
    PROVE  AnswerInv'
<1> USE DEF sharedVars, roundVars, jobVars, engineVars
<1>1. active \in Seq(Jobs) /\ active # << >> /\ Len(active) \in Nat \ {0} /\ sched \in {"reset", "prefill"}
    BY DEF ResetAdmitted, PrefillChunk, CleanInv, SlotInv, SlotTypes
<1>2. PICK j \in Jobs : j = active[Len(active)]
    BY <1>1
<1>3. Admitted = j /\ slot[j] \in Slots
    <2>1. Admitted = j /\ Len(active) \in 1 .. Len(active)
        BY <1>1, <1>2 DEF Admitted, Last
    <2> QED
        BY <1>2, <2>1, Zenon DEF SlotInv, SlotsOwned
<1>4. /\ UNCHANGED <<sharedVars, roundVars, slot, ids, gone, fin, done, handler, client>>
      /\ \A i \in Jobs : i # j => SameJob(i)
    <2>1. UNCHANGED <<sharedVars, roundVars, slot, ids, gone, fin, done, handler, client>>
        BY DEF ResetAdmitted, PrefillChunk
    <2>2. \A i \in Jobs : i # j => pos'[i] = pos[i] /\ idLast'[i] = idLast[i]
        <3>1. \/ UNCHANGED pos
              \/ pos' = [pos EXCEPT ![j] = @ + Len(NextChunk(j))]
            BY <1>3 DEF ResetAdmitted, PrefillChunk
        <3>2. \/ UNCHANGED idLast
              \/ \E id : idLast' = [idLast EXCEPT ![j] = id]
            BY <1>3, Zenon DEF ResetAdmitted, PrefillChunk
        <3> QED
            BY <3>1, <3>2, TypeParts DEF JobTypes
    <2> QED
        BY <2>1, <2>2 DEF SameJob
<1>5. Admitted' = j
    BY <1>1, <1>2, <1>4 DEF Admitted, Last
<1>6. \A s \in Slots : s # slot[j] => seq'[s] = seq[s] /\ pass'[s] = pass[s]
    BY <1>3, TypeParts DEF ResetAdmitted, PrefillChunk, Engine!ResetSlot, Engine!Prefill, EngineTypes
<1>7. handler[j] # "new" /\ JobInv(j) /\ j = active[Len(active)] /\ Len(active) \in 1 .. Len(active)
    BY <1>1, <1>2 DEF SlotInv, QueueFresh, AnswerInv, JobsInv
<1>8. JobInv(j)'
    <2>1. ids'[j] = ids[j] /\ fin'[j] = fin[j] /\ gone'[j] = gone[j] /\ done'[j] = done[j]
        BY <1>4
    <2>2. ~done[j] /\ (ExactSoFar(j) => ExactSoFar(j)')
        BY <1>1, <1>3, <2>1
           DEF AnswerInv, BetweenInv, Fresh, Prefilling, Unfinished, ExactSoFar
    <2> QED
        BY <1>4, <1>7, <2>1, <2>2 DEF JobInv, Service!TokenLimit
<1>9. /\ JobsInv' /\ QueueInv'
      /\ \A p \in 1 .. Len(active) : p # Len(active) => (Ready(active[p]) => Ready(active[p])')
    BY <1>4, <1>6, <1>7, <1>8, ActiveStep
<1>10. \A p \in 1 .. Len(active) - 1 : Ready(active[p])'
    <2>1. \A p \in 1 .. Len(active) - 1 : Ready(active[p]) /\ p \in 1 .. Len(active) /\ p # Len(active)
        BY <1>1 DEF AnswerInv, BetweenInv
    <2> QED
        BY <1>9, <2>1
<1>11. r0' = 0 /\ still' = still /\ Len(still) = 0
    BY <1>1, <1>4 DEF CleanInv, SlotInv, SlotTypes, StillActive, BetweenRounds, AnswerInv, BetweenInv
<1>12. \/ sched' = "prefill" /\ Prefilling(j)'
       \/ sched' = "check" /\ Ready(j)'
    <2>1. CASE ResetAdmitted
        <3>1. sched' = "prefill" /\ Fresh(j) /\ SameJob(j) /\ seq'[slot[j]] = << >> /\ slot'[j] = slot[j]
            BY <1>3, <1>4, <2>1, TypeParts
               DEF ResetAdmitted, Engine!ResetSlot, EngineTypes, SameJob, AnswerInv, BetweenInv
        <3>2. Len(Prompt[j]) \in Nat \ {0}
            BY JobFacts
        <3>3. SubSeq(Prompt[j], 1, 0) = << >>
            BY SubSeqEmpty
        <3>4. Unfinished(j)' /\ ids'[j] = << >> /\ pos'[j] = 0
            BY <3>1, SameReady DEF Fresh
        <3>5. pos'[j] < Len(Prompt[j])
            BY <3>2, <3>4
        <3> QED
            BY <3>1, <3>3, <3>4, <3>5, Zenon DEF Prefilling
    <2>2. CASE PrefillChunk
        <3> DEFINE w == Prompt[j]
                   n == IF Len(w) - pos[j] < Chunk THEN Len(w) - pos[j] ELSE Chunk
                   toks == NextChunk(j)
        <3>1. /\ Prefilling(j) /\ w \in Seq(Token) /\ Len(w) \in Nat /\ pos[j] \in Nat
              /\ pos[j] < Len(w) /\ seq[slot[j]] = SubSeq(w, 1, pos[j]) /\ ids[j] = << >>
            BY <1>3, <2>2, JobFacts DEF PrefillChunk, AnswerInv, BetweenInv, Prefilling
        <3>2. /\ seq'[slot[j]] = seq[slot[j]] \o toks
              /\ pos'[j] = pos[j] + Len(toks)
              /\ IF pos[j] + Len(toks) = Len(w)
                 THEN Pick(j, seq'[slot[j]], idLast'[j]) /\ sched' = "check"
                 ELSE sched' = sched
            <4>1. seq'[slot[j]] = seq[slot[j]] \o toks
                BY <1>3, <2>2, TypeParts DEF PrefillChunk, Engine!Prefill, EngineTypes
            <4>2. pos'[j] = pos[j] + Len(toks)
                BY <1>3, <2>2, TypeParts DEF PrefillChunk, JobTypes
            <4>3. IF pos[j] + Len(toks) = Len(w)
                  THEN Pick(j, seq'[slot[j]], idLast'[j]) /\ sched' = "check"
                  ELSE sched' = sched
                BY <1>3, <2>2, TypeParts DEF PrefillChunk, JobTypes
            <4> QED
                BY <4>1, <4>2, <4>3
        <3>3. Chunk \in Nat \ {0} /\ toks = SubSeq(w, pos[j] + 1, pos[j] + n)
            BY SchedulerAssumption DEF NextChunk
        <3> HIDE DEF toks, w
        <3>4. n \in Nat /\ pos[j] + n <= Len(w)
            BY <3>1, <3>3
        <3> HIDE DEF n
        <3>5. seq'[slot[j]] = SubSeq(w, 1, pos[j] + n) /\ Len(toks) = n
            <4>1. /\ SubSeq(w, 1, pos[j]) \o SubSeq(w, pos[j] + 1, pos[j] + n) = SubSeq(w, 1, pos[j] + n)
                  /\ Len(SubSeq(w, pos[j] + 1, pos[j] + n)) = n
                BY <3>1, <3>4, NextPrefix
            <4> QED
                BY <3>1, <3>2, <3>3, <4>1, Zenon
        <3>6. slot'[j] = slot[j] /\ ids'[j] = << >> /\ Unfinished(j)'
            BY <1>4, <3>1 DEF Prefilling, Unfinished
        <3>7. CASE pos[j] + n = Len(w)
            <4>1. Prompt[j] \o << >> = Prompt[j] /\ SubSeq(w, 1, Len(w)) = w
                BY <3>1, ConcatEmptySeq, SubSeqFull DEF w
            <4>2. Context(j)' = w
                BY <3>6, <4>1 DEF Context, w
            <4>3. seq'[slot[j]] = w /\ pos'[j] = Len(w)
                BY <3>2, <3>5, <3>7, <4>1
            <4>4. Pick(j, w, idLast'[j]) /\ sched' = "check"
                BY <3>2, <3>5, <3>7, <4>3
            <4> QED
                BY <3>6, <4>2, <4>3, <4>4 DEF Ready, MayGoOn, Pick
        <3>8. CASE pos[j] + n # Len(w)
            <4>1. pos'[j] = pos[j] + n /\ pos'[j] < Len(w) /\ sched' = "prefill"
                BY <2>2, <3>1, <3>2, <3>4, <3>5, <3>8 DEF PrefillChunk
            <4> QED
                BY <3>5, <3>6, <4>1 DEF Prefilling, w
        <3> QED
            BY <3>7, <3>8
    <2> QED
        BY <2>1, <2>2
<1>13. BetweenInv'
    <2>1. \A p \in 1 .. Len(active) : p \in 1 .. Len(active) - 1 \/ active[p] = j
        BY <1>1, <1>2
    <2>2. sched' = "check" => \A p \in 1 .. Len(active) : Ready(active[p])'
        BY <1>4, <1>10, <1>12, <2>1
    <2> QED
        BY <1>4, <1>5, <1>10, <1>11, <1>12, <2>2 DEF BetweenInv
<1>14. RoundInv' /\ CurrentInv'
    BY <1>11, <1>12, IdleRound DEF BetweenRounds
<1> QED
    BY <1>9, <1>13, <1>14 DEF AnswerInv

\* The steps between the jobs of a round: no Job changes.
LEMMA NoJobStep ==
    ASSUME AnswerInv, UNCHANGED <<queue, jobVars, handler, client>>, SlotInv,
           \A i \in 1 .. Len(active') : \E p \in 1 .. Len(active) : active'[i] = active[p]
    PROVE  JobsInv' /\ QueueInv' /\ \A i : SameJob(i) /\ slot'[i] = slot[i]
<1>1. \A i : SameJob(i) /\ slot'[i] = slot[i]
    BY DEF SameJob, jobVars
<1>2. JobsInv'
    BY <1>1, SameJobInv DEF AnswerInv, JobsInv
<1>3. \A i : Fresh(i) => Fresh(i)'
    BY <1>1, SameReady
<1>4. QueueInv'
    BY <1>3 DEF AnswerInv, QueueInv
<1> QED
    BY <1>1, <1>2, <1>4

\* A pass gives every active job its own rows.
LEMMA VerifyAnswerInv ==
    ASSUME SlotInv, CleanInv, TypeOK, AnswerInv, Verify
    PROVE  AnswerInv'
<1> USE DEF sharedVars, roundVars
<1>1. /\ UNCHANGED <<queue, active, still, q, r0, drafts, jobVars, handler, client, seq>>
      /\ sched = "verify" /\ sched' = "job"
      /\ pass' = [s \in Slots |-> IF s \in DOMAIN Requests THEN Requests[s] ELSE pass[s]]
    BY DEF Verify, Engine!Forward
<1>2. JobsInv' /\ QueueInv' /\ \A i : SameJob(i) /\ slot'[i] = slot[i]
    <2>1. \A i \in 1 .. Len(active') : \E p \in 1 .. Len(active) : active'[i] = active[p]
        BY <1>1
    <2> QED
        BY <1>1, <2>1, NoJobStep
<1>3. r0 = 0 /\ q = 1 /\ Len(still) = 0 /\ \A p \in 1 .. Len(active) : Ready(active[p])
    BY <1>1 DEF CleanInv, SlotInv, SlotTypes, StillActive, BetweenRounds, AnswerInv, BetweenInv
<1>4. PICK first \in [1 .. Len(active) + 1 -> Nat] :
          /\ first[1] = 0
          /\ \A p \in 1 .. Len(active) :
                /\ first[p + 1] = first[p] + 1 + Len(drafts[slot[active[p]]])
                /\ \A t \in 1 .. Len(Batch(active[p])) :
                       rows'[first[p] + t] = Greedy(Row(seq[slot[active[p]]], active[p], t))
    BY VerifyRows
<1>5. ASSUME NEW p \in 1 .. Len(active)
      PROVE  Waiting(active[p], first[p])'
    <2>1. PICK i \in Jobs : i = active[p] /\ i = active'[p] /\ slot[i] \in Slots
                            /\ slot[i] \in DOMAIN Requests /\ Requests[slot[i]] = Batch(i)
        BY <1>1, RequestFacts
    <2>2. Ready(i)'
        BY <1>1, <1>2, <1>3, <2>1, SameReady
    <2>3. Batch(i)' = Batch(i) /\ slot'[i] = slot[i] /\ seq'[slot[i]] = seq[slot[i]]
        BY <1>1, <1>2 DEF Batch, jobVars
    <2>4. pass'[slot[i]] = Batch(i)
        BY <1>1, <2>1
    <2>5. \A t \in 1 .. Len(Batch(i)) : rows'[first[p] + t] = Greedy(Row(seq[slot[i]], i, t))
        BY <1>4, <2>1
    <2>6. RowsFor(i, seq[slot[i]], first[p])'
        BY <1>1, <2>3, <2>5 DEF RowsFor, Row
    <2> QED
        BY <2>1, <2>2, <2>3, <2>4, <2>6 DEF Waiting
<1>6. Offsets(first)'
    <2>1. r0' = first[IF sched' \in Past THEN q' + 1 ELSE q']
        BY <1>1, <1>3, <1>4 DEF Past
    <2>2. \A p \in 1 .. Len(active) : first[p + 1] = first[p] + 1 + Len(drafts'[slot'[active'[p]]])
        BY <1>1, <1>4 DEF jobVars
    <2> QED
        BY <1>1, <1>4, <1>5, <2>1, <2>2 DEF Offsets
<1>7. RoundInv'
    BY <1>1, <1>3, <1>6 DEF RoundInv
<1>8. BetweenInv' /\ CurrentInv'
    BY <1>1 DEF BetweenInv, BetweenRounds, CurrentInv
<1> QED
    BY <1>2, <1>7, <1>8 DEF AnswerInv

LEMMA PassAnswerInv ==
    ASSUME SlotInv, CleanInv, TypeOK, AnswerInv, Park \/ Draft \/ Terminate \/ Release
    PROVE  AnswerInv'
<1> USE DEF sharedVars, roundVars, engineVars
<1>1. CASE Park \/ Draft \/ Terminate
    <2>1. /\ UNCHANGED <<queue, active, still, r0, jobVars, handler, client, seq>>
          /\ sched \in {"check", "verify"} /\ sched' \in {"parked", "verify", "down"}
        BY <1>1 DEF Park, Draft, Terminate
    <2>2. JobsInv' /\ QueueInv' /\ \A i : SameJob(i) /\ slot'[i] = slot[i]
        <3>1. \A i \in 1 .. Len(active') : \E p \in 1 .. Len(active) : active'[i] = active[p]
            BY <2>1
        <3> QED
            BY <2>1, <3>1, NoJobStep
    <2>3. r0 = 0 /\ Len(still) = 0 /\ \A p \in 1 .. Len(active) : Ready(active[p])
        BY <2>1 DEF CleanInv, SlotInv, SlotTypes, StillActive, BetweenRounds, AnswerInv, BetweenInv
    <2>4. \A p \in 1 .. Len(active) : Ready(active[p])'
        <3>1. \A i : Ready(i) => Ready(i)'
            BY <2>1, <2>2, SameReady
        <3> QED
            BY <2>1, <2>3, <3>1
    <2>5. BetweenInv'
        BY <2>1, <2>3, <2>4 DEF BetweenInv
    <2>6. RoundInv' /\ CurrentInv'
        BY <2>1, <2>3, IdleRound DEF BetweenRounds
    <2> QED
        BY <2>2, <2>5, <2>6 DEF AnswerInv
<1>2. CASE Release
    <2>1. /\ UNCHANGED <<queue, jobVars, handler, client, seq>>
          /\ active' = still /\ still' = << >> /\ r0' = 0 /\ sched' = "check"
        BY <1>2 DEF Release
    <2>2. JobsInv' /\ QueueInv' /\ \A i : SameJob(i) /\ slot'[i] = slot[i]
        <3>1. \A i \in 1 .. Len(active') : \E p \in 1 .. Len(active) : active'[i] = active[p]
            BY <2>1 DEF SlotInv, StillActive
        <3> QED
            BY <2>1, <3>1, NoJobStep
    <2>3. \A p \in 1 .. Len(active') : Ready(active[p])'
        <3>1. \A i : Ready(i) => Ready(i)'
            BY <2>1, <2>2, SameReady
        <3>2. \A p \in 1 .. Len(still) : Ready(still[p])
            BY DEF AnswerInv, RoundInv
        <3> QED
            BY <2>1, <3>1, <3>2
    <2>4. BetweenInv'
        BY <2>1, <2>3 DEF BetweenInv
    <2>5. Len(still') = 0
        BY <2>1
    <2>6. RoundInv' /\ CurrentInv'
        BY <2>1, <2>5, IdleRound DEF BetweenRounds
    <2> QED
        BY <2>2, <2>4, <2>6 DEF AnswerInv
<1> QED
    BY <1>1, <1>2

-----------------------------------------------------------------------------
(* The steps of a round at its current job                                 *)

\* Where a step leaves the round: at the same job, before or after its rows are
\* counted, or at the next one.
MovesOn ==
    \/ q' = q /\ r0' = r0 /\ (sched \in Past <=> sched' \in Past) /\ sched' # "job"
    \/ q' = q /\ r0' = NextR0 /\ sched \notin Past /\ sched' \in Past
    \/ q' = q + 1 /\ r0' = r0 /\ sched \in Past /\ sched' = "job"
    \/ q' = q + 1 /\ r0' = NextR0 /\ sched \notin Past /\ sched' = "job"

LEMMA RoundStep ==
    ASSUME SlotInv, TypeOK, AnswerInv, NEW j \in Jobs, j = Job, q \in 1 .. Len(active),
           UNCHANGED <<queue, active, slot, client, drafts, rows>>,
           \A i \in Jobs : i # j => SameJob(i),
           \A s \in Slots : s # slot[j] => seq'[s] = seq[s] /\ pass'[s] = pass[s],
           \A i \in Jobs : handler'[i] \in {"new", "refused"} => handler'[i] = handler[i],
           sched \in Rounds, sched' \in Rounds, MovesOn,
           \A i \in 1 .. Len(still') : \/ \E n \in 1 .. Len(still) : still'[i] = still[n]
                                       \/ still'[i] = j /\ Ready(j)',
           JobInv(j)'
    PROVE  JobsInv' /\ QueueInv' /\ BetweenInv' /\ RoundInv'
<1>1. j = active[q] /\ active \in Seq(Jobs) /\ Len(active) \in Nat /\ q \in Nat
    BY DEF Job, SlotInv, SlotTypes
<1>2. /\ JobsInv' /\ QueueInv'
      /\ \A p \in 1 .. Len(active) : p # q =>
            /\ Ready(active[p]) => Ready(active[p])'
            /\ \A r : drafts' = drafts /\ rows' = rows /\ Waiting(active[p], r) => Waiting(active[p], r)'
    BY <1>1, ActiveStep
<1>3. BetweenInv'
    BY DEF Rounds, BetweenInv, BetweenRounds
<1>4. PICK first \in [1 .. Len(active) + 1 -> Nat] : Offsets(first)
    BY DEF AnswerInv, RoundInv
<1>5. Offsets(first)'
    <2>1. \A p \in 1 .. Len(active) :
            first[p + 1] = first[p] + 1 + Len(drafts'[slot'[active'[p]]])
        BY <1>4 DEF Offsets
    <2>2. r0' = first[IF sched' \in Past THEN q' + 1 ELSE q']
        <3>1. Len(Batch(Job)) = 1 + Len(drafts[slot[Job]]) /\ Len(drafts[slot[Job]]) \in Nat
            <4>1. slot[j] \in Slots
                BY <1>1, Zenon DEF SlotInv, SlotsOwned
            <4> QED
                BY <4>1, BatchFacts
        <3>2. sched \notin Past => NextR0 = first[q + 1]
            <4>1. sched \notin Past => r0 = first[q]
                BY <1>4 DEF Offsets
            <4>2. first[q + 1] = first[q] + 1 + Len(drafts[slot[Job]])
                <5>1. first[q + 1] = first[q] + 1 + Len(drafts[slot[active[q]]])
                    BY <1>4, Zenon DEF Offsets
                <5>2. active[q] = Job
                    BY DEF Job
                <5> QED
                    BY <5>1, <5>2, Zenon
            <4>3. first[q] \in Nat
                BY <1>1, <1>4
            <4>4. NextR0 = r0 + Len(Batch(Job))
                BY DEF NextR0
            <4> DEFINE n == Len(drafts[slot[Job]])
            <4>5. n \in Nat /\ Len(Batch(Job)) = 1 + n /\ first[q + 1] = first[q] + 1 + n
                BY <3>1, <4>2
            <4> HIDE DEF n
            <4> QED
                BY <4>1, <4>3, <4>4, <4>5
        <3>3. r0 = first[IF sched \in Past THEN q + 1 ELSE q]
            BY <1>4 DEF Offsets
        <3>4. "job" \notin Past
            BY DEF Past
        <3> QED
            BY <3>2, <3>3, <3>4 DEF MovesOn
    <2>3. ASSUME NEW p \in 1 .. Len(active), p > q' \/ (p = q' /\ sched' = "job")
          PROVE  Waiting(active[p], first[p])'
        <3>1. p # q /\ p > q
            <4>1. q' = q + 1 \/ (q' = q /\ sched' # "job")
                BY Zenon DEF MovesOn, Past
            <4> QED
                BY <1>1, <2>3, <4>1
        <3>2. Waiting(active[p], first[p])
            BY <1>4, <3>1 DEF Offsets
        <3> QED
            BY <1>2, <3>1, <3>2
    <2> QED
        BY <1>4, <2>1, <2>2, <2>3 DEF Offsets
<1>6. \A i \in 1 .. Len(still') : Ready(still[i])'
    <2> SUFFICES ASSUME NEW i \in 1 .. Len(still')
                 PROVE  Ready(still[i])'
        OBVIOUS
    <2>1. ASSUME NEW n \in 1 .. Len(still), still'[i] = still[n]
          PROVE  Ready(still[i])'
        <3>1. PICK p \in 1 .. Len(active) : p < q /\ still[n] = active[p]
            BY DEF SlotInv, StillActive
        <3>2. Ready(active[p]) /\ p # q
            BY <1>1, <3>1 DEF AnswerInv, RoundInv
        <3> QED
            BY <1>2, <2>1, <3>1, <3>2
    <2> QED
        BY <2>1
<1>7. RoundInv'
    BY <1>4, <1>5, <1>6 DEF RoundInv
<1> QED
    BY <1>2, <1>3, <1>7

\* What a step of a round starts from.
LEMMA AtJob ==
    ASSUME SlotInv, TypeOK, AnswerInv, sched \in InJob \/ (sched = "job" /\ q <= Len(active)),
           NEW j, j = Job
    PROVE  /\ q \in 1 .. Len(active) /\ j \in Jobs /\ slot[j] \in Slots
           /\ sched \in Rounds
           /\ handler[j] \notin {"new", "refused"}
           /\ JobInv(j)
           /\ j = active[q]
           /\ sched = "job" => Waiting(j, r0)
<1>1. q \in 1 .. Len(active) /\ j \in Jobs /\ slot[j] \in Slots /\ j = active[q]
    BY CurrentJob DEF Job
<1>2. sched \in Rounds
    BY DEF InJob, Rounds
<1>3. handler[j] \notin {"new", "refused"} /\ JobInv(j)
    BY <1>1 DEF SlotInv, QueueFresh, AnswerInv, QueueInv, JobsInv
<1>4. ASSUME sched = "job"
      PROVE  Waiting(j, r0)
    <2>1. PICK first : Offsets(first)
        BY <1>2 DEF AnswerInv, RoundInv
    <2>2. r0 = first[q]
        BY <1>4, <2>1 DEF Offsets, Past
    <2> QED
        BY <1>1, <1>4, <2>1, <2>2 DEF Offsets
<1> QED
    BY <1>1, <1>2, <1>3, <1>4

\* The model wants to stop: idLast is not given out.
LEMMA StopJobAnswerInv ==
    ASSUME SlotInv, TypeOK, AnswerInv, StopJob
    PROVE  AnswerInv'
<1> USE DEF sharedVars, roundVars, jobVars, engineVars
<1>1. PICK j : j = Job
    OBVIOUS
<1>2. /\ q \in 1 .. Len(active) /\ j \in Jobs /\ slot[j] \in Slots /\ sched \in Rounds
      /\ handler[j] \notin {"new", "refused"} /\ JobInv(j) /\ Waiting(j, r0)
    BY <1>1, AtJob DEF StopJob
<1>3. /\ sched = "job" /\ sched' = "flush" /\ r0' = NextR0
      /\ UNCHANGED <<queue, active, slot, client, drafts, rows, still, q, ids, pos, idLast, gone, done, handler>>
      /\ fin' = [fin EXCEPT ![j] = "stop"] /\ idLast[j] \in Stop
      /\ seq' = [seq EXCEPT ![slot[j]] = @ \o SubSeq(pass[slot[j]], 1, 1)]
      /\ pass' = [pass EXCEPT ![slot[j]] = << >>]
    BY <1>1 DEF StopJob, Engine!Accept
<1>4. fin'[j] = "stop" /\ \A i \in Jobs : i # j => SameJob(i)
    BY <1>2, <1>3, TypeParts DEF SameJob, JobTypes
<1>5. \A s \in Slots : s # slot[j] => seq'[s] = seq[s] /\ pass'[s] = pass[s]
    BY <1>2, <1>3, TypeParts DEF EngineTypes
<1>6. Unfinished(j) /\ MayGoOn(j) /\ Pick(j, Context(j), idLast[j])
    BY <1>2 DEF Waiting, Ready
<1>7. JobInv(j)'
    <2>1. ExactSoFar(j) => ExactSoFar(j)'
        BY <1>3 DEF ExactSoFar
    <2>2. Service!TokenLimit(j)' = Service!TokenLimit(j)
        BY DEF Service!TokenLimit
    <2> QED
        BY <1>2, <1>3, <1>4, <1>6, <2>1, <2>2 DEF JobInv, Unfinished
<1>8. MovesOn
    BY <1>3 DEF MovesOn, Past
<1>9. JobsInv' /\ QueueInv' /\ BetweenInv' /\ RoundInv'
    <2>1. sched' \in Rounds
        BY <1>3 DEF Rounds
    <2> QED
        BY <1>1, <1>2, <1>3, <1>4, <1>5, <1>7, <1>8, <2>1, RoundStep
<1>10. CurrentInv'
    <2>1. Job' = j
        BY <1>1, <1>3 DEF Job
    <2>2. Ended(j)'
        <3>1. MayGoOn(j)' /\ Context(j)' = Context(j)
            BY <1>3, <1>6 DEF MayGoOn, Context
        <3> QED
            BY <1>3, <1>4, <1>6, <3>1 DEF Ended, Pick
    <2> QED
        BY <1>3, <1>4, <1>6, <2>1, <2>2 DEF CurrentInv, Unfinished
<1> QED
    BY <1>9, <1>10 DEF AnswerInv

\* The end of an answer: flush, reset, done.
LEMMA EndAnswerInv ==
    ASSUME SlotInv, TypeOK, AnswerInv, Flush \/ Finish \/ NotifyJob
    PROVE  AnswerInv'
<1> USE DEF sharedVars, roundVars, jobVars, engineVars
<1>1. PICK j : j = Job
    OBVIOUS
<1>2. /\ q \in 1 .. Len(active) /\ j \in Jobs /\ slot[j] \in Slots /\ sched \in Rounds
      /\ handler[j] \notin {"new", "refused"} /\ JobInv(j) /\ j = active[q]
    <2>1. sched \in InJob
        BY DEF Flush, Finish, NotifyJob, InJob
    <2> QED
        BY <1>1, <2>1, AtJob
<1>3. /\ UNCHANGED <<queue, active, slot, client, drafts, rows, still, r0, ids, pos, idLast>>
      /\ \A i \in Jobs : i # j => gone'[i] = gone[i] /\ fin'[i] = fin[i] /\ done'[i] = done[i]
    BY <1>1, <1>2, TypeParts DEF Flush, Finish, NotifyJob, JobTypes
<1>4. \A i \in Jobs : i # j => SameJob(i)
    BY <1>3 DEF SameJob
<1>5. \A s \in Slots : s # slot[j] => seq'[s] = seq[s] /\ pass'[s] = pass[s]
    BY <1>1, <1>2, TypeParts DEF Flush, Finish, NotifyJob, Engine!ResetSlot, EngineTypes
<1>6. \A i \in Jobs : handler'[i] \in {"new", "refused"} => handler'[i] = handler[i]
    BY <1>1, <1>2, TypeParts DEF Flush, Finish, NotifyJob, HandlerTypes
<1>7. MovesOn /\ sched' \in Rounds
    BY DEF Flush, Finish, NotifyJob, MovesOn, Past, Rounds
<1>8. Ended(j)
    BY <1>1, <1>2 DEF Flush, Finish, NotifyJob, AnswerInv, CurrentInv, JobInv
<1>9. /\ ExactSoFar(j) => ExactSoFar(j)'
      /\ Service!TokenLimit(j)' = Service!TokenLimit(j)
      /\ Context(j)' = Context(j) /\ (MayGoOn(j)' <=> MayGoOn(j))
    BY <1>3 DEF ExactSoFar, Service!TokenLimit, Context, MayGoOn
<1>10. handler'[j] \notin {"new", "refused"}
    BY <1>2, <1>6
<1>11. JobInv(j)' /\ CurrentInv'
    <2>1. CASE Flush
        <3>1. /\ sched = "flush" /\ sched' = "finish" /\ done' = done
              /\ fin'[j] = IF fin[j] = "" THEN "length" ELSE fin[j]
            <4>1. fin \in [Jobs -> {"", "stop", "length", "abort"}]
                BY TypeParts DEF JobTypes
            <4>2. fin' = [fin EXCEPT ![j] = IF fin[j] = "" THEN "length" ELSE fin[j]]
                BY <1>1, <2>1 DEF Flush
            <4>3. fin'[j] = IF fin[j] = "" THEN "length" ELSE fin[j]
                BY <1>2, <4>1, <4>2
            <4> QED
                BY <2>1, <4>3 DEF Flush
        <3>2. ~done[j]
            BY <1>1, <3>1 DEF AnswerInv, CurrentInv
        <3>3. Ended(j)'
            BY <1>3, <1>8, <1>9, <3>1 DEF Ended, Pick
        <3>4. JobInv(j)'
            BY <1>2, <1>3, <1>9, <1>10, <3>1, <3>2 DEF JobInv
        <3>5. Job' = j
            BY <1>1, <1>3, <2>1 DEF Job, Flush
        <3> QED
            BY <3>1, <3>2, <3>3, <3>4, <3>5 DEF CurrentInv
    <2>2. CASE Finish
        <3>1. /\ sched = "finish" /\ sched' = "notify" /\ done'[j] = TRUE /\ fin' = fin /\ q' = q
            BY <1>1, <1>2, <2>2, TypeParts DEF Finish, JobTypes
        <3>2. fin[j] # ""
            BY <1>1, <3>1 DEF AnswerInv, CurrentInv
        <3>3. Ended(j)'
            BY <1>3, <1>8, <1>9, <3>1 DEF Ended, Pick
        <3>4. JobInv(j)'
            BY <1>2, <1>3, <1>9, <1>10, <3>1, <3>2, <3>3 DEF JobInv
        <3>5. Job' = j
            BY <1>1, <1>3, <3>1 DEF Job
        <3> QED
            BY <3>1, <3>4, <3>5 DEF CurrentInv
    <2>3. CASE NotifyJob
        <3>1. SameJob(j) /\ sched' = "job" /\ client' = client
            BY <1>3, <2>3 DEF NotifyJob, SameJob
        <3>2. JobInv(j)'
            BY <1>2, <1>10, <3>1, SameJobInv
        <3> QED
            BY <3>1, <3>2 DEF CurrentInv
    <2> QED
        BY <2>1, <2>2, <2>3
<1>12. JobsInv' /\ QueueInv' /\ BetweenInv' /\ RoundInv'
    BY <1>1, <1>2, <1>3, <1>4, <1>5, <1>6, <1>7, <1>11, RoundStep
<1> QED
    BY <1>11, <1>12 DEF AnswerInv

\* A token given out extends the context by one.
LEMMA ContextGrows ==
    ASSUME TypeOK, NEW j \in Jobs, NEW id \in Token, ids'[j] = Append(ids[j], id)
    PROVE  /\ Context(j)' = Append(Context(j), id)
           /\ Len(ids'[j]) = Len(ids[j]) + 1
           /\ ids'[j][Len(ids[j]) + 1] = id
           /\ \A i \in 1 .. Len(ids[j]) : ids'[j][i] = ids[j][i]
           /\ \A i \in 0 .. Len(ids[j]) : SubSeq(ids'[j], 1, i) = SubSeq(ids[j], 1, i)
           /\ SubSeq(ids'[j], 1, Len(ids[j])) = ids[j]
<1> DEFINE w == ids[j]
           v == <<id>>
           p == Prompt[j]
<1>1. w \in Seq(Token) /\ Len(w) \in Nat /\ p \in Seq(Token) /\ Context(j) = p \o w /\ p \o w \in Seq(Token)
    BY JobFacts DEF Context
<1>2. v \in Seq(Token) /\ Len(v) = 1
    OBVIOUS
<1>3. Context(j)' = p \o Append(w, id)
    BY DEF Context
<1> HIDE DEF w, v, p
<1>4. Append(w, id) = w \o v /\ Append(p \o w, id) = (p \o w) \o v
    BY <1>1, AppendIsConcat DEF v
<1>5. Context(j)' = Append(Context(j), id)
    <2>1. (p \o w) \o v = p \o (w \o v)
        BY <1>1, <1>2, ConcatAssociative
    <2> QED
        BY <1>1, <1>3, <1>4, <2>1, Zenon
<1>6. /\ Len(Append(w, id)) = Len(w) + 1 /\ Append(w, id)[Len(w) + 1] = id
      /\ \A i \in 1 .. Len(w) : Append(w, id)[i] = w[i]
    BY <1>1, AppendProperties
<1>7. \A i \in 0 .. Len(w) : SubSeq(Append(w, id), 1, i) = SubSeq(w, 1, i)
    <2> SUFFICES ASSUME NEW i \in 0 .. Len(w)
                 PROVE  SubSeq(Append(w, id), 1, i) = SubSeq(w, 1, i)
        OBVIOUS
    <2>1. CASE i = 0
        BY <2>1, SubSeqEmpty
    <2>2. CASE i # 0
        <3>1. 1 \in 1 .. Len(w) /\ i \in 1 .. Len(w)
            BY <1>1, <2>2
        <3> QED
            BY <1>1, <1>2, <1>4, <3>1, SubSeqOfConcat1
    <2> QED
        BY <2>1, <2>2
<1>8. SubSeq(Append(w, id), 1, Len(w)) = w
    <2>1. Len(w) \in 0 .. Len(w)
        BY <1>1
    <2> QED
        BY <1>1, <1>7, <2>1, SubSeqFull
<1> QED
    BY <1>5, <1>6, <1>7, <1>8 DEF w

\* out(): the token the target chose goes out, or the client is gone.
LEMMA OutFacts ==
    ASSUME TypeOK, NEW j \in Jobs, NEW id \in Token, Out(j, id), JobInv(j),
           UNCHANGED <<slot, pos, idLast, done, handler, client>>,
           handler[j] # "new", ~done[j],
           GoneAborts(j),
           MayGoOn(j), id \notin Stop,
           ~gone[j] => Pick(j, Context(j), id)
    PROVE  /\ JobInv(j)' /\ GoneAborts(j)'
           /\ \A i \in Jobs : i # j => SameJob(i)
           /\ gone[j] => gone'[j] /\ ids'[j] = ids[j]
           /\ ~gone[j] => ids'[j] # << >> /\ Context(j)' = Append(Context(j), id)
<1>1. /\ ids \in [Jobs -> Seq(Token)] /\ gone \in [Jobs -> BOOLEAN]
      /\ fin \in [Jobs -> {"", "stop", "length", "abort"}]
    BY TypeParts DEF JobTypes
<1>2. Service!TokenLimit(j)' = Service!TokenLimit(j)
    BY DEF Service!TokenLimit
<1>3. CASE gone[j]
    <2>1. UNCHANGED <<ids, gone, fin>>
        BY <1>3 DEF Out
    <2>2. \A i \in Jobs : SameJob(i)
        BY <2>1 DEF SameJob
    <2>3. JobInv(j)'
        BY <2>2, SameJobInv
    <2> QED
        BY <1>3, <2>1, <2>2, <2>3 DEF GoneAborts
<1>4. CASE ~gone[j]
    <2>1. ids' = [ids EXCEPT ![j] = Append(ids[j], id)]
        BY <1>4 DEF Out
    <2>2. \/ UNCHANGED <<gone, fin>>
          \/ /\ gone' = [gone EXCEPT ![j] = TRUE] /\ fin' = [fin EXCEPT ![j] = "abort"]
             /\ j \in Streaming /\ client[j] = "left"
        BY <1>4 DEF Out, Emits
    <2>3. ids'[j] = Append(ids[j], id) /\ \A i \in Jobs : i # j => ids'[i] = ids[i]
        BY <1>1, <2>1
    <2>4. /\ \A i \in Jobs : i # j => gone'[i] = gone[i] /\ fin'[i] = fin[i]
          /\ GoneAborts(j)'
          /\ fin'[j] = "abort" => j \in Streaming /\ client[j] = "left"
        BY <1>1, <1>4, <2>2 DEF GoneAborts
    <2>5. /\ Context(j)' = Append(Context(j), id)
          /\ Len(ids'[j]) = Len(ids[j]) + 1
          /\ ids'[j][Len(ids[j]) + 1] = id
          /\ \A i \in 1 .. Len(ids[j]) : ids'[j][i] = ids[j][i]
          /\ \A i \in 0 .. Len(ids[j]) : SubSeq(ids'[j], 1, i) = SubSeq(ids[j], 1, i)
          /\ SubSeq(ids'[j], 1, Len(ids[j])) = ids[j]
        BY <2>3, ContextGrows
    <2>6. PICK n \in Nat : /\ n = Len(ids[j]) /\ Len(ids'[j]) = n + 1
                           /\ n = 0 \/ n < MaxTokens[j]
        <3>1. Len(ids[j]) \in Nat /\ (ids[j] = << >> <=> Len(ids[j]) = 0)
            BY JobFacts
        <3> QED
            BY <2>5, <3>1, Zenon DEF MayGoOn
    <2>7. ids'[j] # << >>
        <3>1. ids[j] \in Seq(Token)
            BY <1>1
        <3> QED
            BY <2>3, <3>1, AppendProperties
    <2>8. Len(ids'[j]) <= Service!TokenLimit(j)
        <3>1. MaxTokens[j] \in Int
            BY JobFacts
        <3> DEFINE l == Service!TokenLimit(j)
        <3>2. l = IF MaxTokens[j] < 1 THEN 1 ELSE MaxTokens[j]
            BY DEF Service!TokenLimit
        <3> HIDE DEF l
        <3>3. n + 1 <= l
            BY <2>6, <3>1, <3>2
        <3> QED
            BY <2>6, <3>3 DEF l
    <2>9. ASSUME j \notin Sampled
          PROVE  ExactSoFar(j)'
        <3> SUFFICES ASSUME NEW i \in 1 .. Len(ids'[j])
                     PROVE  /\ ids'[j][i] = Greedy(Prompt[j] \o SubSeq(ids'[j], 1, i - 1))
                            /\ ids'[j][i] \notin Stop
            BY DEF ExactSoFar
        <3>1. CASE i = n + 1
            <4>1. i - 1 = n
                BY <3>1
            <4>2. Prompt[j] \o SubSeq(ids'[j], 1, i - 1) = Context(j)
                BY <2>5, <2>6, <4>1, Zenon DEF Context
            <4>3. ids'[j][i] = id
                BY <2>5, <2>6, <3>1, Zenon
            <4> QED
                BY <1>4, <2>9, <4>2, <4>3 DEF Pick
        <3>2. CASE i \in 1 .. n
            <4>1. i - 1 \in 0 .. n
                BY <3>2
            <4>2. ids'[j][i] = ids[j][i] /\ SubSeq(ids'[j], 1, i - 1) = SubSeq(ids[j], 1, i - 1)
                BY <2>5, <2>6, <3>2, <4>1, Zenon
            <4>3. ids[j][i] = Greedy(Prompt[j] \o SubSeq(ids[j], 1, i - 1)) /\ ids[j][i] \notin Stop
                BY <2>6, <2>9, <3>2, Zenon DEF JobInv, ExactSoFar
            <4> QED
                BY <4>2, <4>3
        <3>3. i = n + 1 \/ i \in 1 .. n
            BY <2>6
        <3> QED
            BY <3>1, <3>2, <3>3
    <2>10. JobInv(j)'
        BY <1>2, <2>4, <2>8, <2>9 DEF JobInv
    <2>11. \A i \in Jobs : i # j => SameJob(i)
        BY <2>3, <2>4 DEF SameJob
    <2> QED
        BY <1>4, <2>4, <2>5, <2>7, <2>10, <2>11
<1> QED
    BY <1>3, <1>4

LEMMA SameRows ==
    ASSUME NEW j, idLast'[j] = idLast[j], slot'[j] = slot[j], drafts' = drafts, rows' = rows
    PROVE  /\ Batch(j)' = Batch(j)
           /\ \A base, t : Row(base, j, t)' = Row(base, j, t)
           /\ \A base, r : RowsFor(j, base, r)' <=> RowsFor(j, base, r)
<1>1. Batch(j)' = Batch(j)
    BY DEF Batch
<1>2. \A base, t : Row(base, j, t)' = Row(base, j, t)
    BY <1>1 DEF Row
<1>3. \A base, r : RowsFor(j, base, r)' <=> RowsFor(j, base, r)
    BY <1>1, <1>2 DEF RowsFor
<1> QED
    BY <1>1, <1>2, <1>3

\* The token every active job brings into the round goes out first.
LEMMA EmitLastAnswerInv ==
    ASSUME SlotInv, TypeOK, AnswerInv, EmitLast
    PROVE  AnswerInv'
<1> USE DEF sharedVars, roundVars, jobVars, engineVars
<1>1. PICK j : j = Job
    OBVIOUS
<1>2. /\ q \in 1 .. Len(active) /\ j \in Jobs /\ slot[j] \in Slots /\ sched \in Rounds
      /\ handler[j] \notin {"new", "refused"} /\ JobInv(j) /\ Waiting(j, r0)
    BY <1>1, AtJob DEF EmitLast
<1>3. /\ sched = "job" /\ sched' = "match"
      /\ UNCHANGED <<queue, active, slot, client, drafts, rows, still, q, r0, pos, idLast, done, handler, seq, pass>>
      /\ idLast[j] \notin Stop /\ Out(j, idLast[j])
    BY <1>1 DEF EmitLast
<1>4. /\ ~gone[j] /\ ~done[j] /\ GoneAborts(j) /\ MayGoOn(j) /\ Pick(j, Context(j), idLast[j])
      /\ seq[slot[j]] = Context(j) /\ pos[j] = Len(Context(j))
      /\ pass[slot[j]] = Batch(j) /\ RowsFor(j, seq[slot[j]], r0)
    BY <1>2 DEF Waiting, Ready, Unfinished, GoneAborts
<1>5. idLast[j] \in Token /\ Context(j) \in Seq(Token)
    BY <1>2, JobFacts
<1>6. /\ JobInv(j)' /\ GoneAborts(j)'
      /\ \A i \in Jobs : i # j => SameJob(i)
      /\ ids'[j] # << >> /\ Context(j)' = Append(Context(j), idLast[j])
    BY <1>2, <1>3, <1>4, <1>5, OutFacts
<1>7. JobsInv' /\ QueueInv' /\ BetweenInv' /\ RoundInv'
    <2>1. MovesOn /\ sched' \in Rounds
        BY <1>3 DEF MovesOn, Past, Rounds
    <2> QED
        BY <1>1, <1>2, <1>3, <1>6, <2>1, RoundStep
<1>8. Matching(j)'
    <2>1. Row(seq[slot[j]], j, 1) = Append(Context(j), idLast[j])
        <3>1. Len(Batch(j)) \in Nat /\ Len(Batch(j)) >= 1 /\ Batch(j)[1] = idLast[j]
            BY <1>2, BatchFacts
        <3>2. 1 \in 0 .. Len(Batch(j)) /\ 0 \in 0 .. Len(Batch(j)) /\ 1 - 1 = 0 /\ 1 # 0
            BY <3>1
        <3>3. Row(Context(j), j, 0) = Context(j)
            BY <1>2, <1>5, <3>2, RowFacts
        <3>4. Row(Context(j), j, 1) = Append(Row(Context(j), j, 0), Batch(j)[1])
            BY <1>2, <1>5, <3>2, RowFacts
        <3> QED
            BY <1>4, <3>1, <3>3, <3>4
    <2>2. /\ Batch(j)' = Batch(j)
          /\ \A base, t : Row(base, j, t)' = Row(base, j, t)
          /\ \A base, r : RowsFor(j, base, r)' <=> RowsFor(j, base, r)
        BY <1>3, SameRows
    <2>3. Emitted(j)'
        BY <1>3, <1>4, <1>6 DEF Emitted
    <2> QED
        BY <1>3, <1>4, <1>6, <2>1, <2>2, <2>3 DEF Matching
<1>9. CurrentInv'
    <2>1. Job' = j
        BY <1>1, <1>3 DEF Job
    <2> QED
        BY <1>3, <1>8, <2>1 DEF CurrentInv
<1> QED
    BY <1>7, <1>9 DEF AnswerInv

\* The accepted drafts are committed behind idLast.
LEMMA MatchAnswerInv ==
    ASSUME SlotInv, TypeOK, AnswerInv, Match
    PROVE  AnswerInv'
<1> USE DEF sharedVars, roundVars, jobVars, engineVars
<1>1. PICK j : j = Job
    OBVIOUS
<1>2. /\ q \in 1 .. Len(active) /\ j \in Jobs /\ slot[j] \in Slots /\ sched \in Rounds
      /\ handler[j] \notin {"new", "refused"} /\ JobInv(j)
    <2>1. sched \in InJob
        BY DEF Match, InJob
    <2> QED
        BY <1>1, <2>1, AtJob
<1>3. PICK m \in 0 .. Len(drafts[slot[j]]) : (\A i \in 1 .. m : Agrees(j, i)) /\ Commit(m)
    BY <1>1, Zenon DEF Match
<1>4. /\ sched = "match" /\ sched' = "drafts" /\ mm' = m /\ k' = 0
      /\ UNCHANGED <<queue, active, slot, client, drafts, rows, still, q, r0, jobVars, handler>>
      /\ seq' = [seq EXCEPT ![slot[j]] = @ \o SubSeq(pass[slot[j]], 1, m + 1)]
      /\ pass' = [pass EXCEPT ![slot[j]] = << >>]
    BY <1>1, <1>3 DEF Match, Commit, Engine!Accept
<1>5. Matching(j)
    BY <1>1, <1>4 DEF AnswerInv, CurrentInv
<1>6. /\ seq'[slot[j]] = seq[slot[j]] \o SubSeq(pass[slot[j]], 1, m + 1)
      /\ \A s \in Slots : s # slot[j] => seq'[s] = seq[s] /\ pass'[s] = pass[s]
    BY <1>2, <1>4, TypeParts DEF EngineTypes
<1>7. \A i \in Jobs : SameJob(i)
    BY <1>4 DEF SameJob
<1>8. JobInv(j)'
    BY <1>2, <1>4, <1>7, SameJobInv
<1>9. JobsInv' /\ QueueInv' /\ BetweenInv' /\ RoundInv'
    <2>1. MovesOn /\ sched' \in Rounds
        BY <1>4 DEF MovesOn, Past, Rounds
    <2> QED
        BY <1>1, <1>2, <1>4, <1>6, <1>7, <1>8, <2>1, RoundStep
<1>10. Emitting(j)'
    <2> DEFINE base == seq[slot[j]]
               sq == seq'[slot[j]]
    <2>1. /\ base \in Seq(Token) /\ Len(base) \in Nat /\ pos[j] = Len(base)
          /\ Emitted(j) /\ RowsFor(j, base, r0)
          /\ ~gone[j] => Context(j) = Row(base, j, 1)
        <3>1. base \in Seq(Token)
            BY <1>2, TypeParts DEF EngineTypes
        <3> QED
            BY <1>5, <3>1, LenProperties DEF Matching
    <2>2. sq = Row(base, j, m + 1)
        BY <1>5, <1>6 DEF Matching, Row
    <2> HIDE DEF base, sq
    <2>3. /\ Len(Batch(j)) = 1 + Len(drafts[slot[j]]) /\ Len(drafts[slot[j]]) \in Nat
          /\ Batch(j) \in Seq(Token)
        BY <1>2, BatchFacts
    <2>4. m \in Nat /\ m + 1 \in 1 .. Len(Batch(j)) /\ m + 1 \in 0 .. Len(Batch(j))
        BY <1>3, <2>3
    <2>5. sq \in Seq(Token) /\ Len(sq) = Len(base) + (m + 1)
        BY <1>2, <2>1, <2>2, <2>4, RowFacts
    <2>6. SubSeq(sq, 1, Len(base)) = base
        BY <2>1, <2>2, <2>3, <2>4, RowBase, <1>2
    <2>7. pos[j] \in 0 .. Len(sq)
        BY <2>1, <2>4, <2>5
    <2>8. /\ Batch(j)' = Batch(j)
          /\ \A b, t : Row(b, j, t)' = Row(b, j, t)
          /\ \A b, r : RowsFor(j, b, r)' <=> RowsFor(j, b, r)
        BY <1>4, SameRows
    <2>9. \A i : Agrees(j, i)' <=> Agrees(j, i)
        BY <1>4 DEF Agrees
    <2>10. Emitted(j)' /\ Context(j)' = Context(j)
        BY <1>4, <2>1 DEF Emitted, GoneAborts, Context
    <2>11. /\ seq'[slot'[j]] = sq /\ pos'[j] = pos[j] /\ SubSeq(sq, 1, pos[j]) = base
           /\ gone'[j] = gone[j] /\ mm' = m /\ k' = 0 /\ r0' = r0
           /\ drafts'[slot'[j]] = drafts[slot[j]]
        BY <1>4, <2>1, <2>6 DEF sq
    <2>12. /\ pos'[j] \in 0 .. Len(seq'[slot'[j]])
           /\ seq'[slot'[j]] = Row(SubSeq(seq'[slot'[j]], 1, pos'[j]), j, mm' + 1)
           /\ RowsFor(j, SubSeq(seq'[slot'[j]], 1, pos'[j]), r0')
           /\ ~gone'[j] => Context(j) = Row(SubSeq(seq'[slot'[j]], 1, pos'[j]), j, k' + 1)
        <3>1. SubSeq(seq'[slot'[j]], 1, pos'[j]) = base
            BY <2>11
        <3>2. mm' + 1 = m + 1 /\ k' + 1 = 1
            BY <2>11
        <3> QED
            BY <2>1, <2>2, <2>7, <2>11, <3>1, <3>2, Zenon
    <2>13. mm' \in 0 .. Len(drafts'[slot'[j]]) /\ k' \in 0 .. mm' /\ \A i \in 1 .. mm' : Agrees(j, i)'
        BY <1>3, <2>4, <2>9, <2>11
    <2> QED
        BY <2>8, <2>10, <2>12, <2>13 DEF Emitting
<1>11. CurrentInv'
    <2>1. Job' = j
        BY <1>1, <1>4 DEF Job
    <2> QED
        BY <1>4, <1>10, <2>1 DEF CurrentInv
<1> QED
    BY <1>9, <1>11 DEF AnswerInv

\* What Emitting says, with the base named.
LEMMA EmittingFacts ==
    ASSUME TypeOK, NEW j \in Jobs, slot[j] \in Slots, Emitting(j)
    PROVE  \E base \in Seq(Token) :
             /\ base = SubSeq(seq[slot[j]], 1, pos[j]) /\ Len(base) = pos[j]
             /\ seq[slot[j]] \in Seq(Token) /\ Len(seq[slot[j]]) = pos[j] + mm + 1
             /\ seq[slot[j]] = Row(base, j, mm + 1)
             /\ RowsFor(j, base, r0)
             /\ ~gone[j] => Context(j) = Row(base, j, k + 1)
             /\ mm \in Nat /\ k \in 0 .. mm /\ mm <= Len(drafts[slot[j]])
             /\ Len(Batch(j)) = 1 + Len(drafts[slot[j]]) /\ Len(drafts[slot[j]]) \in Nat
<1> DEFINE sq == seq[slot[j]]
           base == SubSeq(sq, 1, pos[j])
<1>1. sq \in Seq(Token) /\ Len(sq) \in Nat
    <2>1. sq \in Seq(Token)
        BY TypeParts DEF EngineTypes
    <2> QED
        BY <2>1, LenProperties
<1>2. pos[j] \in 0 .. Len(sq)
    BY DEF Emitting
<1>3. Len(Batch(j)) = 1 + Len(drafts[slot[j]]) /\ Len(drafts[slot[j]]) \in Nat
    BY BatchFacts
<1>4. mm \in 0 .. Len(drafts[slot[j]]) /\ k \in 0 .. mm
    BY DEF Emitting
<1>5. /\ sq = Row(base, j, mm + 1) /\ RowsFor(j, base, r0)
      /\ ~gone[j] => Context(j) = Row(base, j, k + 1)
    BY DEF Emitting
<1> HIDE DEF sq
<1>6. base \in Seq(Token) /\ Len(base) = pos[j]
    <2>1. \A i \in 1 .. pos[j] : sq[i] \in Token
        BY <1>1, <1>2
    <2>2. /\ base \in Seq(Token)
          /\ Len(base) = IF 1 <= pos[j] THEN pos[j] - 1 + 1 ELSE 0
        BY <1>1, <1>2, <2>1, SubSeqProperties
    <2> HIDE DEF base
    <2> QED
        BY <1>1, <1>2, <2>2
<1> HIDE DEF base
<1>7. Len(sq) = pos[j] + mm + 1
    <2>1. mm + 1 \in 0 .. Len(Batch(j))
        BY <1>3, <1>4
    <2>2. Len(Row(base, j, mm + 1)) = Len(base) + (mm + 1)
        BY <1>6, <2>1, RowFacts
    <2> QED
        BY <1>1, <1>2, <1>3, <1>4, <1>5, <1>6, <2>2
<1>8. seq[slot[j]] = sq /\ base = SubSeq(seq[slot[j]], 1, pos[j])
    BY DEF base, sq
<1>9. mm \in Nat /\ mm <= Len(drafts[slot[j]])
    BY <1>3, <1>4
<1>10. base \in Seq(Token)
    BY <1>6
<1> WITNESS base \in Seq(Token)
<1> QED
    BY <1>1, <1>3, <1>4, <1>5, <1>6, <1>7, <1>8, <1>9

\* The draft that goes out next is what the target chose behind the last one.
LEMMA NextDraft ==
    ASSUME TypeOK, NEW j \in Jobs, slot[j] \in Slots, Emitting(j), k < mm, ~Limit(j)
    PROVE  LET id == drafts[slot[j]][k + 1]
           IN  /\ id \in Token \ Stop /\ Batch(j)[k + 2] = id
               /\ ~gone[j] => Pick(j, Context(j), id)
               /\ MayGoOn(j)
<1>1. PICK base \in Seq(Token) :
             /\ RowsFor(j, base, r0)
             /\ ~gone[j] => Context(j) = Row(base, j, k + 1)
             /\ mm \in Nat /\ k \in 0 .. mm /\ mm <= Len(drafts[slot[j]])
             /\ Len(Batch(j)) = 1 + Len(drafts[slot[j]]) /\ Len(drafts[slot[j]]) \in Nat
    BY EmittingFacts
<1> DEFINE d == drafts[slot[j]]
           id == d[k + 1]
<1>2. k + 1 \in 1 .. Len(d) /\ k + 1 \in 1 .. mm /\ k + 1 \in 1 .. Len(Batch(j)) /\ k \in Nat
    BY <1>1
<1>3. id \in Token /\ Batch(j)[k + 2] = id
    <2>1. d \in Seq(Token)
        BY TypeParts DEF RoundTypes
    <2>2. id \in Token
        BY <1>2, <2>1, ElementOfSeq
    <2>3. Batch(j)[(k + 1) + 1] = id
        BY <1>2, BatchFacts
    <2>4. (k + 1) + 1 = k + 2
        BY <1>2
    <2> QED
        BY <2>2, <2>3, <2>4
<1>4. rows[r0 + (k + 1)] = id /\ id \notin Stop
    <2>1. Agrees(j, k + 1)
        BY <1>2 DEF Emitting
    <2> QED
        BY <2>1 DEF Agrees
<1>5. ~gone[j] => Pick(j, Context(j), id)
    <2>1. rows[r0 + (k + 1)] = Greedy(Row(base, j, k + 1))
        BY <1>1, <1>2, Zenon DEF RowsFor
    <2> QED
        BY <1>1, <1>4, <2>1 DEF Pick
<1>6. MayGoOn(j)
    <2>1. Len(ids[j]) \in Nat /\ MaxTokens[j] \in Int
        BY JobFacts
    <2> QED
        BY <2>1 DEF MayGoOn, Limit
<1> QED
    BY <1>3, <1>4, <1>5, <1>6

\* Accepted drafts go out one by one: each is what the target chose.
LEMMA EmitDraftAnswerInv ==
    ASSUME SlotInv, TypeOK, AnswerInv, EmitDraft
    PROVE  AnswerInv'
<1> USE DEF sharedVars, roundVars, jobVars, engineVars
<1>1. PICK j : j = Job
    OBVIOUS
<1>2. /\ q \in 1 .. Len(active) /\ j \in Jobs /\ slot[j] \in Slots /\ sched \in Rounds
      /\ handler[j] \notin {"new", "refused"} /\ JobInv(j)
    <2>1. sched \in InJob
        BY DEF EmitDraft, InJob
    <2> QED
        BY <1>1, <2>1, AtJob
<1>3. /\ sched = "drafts" /\ sched' = sched /\ k < mm /\ k' = k + 1 /\ ~Limit(j)
      /\ UNCHANGED <<queue, active, slot, client, drafts, rows, still, q, r0, mm, pos, idLast, done, handler, seq, pass>>
      /\ Out(j, drafts[slot[j]][k + 1])
    BY <1>1 DEF EmitDraft
<1>4. Emitting(j) /\ Emitted(j)
    BY <1>1, <1>3 DEF AnswerInv, CurrentInv, Emitting
<1>5. PICK base \in Seq(Token) :
             /\ base = SubSeq(seq[slot[j]], 1, pos[j])
             /\ RowsFor(j, base, r0)
             /\ ~gone[j] => Context(j) = Row(base, j, k + 1)
             /\ mm \in Nat /\ k \in 0 .. mm /\ mm <= Len(drafts[slot[j]])
             /\ Len(Batch(j)) = 1 + Len(drafts[slot[j]]) /\ Len(drafts[slot[j]]) \in Nat
    BY <1>2, <1>4, EmittingFacts
<1> DEFINE id == drafts[slot[j]][k + 1]
<1>6. k + 1 \in 1 .. mm /\ k \in Nat
    BY <1>3, <1>5
<1>7. /\ id \in Token \ Stop /\ Batch(j)[k + 2] = id
      /\ ~gone[j] => Pick(j, Context(j), id)
      /\ MayGoOn(j)
    BY <1>2, <1>3, <1>4, NextDraft
<1>8. Out(j, id)
    BY <1>3
<1> HIDE DEF id
<1>9. /\ JobInv(j)' /\ GoneAborts(j)'
      /\ \A i \in Jobs : i # j => SameJob(i)
      /\ gone[j] => gone'[j] /\ ids'[j] = ids[j]
      /\ ~gone[j] => ids'[j] # << >> /\ Context(j)' = Append(Context(j), id)
    <2>1. ~done[j] /\ GoneAborts(j) /\ handler[j] # "new"
        BY <1>2, <1>4 DEF Emitted
    <2> QED
        BY <1>2, <1>3, <1>7, <1>8, <2>1, OutFacts
<1>10. JobsInv' /\ QueueInv' /\ BetweenInv' /\ RoundInv'
    <2>1. MovesOn /\ sched' \in Rounds
        BY <1>3 DEF MovesOn, Past, Rounds
    <2> QED
        BY <1>1, <1>2, <1>3, <1>9, <2>1, RoundStep
<1>11. Emitting(j)'
    <2>1. /\ Batch(j)' = Batch(j)
          /\ \A b, t : Row(b, j, t)' = Row(b, j, t)
          /\ \A b, r : RowsFor(j, b, r)' <=> RowsFor(j, b, r)
        BY <1>3, SameRows
    <2>2. \A i : Agrees(j, i)' <=> Agrees(j, i)
        BY <1>3 DEF Agrees
    <2>3. Emitted(j)'
        BY <1>3, <1>4, <1>9 DEF Emitted
    <2>4. ~gone'[j] => Context(j)' = Row(base, j, k' + 1)
        <3> SUFFICES ASSUME ~gone'[j]
                     PROVE  Context(j)' = Row(base, j, k' + 1)
            OBVIOUS
        <3>1. Context(j)' = Append(Row(base, j, k + 1), id)
            BY <1>5, <1>9
        <3>2. k + 2 \in 0 .. Len(Batch(j)) /\ k + 2 # 0 /\ (k + 2) - 1 = k + 1 /\ k' + 1 = k + 2
            BY <1>3, <1>5
        <3>3. Row(base, j, k + 2) = Append(Row(base, j, (k + 2) - 1), Batch(j)[k + 2])
            BY <1>2, <3>2, RowFacts
        <3> QED
            BY <1>7, <3>1, <3>2, <3>3
    <2>5. k' \in 0 .. mm
        BY <1>3, <1>6
    <2>6. /\ mm \in 0 .. Len(drafts[slot[j]]) /\ \A i \in 1 .. mm : Agrees(j, i)
          /\ pos[j] \in 0 .. Len(seq[slot[j]])
          /\ seq[slot[j]] = Row(base, j, mm + 1)
          /\ RowsFor(j, base, r0)
        BY <1>4, <1>5 DEF Emitting
    <2>7. UNCHANGED <<slot, drafts, seq, pos, r0, mm>>
        BY <1>3
    <2> QED
        BY <1>5, <2>1, <2>2, <2>3, <2>4, <2>5, <2>6, <2>7 DEF Emitting
<1>12. CurrentInv'
    <2>1. Job' = j
        BY <1>1, <1>3 DEF Job
    <2> QED
        BY <1>3, <1>11, <2>1 DEF CurrentInv
<1> QED
    BY <1>10, <1>12 DEF AnswerInv

\* The position moves over what was committed, and the row behind the accepted
\* drafts gives the token of the next round.
LEMMA AdvanceAnswerInv ==
    ASSUME SlotInv, TypeOK, AnswerInv, Advance
    PROVE  AnswerInv'
<1> USE DEF sharedVars, roundVars, jobVars, engineVars
<1>1. PICK j : j = Job
    OBVIOUS
<1>2. /\ q \in 1 .. Len(active) /\ j \in Jobs /\ slot[j] \in Slots /\ sched \in Rounds
      /\ handler[j] \notin {"new", "refused"} /\ JobInv(j)
    <2>1. sched \in InJob
        BY DEF Advance, InJob
    <2> QED
        BY <1>1, <2>1, AtJob
<1>3. /\ sched = "drafts" /\ (k = mm \/ Limit(j)) /\ r0' = NextR0
      /\ UNCHANGED <<queue, active, slot, client, drafts, rows, ids, gone, fin, done, handler, seq, pass>>
      /\ IF k < mm \/ gone[j] \/ Limit(j)
         THEN sched' = "flush" /\ UNCHANGED <<still, q>>
         ELSE still' = Append(still, j) /\ q' = q + 1 /\ sched' = "job"
    BY <1>1 DEF Advance
<1>4. /\ \A i \in Jobs : i # j => SameJob(i)
      /\ pos'[j] = pos[j] + mm + 1
      /\ j \in Sampled \/ idLast'[j] = rows[r0 + mm + 1]
    <2>1. PICK id \in Token : /\ j \in Sampled \/ id = rows[r0 + mm + 1]
                              /\ idLast' = [idLast EXCEPT ![j] = id]
        BY <1>1 DEF Advance
    <2>2. pos' = [pos EXCEPT ![j] = pos[j] + mm + 1]
        BY <1>1 DEF Advance, NextPos
    <2>3. pos \in [Jobs -> Nat] /\ idLast \in [Jobs -> Token]
        BY TypeParts DEF JobTypes
    <2>4. \A i \in Jobs : i # j => SameJob(i)
        BY <1>3, <2>1, <2>2, <2>3 DEF SameJob
    <2>5. pos'[j] = pos[j] + mm + 1 /\ idLast'[j] = id
        BY <1>2, <2>1, <2>2, <2>3
    <2> QED
        BY <2>1, <2>4, <2>5
<1>5. Emitting(j) /\ Emitted(j)
    BY <1>1, <1>3 DEF AnswerInv, CurrentInv, Emitting
<1>6. PICK base \in Seq(Token) :
             /\ Len(seq[slot[j]]) = pos[j] + mm + 1
             /\ seq[slot[j]] = Row(base, j, mm + 1)
             /\ RowsFor(j, base, r0)
             /\ ~gone[j] => Context(j) = Row(base, j, k + 1)
             /\ mm \in Nat /\ k \in 0 .. mm /\ mm <= Len(drafts[slot[j]])
             /\ Len(Batch(j)) = 1 + Len(drafts[slot[j]]) /\ Len(drafts[slot[j]]) \in Nat
    BY <1>2, <1>5, EmittingFacts
<1>7. Len(ids[j]) \in Nat \ {0} /\ MaxTokens[j] \in Int
    BY <1>2, <1>5, JobFacts DEF Emitted
<1>8. Context(j)' = Context(j) /\ Service!TokenLimit(j)' = Service!TokenLimit(j)
    BY <1>3 DEF Context, Service!TokenLimit
<1>9. JobInv(j)'
    <2>1. ExactSoFar(j) => ExactSoFar(j)'
        BY <1>3 DEF ExactSoFar
    <2>2. ~done[j]
        BY <1>5 DEF Emitted
    <2> QED
        BY <1>2, <1>3, <1>8, <2>1, <2>2 DEF JobInv
<1>10. CASE k < mm \/ gone[j] \/ Limit(j)
    <2>1. sched' = "flush" /\ UNCHANGED <<still, q>>
        BY <1>3, <1>10
    <2>2. JobsInv' /\ QueueInv' /\ BetweenInv' /\ RoundInv'
        <3>1. MovesOn /\ sched' \in Rounds
            BY <1>3, <2>1 DEF MovesOn, Past, Rounds
        <3> QED
            BY <1>1, <1>2, <1>3, <1>4, <1>9, <2>1, <3>1, RoundStep
    <2>3. ~done[j] /\ (gone[j] => fin[j] = "abort") /\ (~gone[j] => fin[j] = "")
        BY <1>5 DEF Emitted, GoneAborts
    <2>4. ASSUME ~gone[j]
          PROVE  Len(ids[j]) = Service!TokenLimit(j)
        <3>1. Limit(j)
            BY <1>3, <1>6, <1>10, <2>4
        <3>2. PICK n \in Nat \ {0} : n = Len(ids[j])
            BY <1>7
        <3>3. n >= MaxTokens[j]
            BY <3>1, <3>2 DEF Limit
        <3>4. n <= Service!TokenLimit(j)
            BY <1>2, <3>2 DEF JobInv
        <3>5. Service!TokenLimit(j) = IF MaxTokens[j] < 1 THEN 1 ELSE MaxTokens[j]
            BY DEF Service!TokenLimit
        <3> QED
            BY <1>7, <3>2, <3>3, <3>4, <3>5
    <2>5. Ended(j)'
        BY <1>3, <1>8, <2>3, <2>4 DEF Ended
    <2>6. CurrentInv'
        <3>1. Job' = j
            BY <1>1, <1>3, <2>1 DEF Job
        <3> QED
            BY <1>3, <2>1, <2>3, <2>5, <3>1 DEF CurrentInv
    <2> QED
        BY <2>2, <2>6 DEF AnswerInv
<1>11. CASE ~(k < mm \/ gone[j] \/ Limit(j))
    <2>1. still' = Append(still, j) /\ q' = q + 1 /\ sched' = "job" /\ k = mm /\ ~gone[j] /\ ~Limit(j)
        BY <1>3, <1>11
    <2>2. Ready(j)'
        <3>1. Unfinished(j)'
            BY <1>3, <1>5, <2>1 DEF Emitted, GoneAborts, Unfinished
        <3>2. MayGoOn(j)'
            BY <1>3, <1>7, <2>1 DEF MayGoOn, Limit
        <3>3. seq[slot[j]] = Context(j)
            BY <1>6, <2>1
        <3>4. pos'[j] = Len(Context(j))
            BY <1>4, <1>6, <3>3
        <3>5. j \in Sampled \/ idLast'[j] = Greedy(Context(j))
            <4>1. mm + 1 \in 1 .. Len(Batch(j)) /\ r0 + mm + 1 = r0 + (mm + 1)
                <5>1. r0 \in Nat
                    BY TypeParts DEF RoundTypes
                <5> QED
                    BY <1>6, <5>1
            <4>2. rows[r0 + (mm + 1)] = Greedy(Row(base, j, mm + 1))
                BY <1>6, <4>1, Zenon DEF RowsFor
            <4> QED
                BY <1>4, <1>6, <3>3, <4>1, <4>2
        <3> QED
            BY <1>3, <1>8, <3>1, <3>2, <3>3, <3>4, <3>5 DEF Ready, Pick
    <2>3. \A i \in 1 .. Len(still') : (\E n \in 1 .. Len(still) : still'[i] = still[n]) \/ still'[i] = j
        <3>1. still \in Seq(Jobs)
            BY DEF SlotInv, SlotTypes
        <3>2. /\ Len(still') = Len(still) + 1 /\ still'[Len(still) + 1] = j /\ Len(still) \in Nat
              /\ \A i \in 1 .. Len(still) : still'[i] = still[i]
            BY <1>2, <2>1, <3>1, AppendProperties, LenProperties
        <3> QED
            BY <3>2
    <2>4. JobsInv' /\ QueueInv' /\ BetweenInv' /\ RoundInv'
        <3>1. MovesOn /\ sched' \in Rounds
            BY <1>3, <2>1 DEF MovesOn, Past, Rounds
        <3> QED
            BY <1>1, <1>2, <1>3, <1>4, <1>9, <2>2, <2>3, <3>1, RoundStep
    <2>5. CurrentInv'
        BY <2>1 DEF CurrentInv
    <2> QED
        BY <2>4, <2>5 DEF AnswerInv
<1> QED
    BY <1>10, <1>11

-----------------------------------------------------------------------------

StepInv == SlotInv /\ CleanInv /\ TypeOK /\ AnswerInv

LEMMA NextStepInv ==
    ASSUME FrameReuse = FALSE, StepInv, [Next]_vars
    PROVE  StepInv'
<1> USE DEF StepInv
<1>1. SlotInv' /\ CleanInv'
    BY NextSlotInv, NextCleanInv
<1>2. TypeOK' /\ AnswerInv'
    <2>1. ASSUME NEW j \in Jobs, Handler(j) \/ Client(j)
          PROVE  TypeOK' /\ AnswerInv'
        BY <2>1, ThreadsTypeOK, ThreadsAnswerInv
    <2>2. CASE Loop
        <3>1. EmitDraft => mm <= Len(drafts[slot[Job]])
            <4> SUFFICES ASSUME EmitDraft
                         PROVE  mm <= Len(drafts[slot[Job]])
                OBVIOUS
            <4>1. PICK j : j = Job
                OBVIOUS
            <4>2. sched \in InJob /\ Emitting(j)
                BY <4>1 DEF EmitDraft, InJob, AnswerInv, CurrentInv
            <4>3. j \in Jobs /\ slot[j] \in Slots
                BY <4>1, <4>2, AtJob
            <4>4. mm <= Len(drafts[slot[j]])
                BY <4>2, <4>3, EmittingFacts
            <4> QED
                BY <4>1, <4>4
        <3>2. TypeOK'
            BY <2>2, <3>1, AdmissionTypeOK, PassTypeOK, JobTypeOK, Zenon DEF Loop
        <3>3. AnswerInv'
            BY <2>2, AdmitAnswerInv, PrefillAnswerInv, PassAnswerInv, VerifyAnswerInv,
               StopJobAnswerInv, EmitLastAnswerInv, MatchAnswerInv, EmitDraftAnswerInv,
               AdvanceAnswerInv, EndAnswerInv, Zenon
               DEF Loop
        <3> QED
            BY <3>2, <3>3
    <2>3. CASE UNCHANGED vars
        <3>1. UNCHANGED <<sharedVars, sched, roundVars, jobVars, handler, client, engineVars>>
            BY <2>3 DEF vars
        <3>2. TypeOK'
            BY <3>1, TypeParts
               DEF sharedVars, roundVars, jobVars, engineVars,
                   RoundTypes, JobTypes, HandlerTypes, ClientTypes, EngineTypes
        <3>3. AnswerInv'
            BY <2>3, StutterAnswerInv
        <3> QED
            BY <3>2, <3>3
    <2> QED
        BY <2>1, <2>2, <2>3, Zenon DEF Next, Quiescent
<1> QED
    BY <1>1, <1>2

LEMMA InitStepInv == Init => StepInv
BY InitSlotInv, InitCleanInv, InitTypeOK, InitAnswerInv DEF StepInv

\* Every variable of serve.cpp stays within its type: no index of run() leaves
\* its range of values, and no draft is read behind the ones that were made.
THEOREM TypesHold ==
    ASSUME FrameReuse = FALSE
    PROVE  Spec => []TypeOK
<1>1. StepInv => TypeOK
    BY DEF StepInv
<1> QED
    BY <1>1, InitStepInv, NextStepInv, PTL DEF Spec

\* The exactness claim of docs/serving.md and docs/speculative-27b.md, for every
\* target model, draft model, number of slots and order of events: the tokens
\* run() gives out for a greedy request are those of decoding it alone, one by
\* one, and never an end token.
THEOREM AnswersAreGreedy ==
    ASSUME FrameReuse = FALSE
    PROVE  Spec => []GreedyExact
<1>1. StepInv => GreedyExact
    BY DEF StepInv, AnswerInv, JobsInv, JobInv, ExactSoFar, GreedyExact
<1> QED
    BY <1>1, InitStepInv, NextStepInv, PTL DEF Spec

\* Between rounds the engine has committed, for every active job, its prompt and
\* the tokens its client was given, and Job::pos is that length: match, accept
\* and emit of run() never drift apart, whatever was drafted or cut short.
THEOREM EngineStaysInStep ==
    ASSUME FrameReuse = FALSE
    PROVE  Spec => []EngineInStep
<1>1. StepInv => EngineInStep
    <2> SUFFICES ASSUME StepInv, sched = "check", NEW j \in ToSet(active)
                 PROVE  seq[slot[j]] = Prompt[j] \o ids[j] /\ pos[j] = Len(seq[slot[j]])
        BY DEF EngineInStep
    <2>1. PICK p \in 1 .. Len(active) : j = active[p]
        BY DEF ToSet, StepInv, SlotInv, SlotTypes
    <2>2. Ready(j)
        BY <2>1 DEF StepInv, AnswerInv, BetweenInv
    <2> QED
        BY <2>2 DEF Ready, Context
<1> QED
    BY <1>1, InitStepInv, NextStepInv, PTL DEF Spec

\* finish_reason is true (serve.cpp out(), run() and finish()): "length" at
\* exactly the limit, "stop" only when the model ends there, "abort" only when
\* the client has left.
THEOREM AnswersEndTruthfully ==
    ASSUME FrameReuse = FALSE
    PROVE  Spec => []TruthfulFinish
<1>1. StepInv => TruthfulFinish
    <2> SUFFICES ASSUME StepInv, NEW j \in Jobs, done[j]
                 PROVE  /\ fin[j] = "length" => Len(ids[j]) = IF MaxTokens[j] < 1 THEN 1 ELSE MaxTokens[j]
                        /\ fin[j] = "stop" =>
                            /\ Len(ids[j]) < MaxTokens[j] \/ ids[j] = << >>
                            /\ j \notin Sampled => Greedy(Prompt[j] \o ids[j]) \in Stop
                        /\ fin[j] = "abort" => client[j] = "left"
                        /\ fin[j] # ""
        BY DEF TruthfulFinish
    <2>1. JobInv(j) /\ Ended(j) /\ fin[j] # ""
        BY DEF StepInv, AnswerInv, JobsInv, JobInv
    <2>2. fin[j] = "length" => Len(ids[j]) = IF MaxTokens[j] < 1 THEN 1 ELSE MaxTokens[j]
        BY <2>1 DEF Ended, Service!TokenLimit
    <2>3. fin[j] = "stop" => /\ Len(ids[j]) < MaxTokens[j] \/ ids[j] = << >>
                             /\ j \notin Sampled => Greedy(Prompt[j] \o ids[j]) \in Stop
        BY <2>1 DEF Ended, MayGoOn, Pick, Context
    <2>4. fin[j] = "abort" => client[j] = "left"
        BY <2>1 DEF JobInv
    <2> QED
        BY <2>1, <2>2, <2>3, <2>4
<1> QED
    BY <1>1, InitStepInv, NextStepInv, PTL DEF Spec

-----------------------------------------------------------------------------
(* The scheduler implements the service                                    *)

\* What a client sees of a request.
StatusOf(h, d) ==
    CASE h = "new"     -> "idle"
      [] h = "refused" -> "refused"
      [] d             -> "answered"
      [] OTHER         -> "running"

LEMMA StatusFacts ==
    ASSUME NEW h, NEW d \in BOOLEAN, d => h \notin {"new", "refused"}
    PROVE  /\ h = "new" => StatusOf(h, d) = "idle"
           /\ h = "refused" => StatusOf(h, d) = "refused"
           /\ h \notin {"new", "refused"} => StatusOf(h, d) = IF d THEN "answered" ELSE "running"
<1>1. h = "new" => StatusOf(h, d) = "idle"
    BY DEF StatusOf
<1>2. h = "refused" => StatusOf(h, d) = "refused"
    BY DEF StatusOf
<1>3. h \notin {"new", "refused"} => StatusOf(h, d) = IF d THEN "answered" ELSE "running"
    BY DEF StatusOf
<1> QED
    BY <1>1, <1>2, <1>3

LEMMA StatusEach ==
    /\ ServiceStatus = [i \in Jobs |-> StatusOf(handler[i], done[i])]
    /\ ServiceStatus' = [i \in Jobs |-> StatusOf(handler'[i], done'[i])]
BY DEF ServiceStatus, StatusOf

\* The status of one request changes.
LEMMA StatusMoves ==
    ASSUME NEW j \in Jobs, \A i \in Jobs : i # j => handler'[i] = handler[i] /\ done'[i] = done[i]
    PROVE  ServiceStatus' = [ServiceStatus EXCEPT ![j] = StatusOf(handler'[j], done'[j])]
BY StatusEach

\* Steps no client sees.
LEMMA HiddenStep ==
    ASSUME UNCHANGED <<ids, done>>,
           \A j \in Jobs : done[j] => fin'[j] = fin[j],
           \A j \in Jobs : /\ handler'[j] = "new" <=> handler[j] = "new"
                           /\ handler'[j] = "refused" <=> handler[j] = "refused"
    PROVE  UNCHANGED Service!serviceVars
<1>1. ServiceStatus' = ServiceStatus
    <2>1. \A j \in Jobs : StatusOf(handler'[j], done'[j]) = StatusOf(handler[j], done[j])
        BY DEF StatusOf
    <2> QED
        BY <2>1, StatusEach
<1>2. [j \in Jobs |-> IF done[j] THEN fin[j] ELSE ""]' = [j \in Jobs |-> IF done[j] THEN fin[j] ELSE ""]
    OBVIOUS
<1> QED
    BY <1>1, <1>2 DEF Service!serviceVars

\* The end of a request: enqueued or refused.
LEMMA ServiceTakes ==
    ASSUME TypeOK, AnswerInv, NEW j \in Jobs, Enqueue(j) \/ Refuse(j)
    PROVE  Service!Take(j) \/ Service!RefuseLong(j)
<1> USE DEF jobVars
<1>1. handler[j] = "new" /\ UNCHANGED <<ids, done, fin>>
    BY DEF Enqueue, Refuse
<1>2. ~done[j] /\ done[j] \in BOOLEAN
    BY <1>1, TypeParts DEF AnswerInv, JobsInv, JobInv, JobTypes
<1>3. ServiceStatus[j] = "idle"
    BY <1>1, <1>2, StatusFacts, StatusEach
<1>4. /\ ids' = ids
      /\ [i \in Jobs |-> IF done[i] THEN fin[i] ELSE ""]' = [i \in Jobs |-> IF done[i] THEN fin[i] ELSE ""]
    BY <1>1
<1>5. Len(Prompt[j]) \in Nat /\ Margin \in Nat /\ MaxCtx \in Nat
    BY JobFacts, SchedulerAssumption
<1>6. ASSUME NEW to, handler' = [handler EXCEPT ![j] = to], to \in {"queued", "refused"}
      PROVE  /\ to = "queued" => ServiceStatus' = [ServiceStatus EXCEPT ![j] = "running"]
             /\ to = "refused" => ServiceStatus' = [ServiceStatus EXCEPT ![j] = "refused"]
    <2>1. handler'[j] = to /\ \A i \in Jobs : i # j => handler'[i] = handler[i]
        BY <1>6, TypeParts DEF HandlerTypes
    <2>2. \A i \in Jobs : i # j => handler'[i] = handler[i] /\ done'[i] = done[i]
        BY <1>1, <2>1
    <2>3. /\ to = "queued" => StatusOf(to, done[j]) = "running"
          /\ to = "refused" => StatusOf(to, done[j]) = "refused"
        <3>1. to = "queued" => to \notin {"new", "refused"}
            OBVIOUS
        <3> QED
            BY <1>2, <3>1, StatusFacts
    <2>4. ServiceStatus' = [ServiceStatus EXCEPT ![j] = StatusOf(to, done[j])]
        BY <1>1, <2>1, <2>2, StatusMoves
    <2> QED
        BY <2>3, <2>4
<1>7. CASE Enqueue(j)
    <2>1. Len(Prompt[j]) + Margin <= MaxCtx
        BY <1>5, <1>7 DEF Enqueue, TooLong
    <2>2. ServiceStatus' = [ServiceStatus EXCEPT ![j] = "running"]
        BY <1>6, <1>7 DEF Enqueue
    <2> QED
        BY <1>3, <1>4, <2>1, <2>2 DEF Service!Take
<1>8. CASE Refuse(j)
    <2>1. Len(Prompt[j]) + Margin > MaxCtx
        BY <1>5, <1>8 DEF Refuse, TooLong
    <2>2. ServiceStatus' = [ServiceStatus EXCEPT ![j] = "refused"]
        BY <1>6, <1>8 DEF Refuse
    <2> QED
        BY <1>3, <1>4, <2>1, <2>2 DEF Service!RefuseLong
<1> QED
    BY <1>7, <1>8

\* A token out() is given: it is said, or the client is gone already.
LEMMA ServiceSays ==
    ASSUME TypeOK, NEW j \in Jobs, NEW id \in Token, Out(j, id),
           UNCHANGED <<done, handler>>,
           handler[j] \notin {"new", "refused"}, ~done[j],
           MayGoOn(j), id \notin Stop,
           ~gone[j] => Pick(j, Context(j), id)
    PROVE  Service!Say(j) \/ UNCHANGED Service!serviceVars
<1>1. CASE gone[j]
    BY <1>1, HiddenStep DEF Out
<1>2. CASE ~gone[j]
    <2>1. ids' = [ids EXCEPT ![j] = Append(ids[j], id)]
        BY <1>2 DEF Out
    <2>2. \A i \in Jobs : done[i] => fin'[i] = fin[i]
        <3>1. UNCHANGED fin \/ fin' = [fin EXCEPT ![j] = "abort"]
            BY <1>2 DEF Out
        <3> QED
            BY <3>1, TypeParts DEF JobTypes
    <2>3. [i \in Jobs |-> IF done[i] THEN fin[i] ELSE ""]' = [i \in Jobs |-> IF done[i] THEN fin[i] ELSE ""]
        BY <2>2
    <2>4. ServiceStatus' = ServiceStatus /\ ServiceStatus[j] = "running"
        <3>1. ServiceStatus' = ServiceStatus
            BY DEF ServiceStatus
        <3>2. done[j] \in BOOLEAN
            BY TypeParts DEF JobTypes
        <3> QED
            BY <3>1, <3>2, StatusFacts, StatusEach
    <2>5. Len(ids[j]) < Service!TokenLimit(j)
        <3>1. PICK n \in Nat : n = Len(ids[j]) /\ (n = 0 \/ n < MaxTokens[j])
            BY JobFacts DEF MayGoOn
        <3>2. MaxTokens[j] \in Int
            BY JobFacts
        <3> QED
            BY <3>1, <3>2 DEF Service!TokenLimit
    <2>6. Service!Wants(j, id)
        BY <1>2 DEF Service!Wants, Pick, Context
    <2> QED
        BY <2>1, <2>3, <2>4, <2>5, <2>6 DEF Service!Say
<1> QED
    BY <1>1, <1>2

\* finish() publishes the answer and why it ended.
LEMMA ServiceEnds ==
    ASSUME SlotInv, TypeOK, AnswerInv, Finish
    PROVE  \E j \in Jobs : Service!End(j)
<1>1. PICK j : j = Job
    OBVIOUS
<1>2. j \in Jobs /\ handler[j] \notin {"new", "refused"} /\ JobInv(j)
    BY <1>1, AtJob DEF Finish, InJob
<1>3. ~done[j] /\ Ended(j) /\ fin[j] # ""
    BY <1>1 DEF Finish, AnswerInv, CurrentInv
<1>4. done' = [done EXCEPT ![j] = TRUE] /\ UNCHANGED <<ids, fin, handler>>
    BY <1>1 DEF Finish
<1>5. done'[j] /\ \A i \in Jobs : i # j => done'[i] = done[i]
    BY <1>2, <1>4, TypeParts DEF JobTypes
<1>6. fin[j] \in {"stop", "length", "abort"}
    BY <1>2, <1>3, TypeParts DEF JobTypes
<1>7. Service!MayEnd(j, fin[j])
    BY <1>2, <1>3, <1>6 DEF Service!MayEnd, Ended, JobInv, Service!Wants, Pick, Context
<1>8. ServiceStatus[j] = "running" /\ ServiceStatus' = [ServiceStatus EXCEPT ![j] = "answered"]
    <2>1. done[j] \in BOOLEAN /\ done'[j] \in BOOLEAN /\ handler'[j] = handler[j]
        BY <1>2, <1>4, <1>5, TypeParts DEF JobTypes
    <2>2. ServiceStatus[j] = "running"
        BY <1>2, <1>3, <2>1, StatusFacts, StatusEach
    <2>3. StatusOf(handler'[j], done'[j]) = "answered"
        <3>1. handler'[j] \notin {"new", "refused"}
            BY <1>2, <2>1
        <3>2. StatusOf(handler'[j], done'[j]) = IF done'[j] THEN "answered" ELSE "running"
            BY <2>1, <3>1, StatusFacts
        <3> QED
            BY <1>5, <3>2
    <2> QED
        BY <1>2, <1>4, <1>5, <2>2, <2>3, StatusMoves
<1>9. [i \in Jobs |-> IF done[i] THEN fin[i] ELSE ""]' =
          [[i \in Jobs |-> IF done[i] THEN fin[i] ELSE ""] EXCEPT ![j] = fin[j]]
    BY <1>2, <1>4, <1>5
<1> QED
    BY <1>2, <1>4, <1>6, <1>7, <1>8, <1>9 DEF Service!End

\* Both emits of run() say one token the model wants, or are skipped.
LEMMA ServiceEmits ==
    ASSUME SlotInv, TypeOK, AnswerInv, EmitLast \/ EmitDraft
    PROVE  Service!ServiceNext \/ UNCHANGED Service!serviceVars
<1> USE DEF roundVars, jobVars
<1>1. PICK j : j = Job
    OBVIOUS
<1>2. CASE EmitLast
    <2>1. /\ j \in Jobs /\ slot[j] \in Slots /\ handler[j] \notin {"new", "refused"} /\ Waiting(j, r0)
        BY <1>1, <1>2, AtJob DEF EmitLast
    <2>2. /\ idLast[j] \notin Stop /\ Out(j, idLast[j]) /\ UNCHANGED <<done, handler>>
        BY <1>1, <1>2 DEF EmitLast
    <2>3. ~done[j] /\ MayGoOn(j) /\ Pick(j, Context(j), idLast[j]) /\ idLast[j] \in Token
        BY <2>1, JobFacts DEF Waiting, Ready, Unfinished
    <2>4. Service!Say(j) \/ UNCHANGED Service!serviceVars
        BY <2>1, <2>2, <2>3, ServiceSays
    <2> QED
        BY <2>1, <2>4 DEF Service!ServiceNext
<1>3. CASE EmitDraft
    <2>1. /\ j \in Jobs /\ slot[j] \in Slots /\ handler[j] \notin {"new", "refused"}
        BY <1>1, <1>3, AtJob DEF EmitDraft, InJob
    <2>2. /\ sched = "drafts" /\ k < mm /\ ~Limit(j)
          /\ Out(j, drafts[slot[j]][k + 1]) /\ UNCHANGED <<done, handler>>
        BY <1>1, <1>3 DEF EmitDraft
    <2>3. Emitting(j) /\ ~done[j]
        BY <1>1, <2>2 DEF AnswerInv, CurrentInv, Emitting, Emitted
    <2> DEFINE id == drafts[slot[j]][k + 1]
    <2>4. id \in Token \ Stop /\ (~gone[j] => Pick(j, Context(j), id)) /\ MayGoOn(j)
        BY <2>1, <2>2, <2>3, NextDraft
    <2>5. Out(j, id)
        BY <2>2
    <2> HIDE DEF id
    <2>6. Service!Say(j) \/ UNCHANGED Service!serviceVars
        BY <2>1, <2>2, <2>3, <2>4, <2>5, ServiceSays
    <2> QED
        BY <2>1, <2>6 DEF Service!ServiceNext
<1> QED
    BY <1>2, <1>3

\* What handlers and clients do, but for the enqueueing and the refusal, shows
\* in no answer.
LEMMA HiddenThreads ==
    ASSUME TypeOK, NEW j \in Jobs,
           NotifyScheduler(j) \/ WaitDone(j) \/ SpuriousWake(j) \/ Client(j)
    PROVE  UNCHANGED Service!serviceVars
<1> USE DEF jobVars
<1>1. UNCHANGED <<ids, done, fin>>
    BY DEF NotifyScheduler, WaitDone, SpuriousWake, Client, Stall, Resume, Leave, ClientMoves
<1>2. \/ UNCHANGED handler
      \/ /\ handler[j] \notin {"new", "refused"}
         /\ \E h \in {"checking", "returned", "parked"} : handler' = [handler EXCEPT ![j] = h]
    BY DEF NotifyScheduler, WaitDone, SpuriousWake, Client, Stall, Resume, Leave, ClientMoves
<1>3. \A i \in Jobs : /\ handler'[i] = "new" <=> handler[i] = "new"
                      /\ handler'[i] = "refused" <=> handler[i] = "refused"
    BY <1>2, TypeParts DEF HandlerTypes
<1> QED
    BY <1>1, <1>3, HiddenStep

\* The steps of the scheduler between the emits and the end of an answer:
\* batching, drafting and accepting show in no answer.
LEMMA HiddenLoop ==
    ASSUME SlotInv, TypeOK, AnswerInv,
           \/ Park \/ Admit \/ ResetAdmitted \/ PrefillChunk \/ Draft \/ Verify \/ Terminate
           \/ StopJob \/ Match \/ Advance \/ Flush \/ NotifyJob \/ Release
    PROVE  UNCHANGED Service!serviceVars
<1> USE DEF sharedVars, roundVars, jobVars, engineVars
<1>1. CASE \/ Park \/ Admit \/ ResetAdmitted \/ PrefillChunk \/ Draft \/ Verify \/ Terminate
           \/ Match \/ Advance \/ Release
    <2>1. UNCHANGED <<ids, done, fin, handler>>
        BY <1>1 DEF Park, Admit, ResetAdmitted, PrefillChunk, Draft, Verify, Terminate,
                    Match, Advance, Release
    <2> QED
        BY <2>1, HiddenStep
<1>2. CASE StopJob \/ Flush
    <2>1. PICK j : j = Job
        OBVIOUS
    <2>2. j \in Jobs /\ ~done[j]
        <3>1. CASE StopJob
            <4>1. j \in Jobs /\ Waiting(j, r0)
                BY <2>1, <3>1, AtJob DEF StopJob
            <4> QED
                BY <4>1 DEF Waiting, Ready, Unfinished
        <3>2. CASE Flush
            <4>1. j \in Jobs
                BY <2>1, <3>2, AtJob DEF Flush, InJob
            <4> QED
                BY <2>1, <3>2, <4>1 DEF Flush, AnswerInv, CurrentInv
        <3> QED
            BY <1>2, <3>1, <3>2
    <2>3. UNCHANGED <<ids, done, handler>> /\ \E why : fin' = [fin EXCEPT ![j] = why]
        BY <1>2, <2>1 DEF StopJob, Flush
    <2>4. \A i \in Jobs : done[i] => fin'[i] = fin[i]
        BY <2>2, <2>3, TypeParts DEF JobTypes
    <2> QED
        BY <2>3, <2>4, HiddenStep
<1>3. CASE NotifyJob
    <2>1. PICK j : j = Job
        OBVIOUS
    <2>2. /\ UNCHANGED <<ids, done, fin>>
          /\ handler' = [handler EXCEPT ![j] = IF @ = "parked" THEN "checking" ELSE @]
        BY <1>3, <2>1 DEF NotifyJob
    <2>3. \A i \in Jobs : /\ handler'[i] = "new" <=> handler[i] = "new"
                          /\ handler'[i] = "refused" <=> handler[i] = "refused"
        BY <2>2, TypeParts DEF HandlerTypes
    <2> QED
        BY <2>2, <2>3, HiddenStep
<1> QED
    BY <1>1, <1>2, <1>3

LEMMA InitService == Init => Service!ServiceInit
<1> SUFFICES ASSUME Init
             PROVE  Service!ServiceInit
    OBVIOUS
<1>1. /\ ids = [j \in Jobs |-> << >>] /\ done = [j \in Jobs |-> FALSE]
      /\ handler = [j \in Jobs |-> "new"]
    BY DEF Init
<1>2. \A j \in Jobs : StatusOf(handler[j], done[j]) = "idle"
    BY <1>1, StatusFacts
<1>3. ServiceStatus = [j \in Jobs |-> "idle"]
    BY <1>2, StatusEach
<1>4. [j \in Jobs |-> IF done[j] THEN fin[j] ELSE ""] = [j \in Jobs |-> ""]
    BY <1>1
<1> QED
    BY <1>1, <1>3, <1>4 DEF Service!ServiceInit

LEMMA NextService ==
    ASSUME StepInv, [Next]_vars
    PROVE  [Service!ServiceNext]_(Service!serviceVars)
<1> USE DEF StepInv
<1>1. ASSUME NEW j \in Jobs, Handler(j) \/ Client(j)
      PROVE  Service!ServiceNext \/ UNCHANGED Service!serviceVars
    <2>1. Enqueue(j) \/ Refuse(j) => Service!ServiceNext
        BY ServiceTakes DEF Service!ServiceNext
    <2> QED
        BY <1>1, <2>1, HiddenThreads, Zenon DEF Handler
<1>2. CASE Loop
    <2>1. Finish => Service!ServiceNext
        BY ServiceEnds DEF Service!ServiceNext
    <2> QED
        BY <1>2, <2>1, ServiceEmits, HiddenLoop, Zenon DEF Loop
<1>3. CASE UNCHANGED vars
    <2>1. UNCHANGED <<ids, done, fin, handler>>
        BY <1>3 DEF vars, jobVars
    <2> QED
        BY <2>1, HiddenStep
<1> QED
    BY <1>1, <1>2, <1>3, Zenon DEF Next, Quiescent

\* The serving loop implements the service of GreedyService: each request gets
\* the answer it would get alone, whatever generate() and run() do with the
\* queue, the slots, the drafts, the passes and the clients of other requests.
THEOREM SchedulerImplementsService ==
    ASSUME FrameReuse = FALSE
    PROVE  Spec => ImplementsService
BY InitStepInv, NextStepInv, InitService, NextService, PTL
   DEF Spec, ImplementsService, Service!ServiceSpec
=============================================================================
