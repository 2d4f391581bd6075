# Verification of hipster

TLA+ modules, TLC runs and TLAPS proofs about hipster, an inference engine and
server for two models (Qwen3.8 Flash-Next and the 27B) on one GPU. The server
speculates: cheap drafts are verified in one pass of the target model and only
a prefix is kept. The claim everything hangs on is exactness: an answer is the
one plain token-by-token decoding of that request alone would give, whatever
the drafts, the other requests in the batch and the timing
(`docs/serving.md`, `docs/speculative-27b.md`).

## The system

| part | state | operations | interacts with |
|---|---|---|---|
| connection threads (`front/http.cpp`, the handler in `front/serve.cpp`) | `Response`: `streaming_`, `done_` | receive, route, respond, stream, keepalives, close | call `generate`; write the same socket as the scheduler |
| `Server::generate` (`front/serve.cpp`) | a `Job` on the stack, `mu`, `cv` | check, queue, wait | push to `queue` under `qmu`; wait for `done` |
| scheduler thread (`Server::run`, `out`, `finish`) | `queue`, `active`, `used`, locals of a round; per job `held`, `thinking` | admit, prefill, draft, verify, match, accept, emit, finish, release | drives a `Backend`; calls the handler's `emit` in its own thread |
| backends (`FnBackend`, `B27Backend`) | `hp_`, draft KV per slot | prefill, draft, verify, accept | between scheduler and engine |
| Flash-Next engine (`engine/src/qwen4exp.cpp`) | double-buffered GDN/conv/PLE state, `hist_`, KV cache, indexer cache, pooled blocks, replay inputs, `hprev_` | `prefill`, `forward`, `accept`, `reset_slot`, `mtp_forward`, `mtp_catchup` | called by the scheduler only |
| 27B engine (`engine/src/qwen35.cpp`, `dflash.cpp`) | the same without PLE, DFlash2 KV, `last_gm_`, dequantisation buffers on a second stream | the same, `dflash_encode`, `dflash_draft_b` | called by the scheduler only |
| kernels (`engine/kernels/`) | none | GEMV, GEMM, GDN, attention, QSA, PLE, MoE | read and write the caches above |
| tokenizer, chat template (`front/`) | vocabulary, merges | encode, piece, render, parse_output | pure functions |
| GGUF and weights (`engine/src/gguf.cpp`, `qwen35.cpp`) | tensor table, arena | open, read_tensor, alloc, upload | at start |
| prompt lookup (`engine/src/ngram_map.cpp`, `bench/dflash27b.cpp`) | keys by hash bucket, values, statistics | draft, accept | the bench driver's loop |

Hard to test here: handlers and scheduler meet in short lock sections with
engine calls in between; an emit may block on, or fail at, any token; two
threads write one connection, and an exception may cut in before, during or
after a stream; several requests share a pass and its replay buffers; caches are
never rolled back, so rejected rows must be overwritten before they are read;
the draft models' caches are written by whoever drafted last. `PROJECT.json`
lists these hazards with their lines and the properties that cover them, or says why none does.

## Modules

`Scheduler` is the serving loop. A lock section is one action, so the mutexes
are no variables; between lock sections everything that can block or be
observed by another thread is an action of its own.

| code | `Scheduler` |
|---|---|
| `generate` 153 to 158 | `Refuse`, `Enqueue`, `NotifyScheduler`, `WaitDone`, `SpuriousWake` |
| `run` 166 to 176 (admission) | `Park`, `Admit`, `ResetAdmitted`, `PrefillChunk` |
| `run` 178 to 192 (draft, verify) | `Draft`, `Verify`, or `Terminate` when the engine throws |
| `run` 194 to 205 (per job) | `StopJob`, or `EmitLast`, `Match`, `EmitDraft`, `Advance` |
| `finish` 144 to 150 | `Flush`, `Finish`, `NotifyJob` |
| `run` 206 | `Release` |
| the peers of the sockets | `Stall`, `Resume`, `Leave` |

`sched` is the program counter of the scheduler thread and `handler[j]` that of
a handler. The target model is a constant function `Greedy` from sequences to
tokens, used in the model only through what the engine has actually committed
(`seq`), so that a wrong slot, offset or accept shows as a wrong token. Drafts
are arbitrary. A sampled job picks any token. `NoSlot`, the value of `j->slot`
before admission, is -1 as in the code.

`TokenEngine` is what the scheduler assumes of an engine: a committed sequence
per slot, and the rows of the last pass until they are accepted.
`GreedyService` is what a client is promised, one request at a time.
`Scheduler` implements `GreedyService` (`ImplementsService`) over the operations
of `TokenEngine`, and `SlotEngine` implements `TokenEngine`
(`ImplementsTokenEngine`).

`SlotEngine` is how Flash-Next keeps that promise: two state buffers per slot,
histories, keys by position, pooled keys by block, and the saved inputs accept
replays from. A state or a cache row is modelled by the token sequence it was
computed from; a row of a pass is `exact` when everything it reads was computed
from its own sequence. That makes stale cache rows visible without arithmetic.
Its guard `AllAccepted` is the theorem `PassesAreAccepted` of the scheduler, and
`Pos` (the position the caller passes) its invariant `EngineInStep`.

`DraftCaches` is what lies between the scheduler and both engines so that drafts
can be made: `Backend::prefill`, `draft`, `verify`, `accept` with the MTP block's
cache and pending h of Flash-Next ("fn"), and with the DFlash2 cache of the 27B
("b27"); the 27B's own state buffers, passes and `last_gm_` are here too.
`PrefillPass` is one pass over a prompt, committed with the draft cache behind
it; `Round` drafts for and verifies all active slots; `AcceptSlot` commits one of
them. Which drafts the target agrees with is chosen with the round (`good`), and a
state or a row is modelled by the request and the number of its tokens it was
computed from, `Junk` when it saw anything else.

`Emission` is what `out` does with the bytes of a token: `Boundary` is
the search for the end of the last whole character, `Taken` the thinking tags and
the bytes held back. `HttpResponse` is one connection over it, from `Init` to
`Close`: `Receive` or `CutShort` (the read), `Handle` with `Route` (the handler up
to its first write, every endpoint), `StateEvent` (`/models/sse`), `Generate`,
`WaitDone`, `LastChunk`, `Catch` and `Close` in the connection's thread; `Out`, `Flush`
and `SignalDone` in the scheduler's; `ClientLeaves`, after which every write throws.
`wire` is what the socket took, a word per write.

`Prefetch` is the GEMM path of the 27B's long prompts, where the host queues each
layer's work on two GPU streams and dequantises weights one GEMM ahead into one
of two buffers (`prefetch`, `lin_multi`). `pending`, `current` and `wanted` are
`pf_pending_`, `pf_buf_` and `pf_w_`; `next` and `next2` are `next_pf_` and
`next2_pf_`, handed from block to block. Each call of `lin_multi` is an action of
the host, and a stream starts and ends an operation in two steps. The path is
off by default (`prefetch_on_`).

`PromptLookup` is the n-gram map of `ngram_map.cpp` in the loop of
`dflash27b.cpp`: `Lookup` finds or adds the key, counts its values and copies a
continuation; `Verify` is the rest of a round, with what the target agrees to
(`Agreed`) and what the map is told of it (`KeysAfter`). The engine's text (`engine`)
and the place the loop gives the next pass (`pos`) are variables of their own, next to
the history of the map and the tokens of the answer, as the loop advances each by hand.

Six modules are pure functions: `Tokenizer` (code points, byte alphabet,
pre-tokenizer, merges, special tokens), `ChatText` (`render` and `parse_output` over
texts of tags, line breaks and words), `Json` (what `json.h` writes and reads),
`MoeTiles` (prefill slots sorted by expert and cut into tiles), `ModelLoad` (tensor
table of several shards, `pread` loop, bump arena, uploads) and `WeightFormats`
(which bits of a stored block make a weight: as the reference dequantiser of `quant.h`
reads the GGUF, as both models lay the rows out on the device, as `gemm.hip` reads
them there). In `WeightFormats` a bit is the name of the place it was stored at, so
that one comparison of the two readings covers every content of the block. `Algorithms` has their inputs as its state, which every step
makes one piece longer, and says of each result what it has to be, in a
definition of its own: the pre-tokenizer against the regular expression, the
merge loop against merging by training order, and so on. `JsonText` adds the same for
`Json`, apart from the others because `Json` is recursive: nothing can be proved
in a module that reaches a RECURSIVE operator.
A step of its `TextSpec` is one of `Algorithms` or leaves `input` alone, so what is proved of
`Algorithms` is what the run checks.

`MC*` modules instantiate for TLC. The proofs are in `SchedulerProofs` (slots, then answers), `SlotEngineProofs`,
`HttpResponseProofs`, `PrefetchProofs` (the host, then the streams), `DraftCachesProofs`,
`PromptLookupProofs` and `AlgorithmsProofs`; `SequenceFacts` has the lemmas about
concatenations, folds, sections and maxima they share.

Operators commented "Faulty variant" are plausible bugs, one for each checked
property. No specification uses them: each can take the place of the definition
it varies to see that the property notices.

## Runs

| run | asks | instance |
|---|---|---|
| `leave` | slots never leaked, shared or dirty; finish reasons true | 2 streaming requests whose clients stall and leave, 2 slots, 2 drafts |
| `fn` | greedy answers exact; engine, positions and answers in step; every pass accepted | 4 requests (one refused), 3 slots, so that rounds have 1, 2 and 3 jobs and 2, 1 and 0 drafts; prompts in one-token chunks |
| `b27` | the scheduler implements the service | 3 requests, one sampled, 2 slots, so that one waits; 1 draft |
| `live` | every queued request is answered | 2 streaming requests, 1 slot; the context is short enough for the engine to give up |
| `slots` | caches belong to their sequence; logits exact; the buffers implement `TokenEngine` | 2 slots, 2 tokens, 3 positions, blocks of 2, passes of up to 3 rows |
| `drafts` | committed states and draft caches are those of the slot's own request; the first draft starts from the target's h | both backends, 3 requests over 3 slots, prompts of 1 and 6 in chunks of 5, 8 positions, 2 and 1 drafts |
| `response` | one response with one terminator; who stays is answered; the text is the tokens' in whole characters; no thread kept for a client that left | any request, up to 4 of 7 tokens, among them both tags and pieces that begin or continue a character; 1 keepalive |
| `prefetch` | no GEMM reads a buffer with other weights; no prefetch is left behind | 3 layers, the middle one with attention; trunk, MTP and trunk pass |
| `lookup` | the answer is the target's; drafts repeat an earlier text; values follow their key; a value never grows back | 2 tokens, keys and values of 2, all prompts of 6, 3 target models, 18 tokens, 2 buckets that collide |
| `algorithms` | the pure functions compute what they have to | below |
| `overrun` | violation: the context is not checked (below) | 2 requests, 1 slot, context 5 |
| `frame` | violation: the Job may be gone (below) | 2 requests, 2 slots |

Bounds. `MCGreedy` ends every sequence at length 4 and distinguishes prompts by
their first token, so that a mixed-up slot shows; `MaxTokens` 2, 4 and 1 make
the limit fall inside and outside accepted drafts. Two slots are enough for
sharing, three for the draftless rounds of Flash-Next. The margin
(`Margin`, 8 in the code) is scaled to 2 and the context to 8. A client
stalls at most once (`client` goes from reading to stalled to resumed), the only
bound on behaviour. In `slots` three positions with blocks of two let a
rejected draft complete a block, and three rows with two per slot
(`MaxRun`) let a partial accept start at a row other than 0; tokens and slots are
symmetric. `LiveState`, the view of that run, hides buffers that are overwritten
before they are read.

In `drafts` a prompt of 6 in chunks of 5 gives Flash-Next two chunks and so a
`hprev_` that is handed on, and the 27B one GEMM pass and one GEMV pass
(`Short` 4 stands for 16); three requests over three slots let one start while another
decodes, end, and leave its rows to the next. Slots are symmetric.

In `response` the pieces of the tokens are a whole character, one with the lead
byte of a three-byte character behind it, the lead byte of one of four bytes, and
one or two continuation bytes, so that a character comes in up to four tokens,
with a tag in between; `MaxIds` bounds the tokens and `MaxAlive` the keepalives.

In `prefetch` three layers give each buffer several fillings and all
hand-overs between the two kinds of layer; the host stops for the
streams only at the end of a trunk pass, so it is a whole pass ahead.

In `lookup` 18 tokens are enough for a key to be seen, to fail, to be shortened
and to be passed over; the target models repeat with period 2, 3 or 4 and slip
now and then, so that drafts are right, wrong at once and wrong later.

In `algorithms`, `KernelReadsTheReference` takes rows of one and two blocks of 256
weights in each of the types both sides know, and of `Q5_0`, for which the comment in front of
`repack_row_q5_0` is the reference. The run also reaches every text of up to 5 of 10 characters (each class of the
regular expression), every table of up to 3 merges with every chunk of up to 6
atoms, every text of up to 6 signs with overlapping special tokens, code points on
both sides of every change of length, conversations of up to 4 messages of every
role, assistant answers with up to two calls, 8 slots over 3 experts and the
shared one in tiles of 2, and files of up to 4 tensors in one or two shards,
each of which names one of two alignments or none, read in pieces; and, as inputs of `JsonText`, documents of two levels with
strings of up to two bytes, among them quotes, backslashes, control characters and
UTF-8, and code points on both sides of every change of length and of the need for
a surrogate pair.

Fairness. In `live`: the scheduler thread, the two steps of a handler, and the
end of a stall. The first two are operating-system threads that only wait on
conditions modelled here. The last is not the code's doing: `send` has no
timeout (`front/http.cpp:14`), so a client that never reads again stops the
scheduler and with it every request; liveness is shown under the
assumption that TCP or the client ends the stall. New requests are not forced to
come, clients are not forced to leave. In `response`: the connection's thread and
the scheduler's go on, and the read of a client that left ends. A client that
stays and says nothing may keep its thread: `recv` has no timeout either.

`CHECK_DEADLOCK` stays on where the system may go on for ever or has a state it
rests in: `Quiescent` (every request answered or refused, or the process down),
`Done` in `prefetch`, a closed connection in `response`, a backend between two rounds in
`drafts`. It is off in `algorithms`,
whose inputs stop growing, and in `lookup`, whose loop ends with the text.

## Findings

* `overrun`: `generate` checks that the prompt leaves 8 positions, nothing
  limits the answer. At the end of the context the engine throws, and nothing
  in the scheduler thread catches: the process terminates with all requests.
* `frame`: `done` is published before the scheduler's last uses of the `Job`
  (`notify_all` at line 149, `j->slot` at 206), which lives in the frame of the
  waiting `generate`. With memory reuse (`FrameReuse = TRUE`) the slot read is
  arbitrary. The other runs and the proofs set `FrameReuse = FALSE`: they show
  that the scheduler is right apart from this.

Noticed while modelling, without a run of their own:

* A round without drafts writes no row of Flash-Next's draft cache at the position it
  starts from (`serve.cpp:60`, catch-up from the next one on): `DraftCacheExact` has to
  except those positions. The drafts get worse, the answers stay exact.
* `chat.cpp:93` says numbers, objects and booleans are parsed and the rest is a
  string; `js::parse` ignores what follows a number, so `12 apples` becomes 12, and a string
  argument that looks like JSON changes its type. A parameter name that is cut off takes the
  whole body as its value (lines 90 to 91).
* `tokenizer.cpp:67` gives `\s*[\r\n]+`; lines 95 to 98 stop at the first group of line
  breaks where the expression takes the last.
* The deltas of a stream never carry `role` (`serve.cpp:306`, 310); reasoning that the model
  opens itself is not in the plain response.
* `ngram_map`: an occurrence may be counted twice (`stat_idx`), the statistics go only up to the
  match although line 55 says every earlier occurrence, drafts copy from the match and not from
  the value counted most (`ngram_map.h:2` to 5), the "lowest index" of line 43 meets loops that run
  downwards, and a short draft asked for by the driver shortens a value for good.
* `GGUF::open_one` looks `general.alignment` up in the metadata of all shards read so far
  (`gguf.cpp:104`, 115 to 117). In the GGUF format the alignment is a file's own, and a file that names
  none has 32. A shard that names none behind one that names another is therefore read from
  the wrong places, whenever its header ends where the two alignments differ. No text of the
  repository says which of the two is meant. In `WeightsInPlace` files are written by
  the rule of the format, the shards that come out misplaced are excepted by name (`CarriedOver`), and all others
  are checked: both name one, the first or none does, or only the first and the places agree.
* `qwen35.h:57` speaks of T above max_T, the code compares with MAXR; `http.h:1` says one
  request at a time, `http.cpp:34` starts a thread per connection; a `Content-Length` that is no
  number throws outside of the handler's try (`http.cpp:42`).

## Proofs

Every invariant below was checked by TLC before it was proved. Each proof has one lemma
per action or group of actions, and within it a step for each conjunct the action can
disturb.

### The serving loop

`SchedulerProofs` holds for every number of slots and requests,
every model, every prompt and token limit and all drafts. They rest on
`SchedulerAssumption`, and each theorem names `FrameReuse = FALSE` as its hypothesis:
that a `Job` outlives the scheduler's last read of it. The run `frame` shows that the
code does not see to that; with memory reuse none of these theorems is true.

* `SlotsNeverShared`: `Spec => []SlotAccounting`. Alone it is not inductive: the
  strengthening `SlotInv` adds that a queued job is neither active nor queued
  twice, that the handler of an active job has queued it, and that the jobs of
  `still` are active ones before `q` in the list, so that `Release` frees exactly
  the slots of the others.
* `FreedSlotsAreClean`: `Spec => []FreeSlotsClean`. `CleanInv` adds that a
  finished job's slot has been reset and stays untouched until it is released.
* `PassesAreAccepted`: `Spec => []EveryPassAccepted`. `PassInv` says which slots
  may have waiting rows at each step of a round: those of the jobs from `q` on.
* `TypesHold`, `EngineStaysInStep`, `AnswersAreGreedy`, `AnswersEndTruthfully`:
  `Spec => []TypeOK`, `[]EngineInStep`, `[]GreedyExact`, `[]TruthfulFinish`. None of the
  last three is inductive: a token is given to a client several steps after the pass it comes
  from, while the engine's sequence changes at once in `Advance`. `StepInv` is
  `SlotInv`, `CleanInv`, `TypeOK` and `AnswerInv`, whose parts say what is true of each job
  at each step: `JobsInv` ties the context a client has seen to
  the sequence of its slot and the finish reason to the tokens; `QueueInv` says that a
  queued job is fresh; `BetweenInv` what the
  engine holds for active jobs outside of a round; `RoundInv` which rows of the pass are the
  row of which job after which of its tokens (`Row`); `CurrentInv` how far the job in turn
  has come, so that each token emitted is the row behind the tokens
  the client has. That job `q` finds its rows at `r0` whatever the jobs before it drafted is
  about `FlattenSeq` (see Concatenations).
* `SchedulerImplementsService`: `Spec => ImplementsService`. Each step of the scheduler is, under
  `StepInv`, a step of the abstract service with the job it serves, or a stutter: `Enqueue`
  takes a request (`Take`), an emitted token is the one the service may say next (`Say`), the
  finish of a job is the end of its answer for a reason the service allows (`End`), and all
  others change nothing a client sees.

### The engine's slots

`SlotEngineProofs` proves for every number of slots, positions, rows and drafts
and every block size of the indexer, under `SlotEngineAssumption`:

* `EngineTypes`, `CachesAlwaysBelong`, `RowsAreExact`: `Spec => []TypeOK`,
  `[]CachesBelong`, `[]LogitsExact`. `CachesBelong` says nothing of the rows of a pass
  that waits, which accept then declares committed. `EngineInv` speaks of what a
  slot holds (`Held`: the committed tokens and the waiting ones): the caches belong to
  that, the spare buffers hold it already, and the saved inputs of its rows
  are its tokens. What accept keeps is a prefix, and the keys of a sequence
  are those of every prefix of it (`PrefixOwns`). `BlockBounds` is the arithmetic
  of blocks: a complete block of a prefix is one of the whole.
* `CommitsWhatWasAccepted`: `Spec => ImplementsTokenEngine`. Each action is shown to be
  the one of `TokenEngine` with its name, over the committed buffer and the waiting
  rows; for a partial accept that is the replay from the saved inputs.

### The connection

`HttpResponseProofs` proves for any set of tokens, any bytes in them, and any bounds:

* `OneResponseLeaves`, `WhoStaysIsAnswered`: `Spec => []OneResponse`, `[]Answered`. What is
  on the wire does not say what the threads may still write: `WireInv` ties it to
  `streaming` and `done`, `FlowInv` says at each step of the connection's thread which of
  them are set and how far the job is, so that the scheduler's deltas fall
  between the head and the end.
* `TextIsTheTokens`: `Spec => []TextOfTokens`. `TextInv` says that what was told and what is
  held back together are the bytes of the tokens, with nothing lost, doubled or moved;
  that the bytes held back are the beginning of one character and no whole one; that
  while the job runs, if the tokens spell UTF-8, every told byte is of a character told whole,
  under the mark its last byte came with (`ToldWhole`); and that the thinking flag is the one the tags before
  leave (`FlagAfter`). `BoundaryCuts` is the fact about `Boundary` behind it: it
  never cuts a character, and keeps back no character that is complete.
* `TypesOfResponse`: `Spec => []TypeOK`, with `PlaceInv` for the steps of the threads.

### The prefetch

`PrefetchProofs` proves for any layers, any of them with attention, and any passes:

* `PrefetchTypes`, `PrefetchAlwaysUsed`: `Spec => []TypeOK`, `[]PrefetchIsUsed`. `Ahead`
  says what `next_pf_` and `next2_pf_` hold at each stage of a layer; with it what a
  call prefetches is what the next call wants.
* `GemmsReadTheirWeights`: `Spec => []GemmReadsItsWeights`. The operations in a queue do not say
  which filling they are about, and the host may be a pass ahead. `StreamInv` asserts
  that a numbering exists: the n-th prefetch fills buffer `n % 2` for the n-th GEMM on prefetched
  weights; it waits until GEMM `n - 2` is recorded, that GEMM waits until prefetch `n`
  is recorded. The two streams therefore cannot be at the same buffer at once.

### The drafts

`DraftCachesProofs` proves for both backends and any slots, prompts, chunk sizes, drafts and
positions, under `DraftAssumption` (a round of any slot's drafts fits in the rows that can be
replayed, which is why no round is a GEMM pass):

* `TypesOfDrafts`, `TargetKeepsStep`: `Spec => []TypeOK`, `[]TargetInStep`. What accept commits is
  written by the pass before it, or replayed from the inputs that pass saved, after other slots
  have been accepted. `Waits` says what the right rows of that pass left for
  a slot in `left`: the states in `hrow`, the tokens in `saved`, and the whole pass in the spare buffer
  when all drafts were right. `RunCounts` is the fact about the
  fold: over consecutive tokens of a request a state goes on by their number.
* `DraftCacheIsExact`, `DraftsStartExact`: `Spec => []DraftCacheExact`, `[]DraftStartsExact`. The
  catch-up of Flash-Next begins one position behind the one the slot goes on from, so that row is
  right only because the first draft wrote it from the right h: `Anchored`. `HInv` says whose the
  pending h are, and that `hprev_`, which all slots share, is the one of the prompt being read.

### The prompt lookup

`PromptLookupProofs` proves for any sizes of key and value, any counts and limits, any hash, any
prompts and any target model, under `LookupAssumption` (the sizes are positive, a prompt is a
text and not empty, an n-gram has a bucket). Each theorem names one more hypothesis,
`GreedyTyped`: a prompt, however it is continued, is answered by a token. It is no ASSUME because it
speaks of all texts, which TLC cannot enumerate; the target models of the run meet it.

* `LookupIsExact`: `Spec => []SpecExact`. Whatever was drafted, by the map or by the draft model,
  and however much of it the target agreed to, the answer is what the target says one token at a time,
  the history of the map is the text the engine has accepted, and the next pass goes on where that ends.
  What the target says in a round is taken from the engine's text up to the place it is given (`Text`),
  so that a wrong place shows as a wrong token.
  `SpecGoesOn` carries it over a round: of the drafts only those are kept that the
  target said itself, and the token behind them is the target's.
* `DraftsRepeatTheText`, `ValuesFollowKeys`: `Spec => []DraftRepeats`, `[]ValuesFollowTheirKey`. What
  the map keeps are positions: in the buckets, as the place of a key, as the place of a
  value, and up to where it has hashed and counted. `MapOK` says what each of them means in the
  text: behind every bucket, key and mark lies a whole value (`Reaches`), the values in use of a key
  follow an occurrence of that key and differ from each other (`Following`), and two keys differ
  (`KeysOK`). Alone that is not inductive: a value of a key is found from
  the first place on, and a free place ends the search, so a value behind
  a free place could be added a second time. `Following` therefore says that the places of a key
  are filled from the first on. Nothing in `MapOK` depends on what comes after a position, so
  it stays true when the text goes on (`GoesOn`); of the hash only that it is one is used.
* `ValuesNeverGrow`: `Spec => NeverLonger`. A round of the map sets the value it drafted from to what was
  accepted, which is at most the draft, which is at most what the value allowed (`AcceptedOK`); a
  round of the other model leaves all of them alone.
* `TypeCorrect`: `Spec => []TypeOK`, from `MapOK` and the positions being inside the text.

### Code points and tiles

`AlgorithmsProofs` proves two of the pure algorithms for every input. `InputInv` says what the
inputs are: any of the code points, any sequence of routed experts. The rest is about the
operators, each of them a fold.

* `CodePointsRoundTrip`: `Spec => []CodePointsSurvive`, with any part of Unicode for `CodePoints`
  (`AlgorithmsAssumption`). The values `decode_cp` goes through are those of `Decoded`, one per
  byte, also of a sequence that is cut off (`StopsAtEnd`); `Bytes2`, `Bytes3` and `Bytes4` are the arithmetic of taking a number apart and putting it
  together. The symbols of the bytes differ because a byte that does not print is counted on from
  256, by the bytes below it that do not print either (`ByteCpDiffers`).
* `TilesCover`: `Spec => []TilesCoverTheSlots`, for any number of rows, routed experts and slots in a
  row, any width of a tile and any routing, under `MoeAssumption`. What the sort leaves is modelled as an
  insertion of each slot in its place, so that the first m slots are `Sorted`, each at one position and
  no expert behind a higher one. The tiles are cut from the first k positions (`CutUp`): the tiles of
  a list hold the positions of its kind, each of them once, and a list never holds one of the
  other kind. That they fit the device buffer is no consequence of that. `Fits` is the
  strengthening: t tiles up to expert e take, but for e + 2 of them, `MaxCols` positions
  each, because only the last tile of an expert may be less than full.

### Concatenations

`FlattenSeq`, `VerifyRows`, the `Run` of `DraftCaches` and all of `MoeTiles` are folds.
`SequenceFacts` proves what the proofs need of the first two, and that a fold is a function of how
many elements were taken, each value made of the one before (`FoldExists`), `DraftCachesProofs`
what they need of `Run` and `PromptLookupProofs` of the fold over the occurrences of a key
(`TalliesStep`), by the least
number the claim would fail for (`LeastNat`, from the well-foundedness of `<`), as the induction
rule itself takes an operator as its parameter, which the installed provers cannot instantiate.

### What is only model-checked

* Liveness: `Answered` of `Scheduler`, `ThreadReturns`. It is out of the prover's reach.
* The other pure functions: what the pre-tokenizer, the merge loop, the special tokens, the chat
  template, the loader and the weight formats compute is compared with a reference over
  bounded inputs. JSON is recursive, which the prover cannot take.

## Not modelled

* Arithmetic: the kernels, offsets, code books and rounding of the number formats (which bits
  a weight is made of is in `WeightFormats`), sampling distributions, the QSA
  top-k, the n-gram hash of the PLE rows. That a row's logits do not depend on how many
  rows share the pass is taken as given by `SlotEngine`.
* Types the reference dequantiser does not know (`Q4_0`, `Q5_0` on the 27B, `Q2_K`):
  `dequant_row` fills them with NaN. Of the kernels only the dequantising one of `gemm.hip` is compared
  with the reference; the GEMV kernels' own index arithmetic is not.
* How JSON prints and reads a number, what `\u` makes of four characters that are no
  digits, and text behind the value, which `parse` does not look at.
* Text without a protocol: HTTP header parsing and its size limits, socket set-up, defaults of
  request fields, metadata values of a GGUF, page-cache advice.
* `NgramMap::begin` after the first call: it has no caller.
* The KV cache of the 27B's target: written by position like Flash-Next's in `SlotEngine`, and
  without pooled keys.
* `bench/hrx/launch_hrx.c`, the measurement drivers other than `dflash27b` and the start
  scripts: they run the engine modelled here and keep no state of their own.

## Plan

1. `QsaSelect`: which blocks a row selects when it has fewer than the top-k.
