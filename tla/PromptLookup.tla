---------------------------- MODULE PromptLookup ----------------------------
(***************************************************************************)
(* Prompt lookup: the n-gram map (engine/src/ngram_map.cpp) that drafts    *)
(* from the text so far, in the loop of the one program that uses it       *)
(* (engine/bench/dflash27b.cpp), with the draft model behind it and the    *)
(* target model that verifies, whose engine goes on from the place the     *)
(* loop gives it.                                                          *)
(*                                                                         *)
(* Positions in the history count from 0 as in the code, where 0 also      *)
(* means none.  begin is called once, for the prompt; what it drops when   *)
(* called again for a shorter one is not modelled.                         *)
(***************************************************************************)
EXTENDS Integers, Sequences, FiniteSets, SequencesExt, FiniteSetsExt

CONSTANTS
    Token,
    N, M,           \* tokens of a key and of a value (size_key, size_value)
    MinHits,
    MaxValues,      \* values kept for one key
    MaxCount,       \* where counters stay
    Buckets,        \* HASH_SIZE
    Hash(_),        \* bucket of an n-gram
    NDraft,         \* drafts a round verifies at most
    NGen,           \* tokens to generate
    Prompts, Targets,
    Greedy(_, _)    \* Greedy(target, text): the next token of a target model

ASSUME LookupAssumption ==
    /\ {N, M, MinHits, MaxValues, MaxCount, NDraft, NGen} \subseteq Nat \ {0}
    /\ \A p \in Prompts : p \in Seq(Token) /\ p # << >>
    /\ \A gram \in [1 .. N -> Token] : Hash(gram) \in Buckets

VARIABLES
    target, prompt,     \* which model, which prompt
    spec,               \* tokens generated
    history, idLast,    \* prompt and tokens so far without the last, and the last
    engine, pos,        \* tokens the target's engine has accepted, and the place of the next pass
    keyMap, mapLast,    \* key_map_, key_map_last_idx_
    keys,               \* keys_: [keyIdx, statIdx, keyNum, values]
    last,               \* last_draft_created_, last_key_, last_value_
    looked              \* the map's answer of this round: [key, at, out]

mapVars == <<keyMap, mapLast, keys, last>>
vars == <<target, prompt, spec, history, idLast, engine, pos, mapVars, looked>>

-----------------------------------------------------------------------------
(* The map                                                                 *)

MatchAt(inp, j, key) == \A i \in 1 .. Len(key) : inp[j + i] = key[i]
Gram(inp, j, n) == SubSeq(inp, j + 1, j + n)

\* The first position whose value would reach into the key that is looked for.
High(inp) == Len(inp) - N - M - 1

\* Positions not hashed yet: those in the prompt, then those after it.
Unhashed(inp) ==
    <<{j \in mapLast + 1 .. Len(prompt) - N - M - 1 : Len(prompt) > N + M + 1},
      {j \in mapLast + 1 .. High(inp) : j > Len(prompt)}>>

\* Faulty variant: a bucket is taken for its n-gram.
AnyInBucket(inp, j, key) == TRUE

\* The position in the bucket is that of the key and not of another n-gram.
InBucket(inp, j, key) == MatchAt(inp, j, key)

\* An earlier position of the key: by its bucket, else the last one that is not
\* hashed yet, in the prompt before the answer.
MatchPos(inp, key) ==
    LET hit == keyMap[Hash(key)]
        In(S) == {j \in S : MatchAt(inp, j, key)}
        found == In(Unhashed(inp)[1])
        later == In(Unhashed(inp)[2])
    IN  CASE hit # 0 /\ hit < High(inp) /\ InBucket(inp, hit, key) -> hit
          [] OTHER -> IF found # {} THEN Max(found) ELSE IF later # {} THEN Max(later) ELSE 0

\* The buckets after the positions not hashed yet went into empty ones, from the
\* last position down.
Hashed(inp) ==
    [b \in Buckets |->
        LET In(S) == {j \in S : Hash(Gram(inp, j, N)) = b}
            found == In(Unhashed(inp)[1])
            later == In(Unhashed(inp)[2])
        IN  IF keyMap[b] # 0 THEN keyMap[b]
            ELSE IF found # {} THEN Max(found) ELSE IF later # {} THEN Max(later) ELSE 0]

NewKey(at) ==
    [keyIdx |-> at, statIdx |-> 0, keyNum |-> 0,
     values |-> [v \in 1 .. MaxValues |-> [idx |-> 0, num |-> 0, accepted |-> M]]]

Count(n) == Min({n + 1, MaxCount})

\* Faulty variant: every occurrence is a value of its own.
Unequal(inp, value, vb) == value.idx = 0

\* A value counts the occurrence at vb: it is free, or holds the same tokens.
Counts(inp, value, vb) == value.idx = 0 \/ Gram(inp, value.idx, M) = Gram(inp, vb, M)

\* The values after one more occurrence of the key, at i.
Counted(inp, values, i) ==
    LET vb == i + N
        v == SelectInSeq(values, LAMBDA x : Counts(inp, x, vb))
    IN  IF v = 0 THEN values
        ELSE [values EXCEPT ![v] = [idx |-> IF @.idx = 0 THEN vb ELSE @.idx,
                                    num |-> Count(IF @.idx = 0 THEN 0 ELSE @.num),
                                    accepted |-> IF @.idx = 0 THEN M ELSE @.accepted]]

\* Values after the occurrences from the one last counted up to the match.
Statistics(inp, key, cur, at) ==
    FoldLeft(LAMBDA values, i : IF MatchAt(inp, i, key) THEN Counted(inp, values, i) ELSE values,
             cur.values, [k \in 1 .. at - cur.statIdx + 1 |-> cur.statIdx + k - 1])

\* The value that was counted most, the first of those.
Dominant(values) ==
    CHOOSE v \in DOMAIN values :
        \A w \in DOMAIN values : values[w].num < values[v].num \/ (values[w].num = values[v].num /\ v <= w)

Others(values) ==
    FoldLeft(LAMBDA sum, v : IF v = Dominant(values) THEN sum ELSE sum + values[v].num,
             0, [v \in DOMAIN values |-> v])

\* draft: the map after it, and the draft, which may be empty.
Lookup(inp, sampled) ==
    LET key == SubSeq(inp, Len(inp) - N + 2, Len(inp)) \o <<sampled>>
        none == [keys |-> keys, keyMap |-> keyMap, mapLast |-> mapLast,
                 last |-> [created |-> FALSE, key |-> 1, value |-> 1], key |-> key, at |-> 0, out |-> << >>]
        at == MatchPos(inp, key)
        hashed == [none EXCEPT !.keyMap = Hashed(inp), !.mapLast = Max({High(inp), mapLast}), !.at = at]
        known == SelectInSeq(keys, LAMBDA k : MatchAt(inp, k.keyIdx, key))
        ko == IF known = 0 THEN Len(keys) + 1 ELSE known
        all == IF known = 0 THEN Append(keys, NewKey(at)) ELSE keys
        hits == [all[ko] EXCEPT !.keyNum = Count(@)]
        counted == [hits EXCEPT !.statIdx = at, !.values = Statistics(inp, key, hits, at)]
        best == Dominant(counted.values)
        rest == Others(counted.values)
        nd == Min({M, counted.values[best].accepted})
    IN  IF Len(inp) < 2 * N + M THEN none
        ELSE IF at = 0 THEN hashed
        ELSE IF hits.keyNum < MinHits THEN [hashed EXCEPT !.keys = [all EXCEPT ![ko] = hits]]
        ELSE IF rest > 0 /\ counted.values[best].num < 2 * rest
             THEN [hashed EXCEPT !.keys = [all EXCEPT ![ko] = counted]]
        ELSE [hashed EXCEPT !.keys = [all EXCEPT ![ko] = counted],
                            !.last = [created |-> TRUE, key |-> ko, value |-> best],
                            !.out = Gram(inp, at + N, nd)]

\* Faulty variant: the token after the accepted ones counts as well.
AcceptedAndBonus(map, n) ==
    IF map.last.created THEN [map.keys EXCEPT ![map.last.key].values[map.last.value].accepted = n + 1] ELSE map.keys

\* accept: the value drafted from is shortened to what was accepted of it.
Accepted(map, n) ==
    IF map.last.created THEN [map.keys EXCEPT ![map.last.key].values[map.last.value].accepted = n] ELSE map.keys

-----------------------------------------------------------------------------
(* The loop                                                                *)

\* Faulty variant: accepted drafts do not go into the history.
HistoryOfLast(drafts, mm) == Append(history, idLast)

HistoryAfter(drafts, mm) == Append(history, idLast) \o SubSeq(drafts, 1, mm)

\* The text a pass goes on from: attention ends at the place it is given.
Text == Append(SubSeq(engine, 1, pos), idLast)

\* Verify a draft: how many of its tokens the target agrees with.
Agreed(drafts) ==
    Max({n \in 0 .. Len(drafts) :
            \A i \in 1 .. n : Greedy(target, Text \o SubSeq(drafts, 1, i - 1)) = drafts[i]})

\* The rows of the pass that are accepted: the last token's and the drafts'.
EngineAfter(drafts, mm) == engine \o SubSeq(<<idLast>> \o drafts, 1, mm + 1)

\* Faulty variant: accept is called whoever drafted.
KeysOfAnyRound(map, fromMap, mm) == Accepted(map, mm)

\* Only a draft of the map's is accepted from it.
KeysAfter(map, fromMap, mm) == IF fromMap THEN Accepted(map, mm) ELSE map.keys

\* Pre-filling the prompt gives the first token; begin resets the map.
Init ==
    /\ target \in Targets
    /\ prompt \in Prompts
    /\ history = prompt
    /\ idLast = Greedy(target, prompt)
    /\ spec = <<idLast>>
    /\ engine = prompt
    /\ pos = Len(prompt)
    /\ keyMap = [b \in Buckets |-> 0]
    /\ mapLast = 0
    /\ keys = << >>
    /\ last = [created |-> FALSE, key |-> 1, value |-> 1]
    /\ looked = [key |-> << >>, at |-> 0, out |-> << >>]

\* What follows the draft in a round: verify, accept, record, feed back.
Verify(map, drafts, fromMap) ==
    LET mm == Agreed(drafts)
        bonus == Greedy(target, Text \o SubSeq(drafts, 1, mm))
    IN  /\ history' = HistoryAfter(drafts, mm)
        /\ spec' = spec \o SubSeq(drafts, 1, mm) \o <<bonus>>
        /\ idLast' = bonus
        /\ engine' = EngineAfter(drafts, mm)
        /\ pos' = pos + mm + 1
        /\ keys' = KeysAfter(map, fromMap, mm)
        /\ keyMap' = map.keyMap
        /\ mapLast' = map.mapLast
        /\ last' = map.last
        /\ looked' = [key |-> map.key, at |-> map.at, out |-> map.out]
        /\ UNCHANGED <<target, prompt>>

\* The map drafts first, the draft model when the map has nothing; its drafts may
\* be anything.
RoundOfMap ==
    LET map == Lookup(history, idLast) IN
    /\ Len(spec) < NGen
    /\ map.out # << >>
    /\ Verify(map, SubSeq(map.out, 1, Min({NDraft, Len(map.out)})), TRUE)

RoundOfModel ==
    LET map == Lookup(history, idLast) IN
    /\ Len(spec) < NGen
    /\ map.out = << >>
    /\ \E drafts \in [1 .. NDraft -> Token] : Verify(map, drafts, FALSE)

Next == RoundOfMap \/ RoundOfModel

Spec == Init /\ [][Next]_vars

-----------------------------------------------------------------------------
(* Properties                                                              *)

TypeOK ==
    /\ target \in Targets /\ prompt \in Prompts
    /\ {spec, history, engine} \subseteq Seq(Token)
    /\ pos \in Nat
    /\ idLast \in Token
    /\ keyMap \in [Buckets -> 0 .. Len(history)]
    /\ mapLast \in 0 .. Len(history)
    /\ \A i \in DOMAIN keys :
          /\ keys[i].keyIdx \in 1 .. Len(history)
          /\ keys[i].statIdx \in 0 .. Len(history)
          /\ keys[i].keyNum \in 1 .. MaxCount
          /\ keys[i].values \in
                [1 .. MaxValues -> [idx : 0 .. Len(history), num : 0 .. MaxCount, accepted : 0 .. M]]
    /\ last.created => last.key \in DOMAIN keys /\ last.value \in 1 .. MaxValues

\* Whoever drafts, the tokens are those of plain greedy decoding; the history the
\* map reads is the text the engine has accepted, and the next pass continues where
\* that ends (dflash27b.cpp:122-138).
SpecExact ==
    /\ engine = history /\ pos = Len(history)
    /\ prompt \o spec = Append(history, idLast)
    /\ \A i \in DOMAIN spec : spec[i] = Greedy(target, prompt \o SubSeq(spec, 1, i - 1))

\* A draft is what followed an earlier occurrence of the key, whole in the history
\* it was looked up in, whatever shares the key's bucket (ngram_map.cpp:36-42, 72).
DraftRepeats ==
    looked.out # << >> =>
        /\ Gram(history, looked.at, N) = looked.key
        /\ Gram(history, looked.at + N, Len(looked.out)) = looked.out
        /\ \E end \in looked.at + N + Len(looked.out) + 1 .. Len(history) :
              Gram(history, end - N, N) = looked.key

\* The keys are different n-grams; the values of a key follow occurrences of it
\* that lie whole in the history, and are different (ngram_map.cpp:50-66): what
\* the rule of the dominant value counts.
ValuesFollowTheirKey ==
    LET KeyGram(i) == Gram(history, keys[i].keyIdx, N)
        Live(i) == {v \in 1 .. MaxValues : keys[i].values[v].idx # 0}
    IN  \A i \in DOMAIN keys :
            /\ \A j \in DOMAIN keys \ {i} : KeyGram(i) # KeyGram(j)
            /\ \A v \in Live(i) :
                  LET idx == keys[i].values[v].idx IN
                  /\ idx + M <= Len(history)
                  /\ Gram(history, idx - N, N) = KeyGram(i)
                  /\ \A w \in Live(i) \ {v} :
                        Gram(history, keys[i].values[w].idx, M) # Gram(history, idx, M)

\* A value that was cut short never drafts more again (ngram_map.cpp:71, 77-80):
\* what is accepted of a draft is at most the draft.
NeverLonger ==
    [][\A i \in DOMAIN keys : \A v \in 1 .. MaxValues :
          keys'[i].values[v].accepted <= keys[i].values[v].accepted]_vars
=============================================================================
