------------------------- MODULE DraftCachesProofs -------------------------
(***************************************************************************)
(* DraftInv is inductive in DraftCaches: whatever is drafted, rejected and *)
(* accepted for other slots in between, a slot's committed state and its   *)
(* draft cache are those of its own request.  The strengthening says what  *)
(* is true inside a round: what the right rows of the last pass left for   *)
(* the slots that still wait for accept (Waits), and that the first draft  *)
(* wrote the row accept does not (Anchored).                               *)
(***************************************************************************)
EXTENDS DraftCaches, SequenceFacts

\* The state after the first n tokens of request j.
After(j, n) == [req |-> j, n |-> n]

\* The tokens a request has.
Known == {Tok(j, p) : j \in Reqs, p \in Positions}

-----------------------------------------------------------------------------
(* The fold over tokens.                                                   *)

\* f has the states between the tokens.
Between(st, m, xs, f) ==
    f[0] = st /\ f[m] = Run(st, xs) /\ \A i \in 1 .. m : f[i] = Step(f[i - 1], xs[i])

\* Run takes one token after the other.
LEMMA RunSteps ==
    ASSUME NEW st, NEW m \in Nat, NEW xs, DOMAIN xs = 1 .. m
    PROVE  \E f : Between(st, m, xs, f)
<1> DEFINE Body(g, S) == IF S = {} THEN st ELSE Step(g[S \ {Max(S)}], xs[Max(S)])
           Folds(g, n) == g = [S \in SUBSET (1 .. n) |-> Body(g, S)]
           fold == CHOOSE g : g = [S \in SUBSET (DOMAIN xs) |-> Body(g, S)]
<1>1. Run(st, xs) = fold[DOMAIN xs]
    BY Zenon DEF Run, FoldLeft, MapThenFoldSet
<1>2. \A n \in 0 .. m : \E g : Folds(g, n)
    <2> DEFINE T == {n \in 0 .. m : ~ \E g : Folds(g, n)}
    <2> SUFFICES ASSUME T # {}
                 PROVE  FALSE
        BY Zenon
    <2>1. T \subseteq Nat
        OBVIOUS
    <2> HIDE DEF T, Folds
    <2>2. PICK n \in T : \A k \in T : n <= k
        BY <2>1, LeastNat, Zenon
    <2>3. n \in 0 .. m /\ ~ \E g : Folds(g, n)
        BY DEF T
    <2>4. n # 0
        <3> DEFINE g == [S \in SUBSET (1 .. 0) |-> st]
        <3>1. Folds(g, 0)
            <4>1. \A S \in SUBSET (1 .. 0) : S = {}
                OBVIOUS
            <4>2. \A S \in SUBSET (1 .. 0) : Body(g, S) = st
                BY <4>1, Zenon
            <4> QED
                BY <4>2, Zenon DEF Folds
        <3> QED
            BY <2>3, <3>1
    <2>5. n - 1 \in 0 .. m /\ n - 1 \notin T
        BY <2>2, <2>3, <2>4
    <2>6. PICK g : Folds(g, n - 1)
        BY <2>5 DEF T
    <2> DEFINE h == [S \in SUBSET (1 .. n) |-> IF n \in S THEN Step(g[S \ {n}], xs[n]) ELSE g[S]]
    <2>7. ASSUME NEW S \in SUBSET (1 .. n - 1)
          PROVE  h[S] = g[S]
        <3>1. S \in SUBSET (1 .. n) /\ n \notin S
            BY <2>3, <2>4
        <3> QED
            BY <3>1, Zenon
    <2>8. ASSUME NEW S \in SUBSET (1 .. n)
          PROVE  h[S] = Body(h, S)
        <3>1. CASE n \in S
            <4>0. n \in Nat /\ S \subseteq 1 .. n
                BY <2>3
            <4>1. Max(S) = n
                BY <3>1, <4>0, MaxTo, Zenon
            <4>2. S \ {n} \in SUBSET (1 .. n - 1)
                BY <2>3
            <4>3. h[S \ {n}] = g[S \ {n}]
                BY <2>7, <4>2, Zenon
            <4>4. h[S] = Step(g[S \ {n}], xs[n])
                BY <3>1, Zenon
            <4> QED
                BY <3>1, <4>1, <4>3, <4>4, Zenon
        <3>2. CASE n \notin S
            <4>0. S \in SUBSET (1 .. n - 1)
                BY <2>3, <3>2
            <4>1. S \in SUBSET (1 .. n - 1) /\ S \ {Max(S)} \in SUBSET (1 .. n - 1)
                BY <4>0, Zenon
            <4>2. h[S] = g[S] /\ h[S \ {Max(S)}] = g[S \ {Max(S)}]
                BY <2>7, <4>1, Zenon
            <4>3. g[S] = Body(g, S)
                BY <2>6, <4>1, Zenon DEF Folds
            <4> QED
                BY <4>2, <4>3, Zenon
        <3> QED
            BY <3>1, <3>2
    <2>9. Folds(h, n)
        <3>1. h = [S \in SUBSET (1 .. n) |-> h[S]]
            BY Zenon
        <3>2. [S \in SUBSET (1 .. n) |-> h[S]] = [S \in SUBSET (1 .. n) |-> Body(h, S)]
            BY <2>8, Zenon
        <3> HIDE DEF h
        <3> QED
            BY <3>1, <3>2, Zenon DEF Folds
    <2> QED
        BY <2>3, <2>9
<1>3. fold = [S \in SUBSET (1 .. m) |-> Body(fold, S)]
    <2>1. \E g : g = [S \in SUBSET (1 .. m) |-> Body(g, S)]
        <3>1. m \in 0 .. m
            OBVIOUS
        <3> QED
            BY <1>2, <3>1, Zenon
    <2> QED
        BY <2>1, Zenon
<1> HIDE DEF fold
<1>4. \A S \in SUBSET (1 .. m) : fold[S] = Body(fold, S)
    BY <1>3, Zenon
<1> DEFINE f == [i \in 0 .. m |-> fold[1 .. i]]
<1>5. f[0] = st
    <2>1. (1 .. 0) = {} /\ {} \in SUBSET (1 .. m) /\ 0 \in 0 .. m
        OBVIOUS
    <2>2. fold[{}] = st
        BY <1>4, <2>1, Zenon
    <2> QED
        BY <2>1, <2>2
<1>6. f[m] = Run(st, xs)
    BY <1>1
<1>7. ASSUME NEW i \in 1 .. m
      PROVE  f[i] = Step(f[i - 1], xs[i])
    <2>1. (1 .. i) \in SUBSET (1 .. m) /\ (1 .. i) # {} /\ (1 .. i) \ {i} = 1 .. i - 1 /\ Max(1 .. i) = i
        BY MaxTo
    <2>2. fold[1 .. i] = Step(fold[1 .. i - 1], xs[i])
        BY <1>4, <2>1, Zenon
    <2>3. i \in 0 .. m /\ i - 1 \in 0 .. m
        OBVIOUS
    <2> QED
        BY <2>2, <2>3, Zenon
<1> HIDE DEF f
<1> QED
    BY <1>5, <1>6, <1>7, Zenon DEF Between

\* The state of request j goes on with its next token.
LEMMA NextState ==
    ASSUME NEW j \in Reqs, NEW n \in Nat, NEW st, st = After(j, n) \/ (n = 0 /\ st = Clean)
    PROVE  Step(st, Tok(j, n)) = After(j, n + 1)
BY DraftAssumption DEF Step, Tok, After, Clean, Wrong, Reqs

\* st is where the tokens of j go on with number n, and xs are m tokens from there.
GoesOn(st, j, n, xs, m) ==
    /\ st = After(j, n) \/ (n = 0 /\ st = Clean)
    /\ DOMAIN xs = 1 .. m /\ \A i \in 1 .. m : xs[i] = Tok(j, n + i - 1)

\* Over consecutive tokens of one request the fold counts them.
LEMMA RunCounts ==
    ASSUME NEW j \in Reqs, NEW n \in Nat, NEW m \in Nat \ {0}, NEW st, NEW xs, GoesOn(st, j, n, xs, m)
    PROVE  Run(st, xs) = After(j, n + m)
<1>a. st = After(j, n) \/ (n = 0 /\ st = Clean)
    BY Zenon DEF GoesOn
<1>b. DOMAIN xs = 1 .. m /\ \A i \in 1 .. m : xs[i] = Tok(j, n + i - 1)
    BY Zenon DEF GoesOn
<1>0. PICK f : Between(st, m, xs, f)
    <2>1. m \in Nat /\ DOMAIN xs = 1 .. m
        BY <1>b
    <2> QED
        BY ONLY <2>1, RunSteps
<1>1. f[0] = st /\ f[m] = Run(st, xs) /\ \A i \in 1 .. m : f[i] = Step(f[i - 1], xs[i])
    BY <1>0, Zenon DEF Between
<1>2. \A i \in 1 .. m : f[i] = After(j, n + i)
    <2> DEFINE T == {i \in 1 .. m : f[i] # After(j, n + i)}
    <2> SUFFICES ASSUME T # {}
                 PROVE  FALSE
        OBVIOUS
    <2>1. T \subseteq Nat
        OBVIOUS
    <2> HIDE DEF T
    <2>2. PICK i \in T : \A k \in T : i <= k
        BY <2>1, LeastNat, Zenon
    <2>3. i \in 1 .. m /\ f[i] # After(j, n + i)
        BY DEF T
    <2>4. PICK p \in Nat : p = n + i - 1
        BY <2>3
    <2>5. f[i - 1] = After(j, p) \/ (p = 0 /\ f[i - 1] = Clean)
        <3>1. CASE i = 1
            BY <1>1, <1>a, <2>4, <3>1
        <3>2. CASE i # 1
            <4>1. i - 1 \in 1 .. m /\ i - 1 \notin T /\ n + (i - 1) = p
                BY <2>2, <2>3, <2>4, <3>2
            <4> QED
                BY <4>1 DEF T
        <3> QED
            BY <3>1, <3>2
    <2>6. xs[i] = Tok(j, p)
        BY <1>b, <2>3, <2>4
    <2>7. f[i] = After(j, p + 1)
        BY <1>1, <2>3, <2>5, <2>6, NextState
    <2> QED
        BY <2>3, <2>4, <2>7
<1> QED
    BY <1>1, <1>2

\* One token leads from a state to a state ...
LEMMA StepTyped ==
    ASSUME MaxCtx >= 1, NEW st \in State, NEW x \in Known \cup {Wrong}
    PROVE  Step(st, x) \in State
BY DraftAssumption DEF Step, State, Known, Tok, Wrong, Junk, Clean, Positions, Reqs

\* ... and so do several.
LEMMA RunTyped ==
    ASSUME MaxCtx >= 1, NEW st \in State, NEW m \in Nat, NEW xs, DOMAIN xs = 1 .. m,
           \A i \in 1 .. m : xs[i] \in Known \cup {Wrong}
    PROVE  Run(st, xs) \in State
<1>0. PICK f : Between(st, m, xs, f)
    <2>1. m \in Nat /\ DOMAIN xs = 1 .. m
        OBVIOUS
    <2> QED
        BY ONLY <2>1, RunSteps
<1>1. f[0] = st /\ f[m] = Run(st, xs) /\ \A i \in 1 .. m : f[i] = Step(f[i - 1], xs[i])
    BY <1>0, Zenon DEF Between
<1>2. \A i \in 0 .. m : f[i] \in State
    <2> DEFINE T == {i \in 0 .. m : f[i] \notin State}
    <2> SUFFICES ASSUME T # {}
                 PROVE  FALSE
        OBVIOUS
    <2>1. T \subseteq Nat
        OBVIOUS
    <2> HIDE DEF T
    <2>2. PICK i \in T : \A k \in T : i <= k
        BY <2>1, LeastNat, Zenon
    <2>3. i \in 0 .. m /\ f[i] \notin State
        BY DEF T
    <2>4. i # 0
        BY <1>1, <2>3
    <2>5. i - 1 \in 0 .. m /\ i - 1 \notin T /\ i \in 1 .. m
        BY <2>2, <2>3, <2>4
    <2>6. f[i - 1] \in State
        BY <2>5 DEF T
    <2> QED
        BY <1>1, <2>3, <2>5, <2>6, StepTyped
<1> QED
    BY <1>1, <1>2

\* No slot twice.
Distinct(q) == \A a, b \in DOMAIN q : q[a] = q[b] => a = b

\* Who is where: a slot is reading its prompt, in the rounds, or free and clean.
SlotsInv ==
    /\ active \in Seq(Slots) /\ left \in Seq(Slots) /\ Distinct(active) /\ Distinct(left)
    /\ Range(left) \subseteq Range(active)
    /\ \A s, t \in filling : s = t
    /\ left # << >> => filling = {}
    /\ \A s \in Slots : IF s \in filling THEN req[s] # 0 /\ pos[s] < plen /\ s \notin Range(active)
                        ELSE IF s \in Range(active) THEN req[s] # 0 /\ pos[s] >= 1
                        ELSE req[s] = 0 /\ pos[s] = 0

-----------------------------------------------------------------------------
(* The passes over a prompt.                                               *)

\* Min of two integers.
LEMMA MinOfTwo ==
    ASSUME NEW a \in Int, NEW b \in Int
    PROVE  Min({a, b}) = IF a <= b THEN a ELSE b
BY DEF Min

\* A pass over a prompt has a row, and none behind the prompt.
LEMMA PassRowsInPrompt ==
    ASSUME TypeOK, NEW s \in Slots, pos[s] < plen
    PROVE  PassRows(s) \in 1 .. plen - pos[s]
<1>1. pos[s] \in Nat /\ plen \in Nat /\ Chunk \in Nat \ {0} /\ MaxRows \in Nat /\ MaxRows >= 1
    BY DraftAssumption DEF TypeOK
<1>2. PICK p \in Nat : p = pos[s]
    BY <1>1
<1>3. PICK c0 \in Nat : c0 = (p \div Chunk) * Chunk /\ c0 <= p /\ p < c0 + Chunk
    <2>1. PICK d \in Nat : d = p \div Chunk /\ Chunk * d <= p /\ p < Chunk * (d + 1)
        BY <1>1
    <2>2. d * Chunk \in Nat /\ d * Chunk = Chunk * d /\ Chunk * (d + 1) = d * Chunk + Chunk
        BY <1>1
    <2> QED
        BY <1>1, <2>1, <2>2
<1>4. PICK chunk \in Nat : chunk = ChunkLen(c0) /\ chunk = IF Chunk <= plen - c0 THEN Chunk ELSE plen - c0
    <2>1. plen - c0 \in Int
        BY <1>1
    <2>2. ChunkLen(c0) = IF Chunk <= plen - c0 THEN Chunk ELSE plen - c0
        BY <1>1, <2>1, MinOfTwo DEF ChunkLen
    <2> QED
        BY <1>1, <1>2, <1>3, <2>2
<1>5. PICK r \in 1 .. plen - p : r = c0 + chunk - p
    <2>1. c0 + chunk - p \in 1 .. plen - p
        BY <1>1, <1>2, <1>3, <1>4
    <2> QED
        BY <2>1
<1>6. PassRows(s) = IF backend = "b27" /\ chunk <= Short THEN Min({MaxRows, r}) ELSE r
    BY <1>2, <1>3, <1>4, <1>5, Zenon DEF PassRows
<1>7. Min({MaxRows, r}) = IF MaxRows <= r THEN MaxRows ELSE r
    BY <1>1, MinOfTwo
<1>8. Min({MaxRows, r}) \in 1 .. plen - p
    BY <1>1, <1>2, <1>7
<1> QED
    BY <1>2, <1>6, <1>8

-----------------------------------------------------------------------------
(* Sequences of slots and of rows.                                         *)

\* Part i of w begins behind position f[i].
Begins(w, N, f) == f[1] = 0 /\ \A i \in 1 .. N : f[i + 1] = f[i] + Len(w[i])

\* Parts of the same lengths.
Alike(w, v, N) == \A i \in 1 .. N : Len(w[i]) = Len(v[i])

\* Parts of the same lengths are at the same places.
LEMMA PlacesAgree ==
    ASSUME NEW N \in Nat, NEW w, NEW v, NEW f, NEW g, Begins(w, N, f), Begins(v, N, g), Alike(w, v, N)
    PROVE  \A i \in 1 .. N + 1 : f[i] = g[i]
<1>0. /\ f[1] = 0 /\ \A i \in 1 .. N : f[i + 1] = f[i] + Len(w[i])
      /\ g[1] = 0 /\ \A i \in 1 .. N : g[i + 1] = g[i] + Len(v[i])
    BY Zenon DEF Begins
<1>x. \A i \in 1 .. N : Len(w[i]) = Len(v[i])
    BY Zenon DEF Alike
<1> DEFINE T == {i \in 1 .. N + 1 : f[i] # g[i]}
<1> SUFFICES ASSUME T # {}
             PROVE  FALSE
    OBVIOUS
<1>1. T \subseteq Nat
    OBVIOUS
<1> HIDE DEF T
<1>2. PICK i \in T : \A k \in T : i <= k
    BY <1>1, LeastNat, Zenon
<1>3. i \in 1 .. N + 1 /\ f[i] # g[i]
    BY DEF T
<1>4. i # 1
    BY <1>0, <1>3
<1>5. PICK k \in 1 .. N : i = k + 1
    <2>1. i - 1 \in 1 .. N /\ i = (i - 1) + 1
        BY <1>3, <1>4
    <2> QED
        BY <2>1
<1>6. k \in 1 .. N + 1 /\ k \notin T
    BY <1>2, <1>5
<1>7. f[k] = g[k]
    BY <1>6 DEF T
<1> QED
    BY <1>0, <1>3, <1>5, <1>7, <1>x

\* The first parts of w, one behind the other, end where the next one begins.
LEMMA PrefixLength ==
    ASSUME NEW S, NEW w \in Seq(Seq(S)), NEW first, Places(w, Len(w), first),
           NEW i \in 1 .. Len(w), NEW v \in Seq(Seq(S)), Len(v) = i - 1,
           \A k \in 1 .. i - 1 : v[k] = w[k]
    PROVE  Len(FlattenSeq(v)) = first[i]
<1>1. PICK g : Flattened(v, Len(v), FlattenSeq(v), g)
    BY FlattenPlaces
<1>2. PICK n \in Nat : n = i - 1
    OBVIOUS
<1>3. g[1] = 0 /\ (\A k \in 1 .. n : g[k + 1] = g[k] + Len(v[k])) /\ Len(FlattenSeq(v)) = g[n + 1]
    BY <1>1, <1>2, Zenon DEF Flattened, Places
<1>4. first[1] = 0 /\ \A k \in 1 .. n : first[k + 1] = first[k] + Len(w[k])
    <2>1. first[1] = 0 /\ \A k \in 1 .. Len(w) : first[k + 1] = first[k] + Len(w[k])
        BY Zenon DEF Places
    <2>2. \A k \in 1 .. n : k \in 1 .. Len(w)
        BY <1>2
    <2> QED
        BY <2>1, <2>2, Zenon
<1>5. \A k \in 1 .. n : Len(v[k]) = Len(w[k])
    BY <1>2
<1>6. \A k \in 1 .. n + 1 : g[k] = first[k]
    <2>1. Alike(v, w, n)
        BY <1>5, Zenon DEF Alike
    <2>2. n \in Nat
        OBVIOUS
    <2>3. Begins(v, n, g)
        BY <1>3, Zenon DEF Begins
    <2>4. Begins(w, n, first)
        BY <1>4, Zenon DEF Begins
    <2> QED
        BY ONLY <2>1, <2>2, <2>3, <2>4, PlacesAgree
<1> QED
    BY <1>2, <1>3, <1>6

\* A finished slot leaves the rounds.
LEMMA WithoutOne ==
    ASSUME NEW S, NEW q \in Seq(S), Distinct(q), NEW e \in Range(q)
    PROVE  /\ RemoveFirst(q, e) \in Seq(S) /\ Distinct(RemoveFirst(q, e))
           /\ Range(RemoveFirst(q, e)) = Range(q) \ {e}
<1>1. PICK i \in 1 .. Len(q) : q[i] = e
    BY DEF Range
<1>2. SelectInSeq(q, LAMBDA v : v = e) = i
    <2> DEFINE I == {k \in 1 .. Len(q) : q[k] = e}
    <2>1. SelectInSeq(q, LAMBDA v : v = e) = IF I # {} THEN Min(I) ELSE 0
        BY Zenon DEF SelectInSeq
    <2>2. I = {i}
        BY <1>1 DEF Distinct
    <2>3. Min({i}) = i
        BY DEF Min
    <2> QED
        BY <2>1, <2>2, <2>3, Zenon
<1> DEFINE r == SubSeq(q, 1, i - 1) \o SubSeq(q, i + 1, Len(q))
<1>3. RemoveFirst(q, e) = r
    <2>1. \E k \in 1 .. Len(q) : q[k] = e
        BY <1>1
    <2> QED
        BY <1>2, <2>1, Zenon DEF RemoveFirst, RemoveAt
<1>0. \A k \in 1 .. Len(q) : q[k] \in S
    OBVIOUS
<1>a. PICK u \in Seq(S) : /\ u = SubSeq(q, 1, i - 1) /\ Len(u) = i - 1
                          /\ \A k \in 1 .. i - 1 : u[k] = q[k]
    <2>1. SubSeq(q, 1, i - 1) \in Seq(S) /\ Len(SubSeq(q, 1, i - 1)) = i - 1
        BY <1>0
    <2>2. \A k \in 1 .. i - 1 : SubSeq(q, 1, i - 1)[k] = q[k]
        BY <1>0
    <2> QED
        BY <2>1, <2>2, Zenon
<1>b. PICK v \in Seq(S) : /\ v = SubSeq(q, i + 1, Len(q)) /\ Len(v) = Len(q) - i
                          /\ \A k \in 1 .. Len(q) - i : v[k] = q[i + k]
    <2>1. SubSeq(q, i + 1, Len(q)) \in Seq(S) /\ Len(SubSeq(q, i + 1, Len(q))) = Len(q) - i
        BY <1>0
    <2>2. \A k \in 1 .. Len(q) - i : SubSeq(q, i + 1, Len(q))[k] = q[i + k]
        BY <1>0
    <2> QED
        BY <2>1, <2>2, Zenon
<1>c. r = u \o v
    BY <1>a, <1>b, Zenon
<1> HIDE DEF r
<1>d. PICK n, l \in Nat : n = i - 1 /\ l = Len(q) - i
    <2>1. i - 1 \in Nat /\ Len(q) - i \in Nat
        OBVIOUS
    <2> QED
        BY <2>1, Zenon
<1>e. /\ u \o v \in Seq(S) /\ Len(u \o v) = n + l
      /\ \A k \in 1 .. n : (u \o v)[k] = u[k]
      /\ \A k \in 1 .. l : (u \o v)[n + k] = v[k]
    <2>1. u \in Seq(S) /\ v \in Seq(S) /\ n \in Nat /\ n = Len(u) /\ l \in Nat /\ l = Len(v)
        BY <1>a, <1>b, <1>d
    <2> QED
        BY ONLY <2>1, Behind, SMTT(30)
<1>4. r \in Seq(S) /\ Len(r) = Len(q) - 1 /\ DOMAIN r = 1 .. Len(q) - 1
    <2>1. u \o v \in Seq(S) /\ Len(u \o v) = Len(q) - 1
        BY <1>d, <1>e
    <2> QED
        BY <1>c, <2>1
<1>5. ASSUME NEW k \in 1 .. Len(q) - 1
      PROVE  r[k] = IF k < i THEN q[k] ELSE q[k + 1]
    <2>1. CASE k < i
        <3>1. k \in 1 .. n
            BY <1>d, <2>1
        <3> QED
            BY <1>a, <1>c, <1>d, <1>e, <2>1, <3>1
    <2>2. CASE ~(k < i)
        <3>1. PICK p \in 1 .. l : k = n + p
            <4>1. k - n \in 1 .. l /\ k = n + (k - n)
                BY <1>d, <2>2
            <4> QED
                BY <4>1
        <3>2. r[k] = v[p]
            BY <1>c, <1>e, <3>1
        <3>3. i + p = k + 1 /\ v[p] = q[i + p]
            BY <1>b, <1>d, <3>1
        <3> QED
            BY <2>2, <3>2, <3>3
    <2> QED
        BY <2>1, <2>2
<1>6. Distinct(r)
    <2>0. \A x, y \in 1 .. Len(q) : q[x] = q[y] => x = y
        BY DEF Distinct
    <2> SUFFICES ASSUME NEW a \in 1 .. Len(q) - 1, NEW b \in 1 .. Len(q) - 1, r[a] = r[b]
                 PROVE  a = b
        BY <1>4 DEF Distinct
    <2>1. PICK x \in 1 .. Len(q) : r[a] = q[x] /\ x = IF a < i THEN a ELSE a + 1
        BY <1>5
    <2>2. PICK y \in 1 .. Len(q) : r[b] = q[y] /\ y = IF b < i THEN b ELSE b + 1
        BY <1>5
    <2>3. x = y
        BY <2>0, <2>1, <2>2
    <2> QED
        BY <2>1, <2>2, <2>3
<1>7. ASSUME NEW x \in Range(r)
      PROVE  x \in Range(q) \ {e}
    <2>1. PICK k \in 1 .. Len(q) - 1 : x = r[k]
        BY <1>4 DEF Range
    <2>2. PICK m \in 1 .. Len(q) : x = q[m] /\ m # i
        BY <1>5, <2>1
    <2> QED
        BY <1>1, <2>2 DEF Range, Distinct
<1>8. ASSUME NEW x \in Range(q) \ {e}
      PROVE  x \in Range(r)
    <2>1. PICK m \in 1 .. Len(q) : x = q[m] /\ m # i
        BY <1>1 DEF Range
    <2>2. PICK k \in 1 .. Len(q) - 1 : x = r[k]
        <3>1. CASE m < i
            BY <1>5, <2>1, <3>1
        <3>2. CASE m > i
            <4>1. m - 1 \in 1 .. Len(q) - 1 /\ ~(m - 1 < i) /\ (m - 1) + 1 = m
                BY <3>2
            <4> QED
                BY <1>5, <2>1, <4>1
        <3> QED
            BY <2>1, <3>1, <3>2
    <2> QED
        BY <1>4, <2>2 DEF Range
<1> QED
    BY <1>3, <1>4, <1>6, <1>7, <1>8

\* The first of the slots that wait is accepted.
LEMMA TailSlots ==
    ASSUME NEW S, NEW q \in Seq(S), Distinct(q), q # << >>
    PROVE  /\ Tail(q) \in Seq(S) /\ Distinct(Tail(q)) /\ Head(q) \in Range(q)
           /\ Range(Tail(q)) = Range(q) \ {Head(q)}
<1>1. Tail(q) \in Seq(S) /\ Len(Tail(q)) = Len(q) - 1 /\ Len(q) >= 1 /\ Head(q) = q[1]
    OBVIOUS
<1>2. \A k \in 1 .. Len(q) - 1 : Tail(q)[k] = q[k + 1]
    OBVIOUS
<1>3. PICK r : r = Tail(q)
    OBVIOUS
<1>4. Distinct(r) /\ Head(q) \in Range(q)
    BY <1>1, <1>2, <1>3 DEF Distinct, Range
<1>5. ASSUME NEW x \in Range(r)
      PROVE  x \in Range(q) \ {Head(q)}
    <2>1. PICK k \in 1 .. Len(q) - 1 : x = r[k]
        BY <1>1, <1>3 DEF Range
    <2>2. PICK m \in 1 .. Len(q) : x = q[m] /\ m # 1
        BY <1>2, <1>3, <2>1
    <2> QED
        BY <1>1, <2>2 DEF Range, Distinct
<1>6. ASSUME NEW x \in Range(q) \ {Head(q)}
      PROVE  x \in Range(r)
    <2>1. PICK m \in 1 .. Len(q) : x = q[m] /\ m # 1
        BY <1>1 DEF Range
    <2>2. m - 1 \in 1 .. Len(q) - 1 /\ (m - 1) + 1 = m
        BY <2>1
    <2>3. r[m - 1] = x
        BY <1>2, <1>3, <2>1, <2>2
    <2>4. m - 1 \in DOMAIN r
        BY <1>1, <1>3, <2>2
    <2> QED
        BY <2>3, <2>4, Zenon DEF Range
<1> QED
    BY <1>1, <1>3, <1>4, <1>5, <1>6

\* A slot whose prompt is read joins the rounds.
LEMMA AppendSlots ==
    ASSUME NEW S, NEW q \in Seq(S), Distinct(q), NEW e \in S, e \notin Range(q)
    PROVE  /\ Append(q, e) \in Seq(S) /\ Distinct(Append(q, e))
           /\ Range(Append(q, e)) = Range(q) \cup {e}
<1>0. Append(q, e) \in Seq(S) /\ Len(Append(q, e)) = Len(q) + 1
    BY AppendProperties
<1>1. PICK r \in Seq(S) : r = Append(q, e) /\ Len(r) = Len(q) + 1
    BY <1>0, Zenon
<1>2. \A k \in 1 .. Len(q) + 1 : r[k] = IF k <= Len(q) THEN q[k] ELSE e
    BY <1>1
<1>3. \A k \in 1 .. Len(q) : q[k] # e
    BY DEF Range
<1>4. Distinct(r)
    BY <1>1, <1>2, <1>3 DEF Distinct
<1>5. Range(r) = Range(q) \cup {e}
    BY <1>1, <1>2 DEF Range
<1> QED
    BY <1>1, <1>4, <1>5

\* What a row of a pass can hold.
Tokens0 == Known \cup {Wrong}

\* The rows of slot s in a pass: its tokens xs from row r on, and the states
\* behind them.
RowsAt(s, xs, r, all, states) ==
    /\ r \in Nat /\ r + Len(xs) <= Len(all)
    /\ \A q \in 1 .. Len(xs) : all[r + q] = xs[q] /\ states[r + q] = Run(Cur(s), SubSeq(xs, 1, q))

\* A pass leaves one state for each row.
LEMMA StatesTyped ==
    ASSUME MaxCtx >= 1, NEW s, Cur(s) \in State, NEW xs \in Seq(Tokens0)
    PROVE  /\ States(s, xs) \in Seq(State) /\ Len(States(s, xs)) = Len(xs)
           /\ \A q \in 1 .. Len(xs) : States(s, xs)[q] = Run(Cur(s), SubSeq(xs, 1, q))
<1>0. \A q \in 1 .. Len(xs) : xs[q] \in Tokens0
    OBVIOUS
<1>1. ASSUME NEW q \in 1 .. Len(xs)
      PROVE  Run(Cur(s), SubSeq(xs, 1, q)) \in State
    <2>0. q \in Nat
        OBVIOUS
    <2>1. SubSeq(xs, 1, q) \in Seq(Tokens0) /\ Len(SubSeq(xs, 1, q)) = q
        BY <1>0
    <2>2. PICK ys \in Seq(Tokens0) : ys = SubSeq(xs, 1, q) /\ Len(ys) = q
        BY <2>1, Zenon
    <2>3. DOMAIN ys = 1 .. q /\ \A i \in 1 .. q : ys[i] \in Known \cup {Wrong}
        BY <2>2 DEF Tokens0
    <2>4. Run(Cur(s), ys) \in State
        BY <2>0, <2>3, RunTyped
    <2> QED
        BY <2>2, <2>4
<1>2. DOMAIN xs = 1 .. Len(xs) /\ Len(xs) \in Nat
    OBVIOUS
<1>3. States(s, xs) = [q \in 1 .. Len(xs) |-> Run(Cur(s), SubSeq(xs, 1, q))]
    BY <1>2 DEF States
<1> QED
    BY <1>1, <1>2, <1>3

\* One pass over several slots: each finds its own rows, and the states behind them, from
\* its first row on.
LEMMA ForwardRows ==
    ASSUME MaxCtx >= 1, \A s \in Slots : Cur(s) \in State,
           NEW order \in Seq(Slots), Distinct(order), NEW toks,
           \A s \in Range(order) : toks[s] \in Seq(Tokens0),
           Forward(order, toks)
    PROVE  \E all \in Seq(Tokens0) :
             /\ saved' = IF IsGm(Len(order), Len(all)) THEN saved ELSE all
             /\ lastGm' = IsGm(Len(order), Len(all))
             /\ Len(order) = 1 => Len(all) = Len(toks[order[1]])
             /\ \A s \in Range(order) : RowsAt(s, toks[s], lr0'[s], all, hrow')
<1> DEFINE n == Len(order)
           w == [i \in DOMAIN order |-> toks[order[i]]]
           v == [i \in DOMAIN order |-> States(order[i], toks[order[i]])]
           before(i) == Len(FlattenSeq([k \in 1 .. i - 1 |-> toks[order[k]]]))
           at(s) == CHOOSE i \in DOMAIN order : order[i] = s
           all == FlattenSeq(w)
<1>1. /\ saved' = IF IsGm(n, Len(all)) THEN saved ELSE all
      /\ lastGm' = IsGm(n, Len(all))
      /\ hrow' = FlattenSeq(v)
    BY Zenon DEF Forward
<1>2. \A s \in Range(order) : s \in Slots => lr0'[s] = before(at(s))
    BY Zenon DEF Forward
<1>3. DOMAIN order = 1 .. n /\ n \in Nat /\ \A i \in 1 .. n : order[i] \in Slots /\ order[i] \in Range(order)
    BY DEF Range
<1>4. \A i \in 1 .. n : at(order[i]) = i
    BY <1>3, Zenon DEF Distinct
<1>5. \A i \in 1 .. n : toks[order[i]] \in Seq(Tokens0)
    BY <1>3
<1>6. w \in Seq(Seq(Tokens0)) /\ Len(w) = n /\ \A i \in 1 .. n : w[i] = toks[order[i]]
    BY <1>3, <1>5
<1>7. \A i \in 1 .. n : /\ States(order[i], toks[order[i]]) \in Seq(State)
                        /\ Len(States(order[i], toks[order[i]])) = Len(toks[order[i]])
    BY <1>3, <1>5, StatesTyped
<1>8. v \in Seq(Seq(State)) /\ Len(v) = n /\ \A i \in 1 .. n : v[i] = States(order[i], toks[order[i]])
    BY <1>3, <1>7
<1> HIDE DEF w, v, at, n
<1>9. all \in Seq(Tokens0) /\ \E first : Flattened(w, n, all, first)
    BY <1>6, FlattenPlaces
<1>10. PICK first : Flattened(w, n, all, first)
    BY <1>9, Zenon
<1>11. PICK last : Flattened(v, n, hrow', last)
    BY <1>1, <1>8, FlattenPlaces
<1> HIDE DEF all
<1>12. \A i \in 1 .. n + 1 : last[i] = first[i]
    <2>1. Begins(w, n, first) /\ Begins(v, n, last)
        BY <1>10, <1>11, Zenon DEF Flattened, Places, Begins
    <2>2. Alike(v, w, n)
        BY <1>6, <1>7, <1>8 DEF Alike
    <2> QED
        BY ONLY <1>3, <2>1, <2>2, PlacesAgree
<1>13. \A i \in 1 .. n : lr0'[order[i]] = first[i]
    <2> SUFFICES ASSUME NEW i \in 1 .. n
                 PROVE  lr0'[order[i]] = first[i]
        OBVIOUS
    <2> DEFINE u == [k \in 1 .. i - 1 |-> toks[order[k]]]
    <2>1. lr0'[order[i]] = Len(FlattenSeq(u))
        BY <1>2, <1>3, <1>4, Zenon
    <2>2. \A k \in 1 .. i - 1 : k \in 1 .. n
        BY <1>3
    <2>3. u \in Seq(Seq(Tokens0)) /\ Len(u) = i - 1 /\ \A k \in 1 .. i - 1 : u[k] = w[k]
        BY <1>3, <1>5, <1>6, <2>2
    <2> HIDE DEF u
    <2>4. Places(w, Len(w), first)
        BY <1>6, <1>10, Zenon DEF Flattened
    <2>5. i \in 1 .. Len(w) /\ w \in Seq(Seq(Tokens0))
        BY <1>6
    <2>6. Len(FlattenSeq(u)) = first[i]
        BY ONLY <2>3, <2>4, <2>5, PrefixLength, SMTT(30)
    <2> QED
        BY <2>1, <2>6
<1>14. \A i \in 1 .. n : RowsAt(order[i], toks[order[i]], lr0'[order[i]], all, hrow')
    <2> SUFFICES ASSUME NEW i \in 1 .. n
                 PROVE  RowsAt(order[i], toks[order[i]], lr0'[order[i]], all, hrow')
        OBVIOUS
    <2>1. PICK s \in Slots : s = order[i] /\ Cur(s) \in State
        BY <1>3
    <2>2. PICK xs \in Seq(Tokens0) : xs = toks[s] /\ w[i] = xs /\ v[i] = States(s, xs)
        BY <1>5, <1>6, <1>8, <2>1
    <2>3. PICK r : r = lr0'[s] /\ r = first[i] /\ r = last[i]
        <3>1. i \in 1 .. n + 1
            BY <1>3
        <3> QED
            BY <1>12, <1>13, <2>1, <3>1
    <2>4. /\ first \in [1 .. n + 1 -> Nat] /\ first[i + 1] = first[i] + Len(w[i]) /\ Len(all) = first[n + 1]
          /\ \A t \in 1 .. Len(w[i]) : all[first[i] + t] = w[i][t]
          /\ \A t \in 1 .. Len(v[i]) : hrow'[last[i] + t] = v[i][t]
        BY <1>10, <1>11, Zenon DEF Flattened, Places
    <2>5. Len(States(s, xs)) = Len(xs) /\ \A q \in 1 .. Len(xs) : States(s, xs)[q] = Run(Cur(s), SubSeq(xs, 1, q))
        BY <2>1, StatesTyped
    <2>6. r \in Nat
        <3>1. i \in 1 .. n + 1
            BY <1>3
        <3>2. first[i] \in Nat
            BY <2>4, <3>1, Zenon
        <3> QED
            BY <2>3, <3>2
    <2>7. \A q \in 1 .. Len(xs) : all[r + q] = xs[q] /\ hrow'[r + q] = Run(Cur(s), SubSeq(xs, 1, q))
        BY <2>2, <2>3, <2>4, <2>5, Zenon
    <2>8. r + Len(xs) <= Len(all)
        <3>1. first[i + 1] <= first[n + 1]
            <4>1. \A k \in 1 .. n : Len(w[k]) \in Nat
                BY <1>5, <1>6
            <4>2. Places(w, n, first)
                BY <1>10, Zenon DEF Flattened
            <4>3. \A k, m \in 1 .. n : k <= m => first[k + 1] <= first[m + 1]
                BY ONLY <1>3, <4>1, <4>2, PlacesGrow
            <4>4. n \in 1 .. n /\ i <= n
                BY <1>3
            <4> QED
                BY <4>3, <4>4
        <3> QED
            BY <2>2, <2>3, <2>4, <3>1
    <2> QED
        BY <2>1, <2>2, <2>3, <2>6, <2>7, <2>8, Zenon DEF RowsAt
<1>15. n = 1 => Len(all) = Len(toks[order[1]])
    <2> SUFFICES ASSUME n = 1
                 PROVE  Len(all) = Len(toks[order[1]])
        OBVIOUS
    <2>1. 1 \in 1 .. n
        OBVIOUS
    <2>2. first[1] = 0 /\ first[1 + 1] = first[1] + Len(w[1]) /\ Len(all) = first[n + 1]
        BY <1>10, <2>1, Zenon DEF Flattened, Places
    <2>3. w[1] = toks[order[1]] /\ toks[order[1]] \in Seq(Tokens0)
        BY <1>5, <1>6, <2>1
    <2> QED
        BY <2>2, <2>3
<1>16. \A s \in Range(order) : RowsAt(s, toks[s], lr0'[s], all, hrow')
    BY <1>3, <1>14 DEF Range
<1> QED
    BY <1>1, <1>9, <1>15, <1>16, Zenon DEF n

\* The row of the position a slot goes on from: the first draft left it, or
\* no draft was made.
Anchored(s) ==
    backend = "fn" /\ spec[s] =>
        kv[s][pos[s]] = [of |-> Tok(req[s], pos[s]), h |-> After(req[s], pos[s])] \/ pos[s] \in plain[s]

\* A slot the round has not accepted yet: what its right rows left behind.
Waits(s) ==
    LET n == good[s] + 1
    IN  /\ n <= lT[s] /\ pos[s] + n <= MaxCtx /\ lr0[s] + n <= Len(saved)
        /\ \A i \in 1 .. n : /\ hrow[lr0[s] + i] = After(req[s], pos[s] + i)
                             /\ saved[lr0[s] + i] = Tok(req[s], pos[s] + i - 1)
        /\ n = lT[s] => rec[s][2 - cur[s]] = After(req[s], pos[s] + n)

\* Inside a round: a round is never a GEMM pass, so that it can be replayed.
RoundInv ==
    /\ left # << >> => ~lastGm
    /\ \A s \in Range(left) : Waits(s) /\ Anchored(s)

\* The pending h of the slots in the rounds, and the one of the prompt being read.
HInv == backend = "fn" =>
    /\ \A s \in Range(active) \ Range(left) : hp[s] = After(req[s], pos[s])
    /\ \A s \in filling : spec[s] /\ pos[s] > 0 => hprev = After(req[s], pos[s])

\* The types of what TypeOK leaves out.
Kept == DOMAIN kv = Slots /\ good \in [Slots -> Nat] /\ saved \in Seq(Tokens0)

\* The inductive invariant.
DraftInv == TypeOK /\ SlotsInv /\ RoundInv /\ HInv /\ Kept /\ TargetInStep /\ DraftCacheExact

-----------------------------------------------------------------------------

\* What the assumption says of the numbers.
LEMMA Bounds ==
    /\ MaxReqs \in Nat /\ MaxCtx \in Nat /\ Mtp \in Nat /\ NDraft \in Nat /\ Short \in Nat
    /\ MaxRows \in Nat /\ Mtp + 1 <= MaxRows /\ NDraft + 1 <= MaxRows
<1>1. MaxReqs \in Nat /\ MaxCtx \in Nat /\ Mtp \in Nat /\ NDraft \in Nat /\ Short \in Nat
    BY DraftAssumption, Zenon
<1> QED
    BY <1>1, DraftAssumption

\* It holds at the start.
LEMMA InitDraftInv == Init => DraftInv
<1> SUFFICES ASSUME Init
             PROVE  DraftInv
    OBVIOUS
<1> USE DEF Init
<1>0. << >> \in Seq(Slots) /\ << >> \in Seq(Tokens0) /\ DOMAIN << >> = {} /\ Range(<< >>) = {}
    BY DEF Range
<1>1. TypeOK
    <2>1. Clean \in State /\ <<Clean, Clean>> \in [1 .. 2 -> State] /\ 0 \in 0 .. MaxCtx /\ 0 \in 0 .. MaxReqs
        BY DraftAssumption DEF Clean, State
    <2> QED
        BY <1>0, <2>1 DEF TypeOK
<1>2. SlotsInv
    BY <1>0 DEF SlotsInv, Distinct
<1>3. RoundInv /\ HInv /\ Kept
    BY <1>0 DEF RoundInv, HInv, Kept
<1>4. TargetInStep
    BY DEF TargetInStep, Cur
<1>5. DraftCacheExact
    BY DEF DraftCacheExact
<1> QED
    BY <1>1, <1>2, <1>3, <1>4, <1>5 DEF DraftInv

\* The state a slot goes on from.
LEMMA SlotFacts ==
    ASSUME DraftInv, NEW s \in Slots
    PROVE  /\ pos[s] \in 0 .. MaxCtx /\ req[s] \in Reqs \cup {0} /\ Cur(s) \in State /\ cur[s] \in {0, 1}
           /\ req[s] # 0 => req[s] \in Reqs
           /\ req[s] # 0 => Cur(s) = After(req[s], pos[s]) \/ (pos[s] = 0 /\ Cur(s) = Clean)
           /\ pos[s] >= 1 => Cur(s) = After(req[s], pos[s])
BY DEF DraftInv, TypeOK, TargetInStep, Cur, After

\* A new request starts clean, whatever its slot's cache still holds.
LEMMA AdmitDraftInv ==
    ASSUME DraftInv, NEW s \in Slots, NEW sp \in BOOLEAN, NEW n \in PromptLens, Admit(s, sp, n)
    PROVE  DraftInv'
<1> USE DEF Admit
<1>0. TypeOK /\ SlotsInv /\ RoundInv /\ HInv /\ Kept /\ TargetInStep /\ DraftCacheExact
    BY DEF DraftInv
<1>1. n \in 1 .. MaxCtx /\ Clean \in State /\ <<Clean, Clean>> \in [1 .. 2 -> State]
    BY DraftAssumption DEF Clean, State
<1>2. s \notin Range(active) /\ s \notin filling /\ Range(left) = {} /\ reqs + 1 \in Reqs /\ reqs + 1 # 0
    <2>1. s \notin Range(active) /\ s \notin filling
        BY <1>0 DEF SlotsInv
    <2>2. Range(left) = {}
        BY DEF Range
    <2>3. reqs + 1 \in Reqs /\ reqs + 1 # 0
        BY <1>0, Bounds DEF TypeOK, Reqs
    <2> QED
        BY <2>1, <2>2, <2>3
<1>3. TypeOK'
    <2>1. /\ backend' \in {"fn", "b27"} /\ reqs' \in 0 .. MaxReqs /\ req' \in [Slots -> Reqs \cup {0}]
          /\ spec' \in [Slots -> BOOLEAN] /\ plen' \in 0 .. MaxCtx
        <3>1. reqs' \in 0 .. MaxReqs /\ plen' \in 0 .. MaxCtx
            BY <1>0, <1>1, Bounds DEF TypeOK
        <3>2. req' \in [Slots -> Reqs \cup {0}] /\ spec' \in [Slots -> BOOLEAN]
            BY <1>0, <1>2, Zenon DEF TypeOK
        <3> QED
            BY <1>0, <3>1, <3>2 DEF TypeOK
    <2>2. pos' \in [Slots -> 0 .. MaxCtx] /\ cur' \in [Slots -> {0, 1}] /\ lT' \in [Slots -> Nat]
        <3>1. 0 \in 0 .. MaxCtx /\ 0 \in {0, 1} /\ 0 \in Nat
            BY Bounds
        <3> QED
            BY <1>0, <3>1, Zenon DEF TypeOK
    <2>3. rec' \in [Slots -> [1 .. 2 -> State]]
        BY <1>0, <1>1, Zenon DEF TypeOK
    <2>4. plain' \in [Slots -> SUBSET Positions]
        BY <1>0, Zenon DEF TypeOK
    <2> QED
        BY <1>0, <2>1, <2>2, <2>3, <2>4 DEF TypeOK
<1>4. \A t \in Slots : /\ req'[t] = IF t = s THEN reqs + 1 ELSE req[t]
                       /\ pos'[t] = IF t = s THEN 0 ELSE pos[t]
                       /\ spec'[t] = IF t = s THEN sp ELSE spec[t]
                       /\ cur'[t] = IF t = s THEN 0 ELSE cur[t]
                       /\ rec'[t] = IF t = s THEN <<Clean, Clean>> ELSE rec[t]
                       /\ plain'[t] = IF t = s THEN {} ELSE plain[t]
    BY <1>0 DEF TypeOK
<1>5. SlotsInv'
    BY <1>0, <1>1, <1>2, <1>4 DEF SlotsInv
<1>6. RoundInv'
    BY <1>2 DEF RoundInv
<1>7. HInv'
    BY <1>0, <1>2, <1>4 DEF HInv, TypeOK
<1>8. Kept'
    BY <1>0 DEF Kept
<1>9. TargetInStep'
    <2> SUFFICES ASSUME NEW t \in Slots
                 PROVE  Cur(t)' = IF pos'[t] = 0 THEN Clean ELSE [req |-> req'[t], n |-> pos'[t]]
        BY Zenon DEF TargetInStep
    <2>1. CASE t = s
        BY <1>4, <2>1 DEF Cur
    <2>2. CASE t # s
        <3>1. Cur(t)' = Cur(t) /\ pos'[t] = pos[t] /\ req'[t] = req[t]
            <4>1. pos'[t] = pos[t] /\ req'[t] = req[t] /\ rec'[t] = rec[t] /\ cur'[t] = cur[t]
                BY <1>4, <2>2, Zenon
            <4> QED
                BY <4>1, Zenon DEF Cur
        <3> QED
            BY <1>0, <3>1, Zenon DEF TargetInStep
    <2> QED
        BY <2>1, <2>2
<1>10. DraftCacheExact'
    BY <1>0, <1>4 DEF DraftCacheExact, Exact
<1> QED
    BY <1>3, <1>5, <1>6, <1>7, <1>8, <1>9, <1>10 DEF DraftInv

-----------------------------------------------------------------------------

\* What the first m tokens of xs leave when they are those of a request.
LEMMA RightStates ==
    ASSUME NEW j \in Reqs, NEW p \in Nat, NEW st, st = After(j, p) \/ (p = 0 /\ st = Clean),
           NEW xs \in Seq(Tokens0), NEW m \in 1 .. Len(xs), \A i \in 1 .. m : xs[i] = Tok(j, p + i - 1)
    PROVE  Run(st, SubSeq(xs, 1, m)) = After(j, p + m)
<1>0. m \in Nat \ {0} /\ \A q \in 1 .. Len(xs) : xs[q] \in Tokens0
    OBVIOUS
<1>1. SubSeq(xs, 1, m) \in Seq(Tokens0) /\ Len(SubSeq(xs, 1, m)) = m
    BY <1>0
<1>2. \A i \in 1 .. m : SubSeq(xs, 1, m)[i] = xs[i]
    BY <1>0
<1>3. PICK ys \in Seq(Tokens0) : ys = SubSeq(xs, 1, m) /\ Len(ys) = m /\ \A i \in 1 .. m : ys[i] = xs[i]
    BY <1>1, <1>2, Zenon
<1>4. DOMAIN ys = 1 .. m /\ \A i \in 1 .. m : ys[i] = Tok(j, p + i - 1)
    BY <1>3
<1>5. Run(st, ys) = After(j, p + m)
    <2>1. GoesOn(st, j, p, ys, m)
        BY <1>4 DEF GoesOn
    <2> QED
        BY <1>0, <2>1, RunCounts
<1> QED
    BY <1>3, <1>5

\* What a pass over the prompt leaves.
LEMMA PromptStates ==
    ASSUME NEW s, NEW j \in Reqs, NEW p \in Nat, NEW n \in Nat \ {0}, p + n <= MaxCtx, Cur(s) \in State,
           Cur(s) = After(j, p) \/ (p = 0 /\ Cur(s) = Clean)
    PROVE  /\ Tokens(j, p, n) \in Seq(Tokens0) /\ Len(Tokens(j, p, n)) = n
           /\ \A i \in 1 .. n : Tokens(j, p, n)[i] = Tok(j, p + i - 1)
           /\ \A i \in 1 .. n : States(s, Tokens(j, p, n))[i] = After(j, p + i)
<1>1. \A i \in 1 .. n : Tok(j, p + i - 1) \in Tokens0
    BY DraftAssumption DEF Tokens0, Known, Positions
<1>2. /\ Tokens(j, p, n) \in Seq(Tokens0) /\ Len(Tokens(j, p, n)) = n
      /\ \A i \in 1 .. n : Tokens(j, p, n)[i] = Tok(j, p + i - 1)
    BY <1>1 DEF Tokens
<1>3. PICK xs \in Seq(Tokens0) : xs = Tokens(j, p, n) /\ Len(xs) = n /\ \A i \in 1 .. n : xs[i] = Tok(j, p + i - 1)
    BY <1>2, Zenon
<1>4. MaxCtx >= 1
    BY DraftAssumption
<1>5. ASSUME NEW i \in 1 .. n
      PROVE  States(s, xs)[i] = After(j, p + i)
    <2>1. States(s, xs)[i] = Run(Cur(s), SubSeq(xs, 1, i))
        BY <1>3, <1>4, StatesTyped
    <2>2. i \in 1 .. Len(xs) /\ \A k \in 1 .. i : xs[k] = Tok(j, p + k - 1)
        BY <1>3
    <2>3. Run(Cur(s), SubSeq(xs, 1, i)) = After(j, p + i)
        BY <2>2, RightStates
    <2> QED
        BY <2>1, <2>3
<1> QED
    BY <1>2, <1>3, <1>5

\* A row of the draft cache that is right for position x of request j.
ExactRow(j, x, row) ==
    IF backend = "b27" THEN row.h = After(j, x + 1)
    ELSE row = [of |-> Tok(j, x), h |-> IF x = 0 THEN Clean ELSE After(j, x)]

\* Exact speaks of one row.
LEMMA ExactIsExactRow ==
    ASSUME NEW s, NEW x
    PROVE  Exact(s, x) <=> ExactRow(req[s], x, kv[s][x])
BY DEF Exact, ExactRow, After

\* A state written to the spare buffer.
LEMMA SpareTyped ==
    ASSUME rec \in [Slots -> [1 .. 2 -> State]], NEW s \in Slots, cur[s] \in {0, 1}, NEW st \in State
    PROVE  /\ [rec EXCEPT ![s][2 - cur[s]] = st] \in [Slots -> [1 .. 2 -> State]]
           /\ \A t \in Slots : [rec EXCEPT ![s][2 - cur[s]] = st][t] =
                 IF t = s THEN [rec[s] EXCEPT ![2 - cur[s]] = st] ELSE rec[t]
           /\ [rec[s] EXCEPT ![2 - cur[s]] = st][2 - cur[s]] = st
           /\ [rec[s] EXCEPT ![2 - cur[s]] = st][cur[s] + 1] = rec[s][cur[s] + 1]
           /\ [rec[s] EXCEPT ![2 - cur[s]] = st] \in [1 .. 2 -> State]
<1>1. PICK b \in 1 .. 2 : b = 2 - cur[s] /\ b # cur[s] + 1 /\ cur[s] + 1 \in 1 .. 2
    OBVIOUS
<1>2. rec[s] \in [1 .. 2 -> State]
    OBVIOUS
<1>3. [rec[s] EXCEPT ![b] = st] \in [1 .. 2 -> State]
    BY <1>2, Zenon
<1>4. [rec EXCEPT ![s][b] = st] \in [Slots -> [1 .. 2 -> State]]
    BY <1>3, Zenon
<1>5. \A t \in Slots : [rec EXCEPT ![s][b] = st][t] = IF t = s THEN [rec[s] EXCEPT ![b] = st] ELSE rec[t]
    BY Zenon
<1>6. [rec[s] EXCEPT ![b] = st][b] = st /\ [rec[s] EXCEPT ![b] = st][cur[s] + 1] = rec[s][cur[s] + 1]
    BY <1>1, <1>2, Zenon
<1> QED
    BY <1>1, <1>3, <1>4, <1>5, <1>6

\* A pass over a prompt keeps the invariant: its catch-up starts from the h of its own prompt.
LEMMA PrefillDraftInv ==
    ASSUME DraftInv, PrefillPass
    PROVE  DraftInv'
<1>0. TypeOK /\ SlotsInv /\ RoundInv /\ HInv /\ Kept /\ TargetInStep /\ DraftCacheExact
    BY DEF DraftInv
<1>1. PICK s \in filling :
        LET p == pos[s]
            n == PassRows(s)
            toks == Tokens(req[s], p, n)
            sts == States(s, toks)
            row(i) == IF backend = "b27" THEN [of |-> Clean, h |-> sts[i + 1]]
                      ELSE [of |-> toks[i + 1], h |-> IF i = 0 THEN HBefore(p) ELSE sts[i]]
            gm == backend = "fn" \/ IsGm(1, n)
        IN  /\ pos' = [pos EXCEPT ![s] = p + n]
            /\ rec' = [rec EXCEPT ![s][2 - cur[s]] = sts[n]]
            /\ cur' = [cur EXCEPT ![s] = 1 - @]
            /\ lr0' = [lr0 EXCEPT ![s] = 0] /\ lT' = [lT EXCEPT ![s] = 0]
            /\ saved' = IF gm THEN saved ELSE toks
            /\ lastGm' = IF backend = "fn" THEN lastGm ELSE gm
            /\ hp' = IF backend = "fn" THEN [hp EXCEPT ![s] = sts[n]] ELSE hp
            /\ hprev' = IF backend = "fn" /\ spec[s] THEN sts[n] ELSE hprev
            /\ kv' = IF ~spec[s] THEN kv
                     ELSE [kv EXCEPT ![s] = [x \in Positions |-> IF x \in p .. p + n - 1 THEN row(x - p) ELSE @[x]]]
            /\ filling' = IF p + n = plen THEN {} ELSE filling
            /\ active' = IF p + n = plen THEN Append(active, s) ELSE active
            /\ UNCHANGED <<backend, reqs, req, spec, plen, plain, left, good>>
    BY Zenon DEF PrefillPass
<1>2. s \in Slots /\ s \notin Range(active) /\ left = << >> /\ Range(left) = {} /\ filling = {s}
    <2>1. s \in Slots /\ left = << >> /\ \A t \in filling : t = s
        BY <1>0 DEF TypeOK, SlotsInv
    <2>2. Range(<< >>) = {}
        BY DEF Range
    <2> QED
        BY <1>0, <2>1, <2>2 DEF SlotsInv
<1>3. PICK j \in Reqs : j = req[s]
    BY <1>0, <1>2 DEF SlotsInv, TypeOK
<1>4. PICK p \in Nat : p = pos[s] /\ p < plen /\ plen <= MaxCtx /\ plen \in Nat
    BY <1>0, <1>2, Bounds DEF SlotsInv, TypeOK
<1>5. PICK n \in Nat \ {0} : n = PassRows(s) /\ p + n <= plen
    <2>1. PassRows(s) \in 1 .. plen - p
        BY <1>0, <1>2, <1>4, PassRowsInPrompt
    <2> QED
        BY <1>4, <2>1
<1>6. Cur(s) \in State /\ (Cur(s) = After(j, p) \/ (p = 0 /\ Cur(s) = Clean)) /\ cur[s] \in {0, 1}
    BY <1>2, <1>3, <1>4, SlotFacts DEF Reqs
<1>7. PICK toks \in Seq(Tokens0) : /\ toks = Tokens(j, p, n) /\ Len(toks) = n
                                   /\ \A i \in 1 .. n : toks[i] = Tok(j, p + i - 1)
    <2>1. p + n <= MaxCtx
        BY <1>4, <1>5, Bounds
    <2> QED
        BY <1>6, <2>1, PromptStates
<1>8. PICK sts : sts = States(s, toks) /\ \A i \in 1 .. n : sts[i] = After(j, p + i)
    <2>1. p + n <= MaxCtx
        BY <1>4, <1>5, Bounds
    <2> QED
        BY <1>6, <1>7, <2>1, PromptStates
<1> DEFINE row(i) == IF backend = "b27" THEN [of |-> Clean, h |-> sts[i + 1]]
                     ELSE [of |-> toks[i + 1], h |-> IF i = 0 THEN HBefore(p) ELSE sts[i]]
           gm == backend = "fn" \/ IsGm(1, n)
<1>9. /\ pos' = [pos EXCEPT ![s] = p + n]
      /\ rec' = [rec EXCEPT ![s][2 - cur[s]] = sts[n]]
      /\ cur' = [cur EXCEPT ![s] = 1 - @]
      /\ lr0' = [lr0 EXCEPT ![s] = 0] /\ lT' = [lT EXCEPT ![s] = 0]
      /\ saved' = IF gm THEN saved ELSE toks
      /\ lastGm' = IF backend = "fn" THEN lastGm ELSE gm
      /\ hp' = IF backend = "fn" THEN [hp EXCEPT ![s] = sts[n]] ELSE hp
      /\ hprev' = IF backend = "fn" /\ spec[s] THEN sts[n] ELSE hprev
      /\ kv' = IF ~spec[s] THEN kv
               ELSE [kv EXCEPT ![s] = [x \in Positions |-> IF x \in p .. p + n - 1 THEN row(x - p) ELSE kv[s][x]]]
      /\ filling' = IF p + n = plen THEN {} ELSE filling
      /\ active' = IF p + n = plen THEN Append(active, s) ELSE active
      /\ UNCHANGED <<backend, reqs, req, spec, plen, plain, left, good>>
    BY <1>1, <1>3, <1>4, <1>5, <1>7, <1>8, Zenon
<1>10. sts[n] = After(j, p + n) /\ After(j, p + n) \in State
    <2>1. n \in 1 .. n /\ p + n \in 0 .. MaxCtx
        BY <1>4, <1>5, Bounds
    <2> QED
        BY <1>8, <2>1 DEF After, State
<1>11. /\ rec' \in [Slots -> [1 .. 2 -> State]]
       /\ \A t \in Slots : t # s => rec'[t] = rec[t] /\ cur'[t] = cur[t] /\ pos'[t] = pos[t]
       /\ rec'[s][2 - cur[s]] = After(j, p + n) /\ cur'[s] = 1 - cur[s] /\ pos'[s] = p + n
    <2>1. rec \in [Slots -> [1 .. 2 -> State]]
        BY <1>0 DEF TypeOK
    <2>2. /\ rec' \in [Slots -> [1 .. 2 -> State]]
          /\ \A t \in Slots : t # s => rec'[t] = rec[t]
          /\ rec'[s][2 - cur[s]] = After(j, p + n)
        BY <1>2, <1>6, <1>9, <1>10, <2>1, SpareTyped
    <2> QED
        BY <1>0, <1>2, <1>9, <2>2 DEF TypeOK
<1>12. TypeOK'
    <2>1. pos' \in [Slots -> 0 .. MaxCtx] /\ lr0' \in [Slots -> Nat] /\ lT' \in [Slots -> Nat]
        <3>1. p + n \in 0 .. MaxCtx /\ 0 \in Nat
            BY <1>4, <1>5, Bounds
        <3> QED
            BY <1>0, <1>9, <3>1, Zenon DEF TypeOK
    <2>2. cur' \in [Slots -> {0, 1}]
        BY <1>0, <1>6, <1>9 DEF TypeOK
    <2>3. hp' \in [Slots -> State] /\ hprev' \in State
        BY <1>0, <1>9, <1>10, Zenon DEF TypeOK
    <2>4. filling' \subseteq Slots /\ Range(active') \subseteq Slots
        <3>1. Range(Append(active, s)) = Range(active) \cup {s}
            BY <1>0, <1>2, AppendSlots DEF SlotsInv
        <3> QED
            BY <1>0, <1>2, <1>9, <3>1 DEF TypeOK
    <2>5. lastGm' \in BOOLEAN
        BY <1>0, <1>9 DEF TypeOK, IsGm
    <2> QED
        BY <1>0, <1>9, <1>11, <2>1, <2>2, <2>3, <2>4, <2>5 DEF TypeOK
<1>13. SlotsInv'
    <2>1. CASE p + n = plen
        <3>1. /\ active' \in Seq(Slots) /\ Distinct(active') /\ Range(active') = Range(active) \cup {s}
              /\ filling' = {}
            BY <1>0, <1>2, <1>9, <2>1, AppendSlots DEF SlotsInv
        <3>2. left' \in Seq(Slots) /\ Distinct(left') /\ Range(left') = {} /\ req' = req /\ left' = << >>
            BY <1>0, <1>2, <1>9 DEF SlotsInv
        <3>3. \A t \in Slots : IF t \in Range(active') THEN req'[t] # 0 /\ pos'[t] >= 1
                               ELSE req'[t] = 0 /\ pos'[t] = 0
            BY <1>0, <1>2, <1>3, <1>4, <1>5, <1>9, <1>11, <3>1 DEF SlotsInv, Reqs
        <3> QED
            BY <3>1, <3>2, <3>3 DEF SlotsInv
    <2>2. CASE p + n # plen
        <3>1. active' = active /\ filling' = filling /\ left' = left /\ req' = req /\ plen' = plen
            BY <1>9, <2>2
        <3>2. p + n < plen
            BY <1>4, <1>5, <2>2
        <3> QED
            BY <1>0, <1>2, <1>11, <3>1, <3>2 DEF SlotsInv, Distinct
    <2> QED
        BY <2>1, <2>2
<1>14. RoundInv'
    <2>1. left' = << >> /\ Range(left') = {}
        BY <1>2, <1>9
    <2> QED
        BY <2>1 DEF RoundInv
<1>15. HInv'
    <2> SUFFICES ASSUME backend = "fn"
                 PROVE  /\ \A t \in Range(active') \ Range(left') : hp'[t] = After(req'[t], pos'[t])
                        /\ \A t \in filling' : spec'[t] /\ pos'[t] > 0 => hprev' = After(req'[t], pos'[t])
        BY <1>9 DEF HInv
    <2>1. \A t \in Slots : hp'[t] = IF t = s THEN After(j, p + n) ELSE hp[t]
        BY <1>0, <1>9, <1>10, Zenon DEF TypeOK
    <2>2. Range(active') \subseteq Range(active) \cup {s}
        <3>1. Range(Append(active, s)) = Range(active) \cup {s}
            BY <1>0, <1>2, AppendSlots DEF SlotsInv
        <3> QED
            BY <1>9, <3>1
    <2>3. \A t \in Range(active') : hp'[t] = After(req'[t], pos'[t])
        BY <1>0, <1>2, <1>3, <1>9, <1>11, <2>1, <2>2 DEF HInv, TypeOK
    <2>4. \A t \in filling' : spec'[t] => hprev' = After(req'[t], pos'[t])
        BY <1>2, <1>3, <1>9, <1>10, <1>11
    <2> QED
        BY <2>3, <2>4
<1>16. Kept'
    <2>1. saved' \in Seq(Tokens0)
        BY <1>0, <1>7, <1>9, Zenon DEF Kept
    <2>2. DOMAIN kv' = Slots
        BY <1>0, <1>9, Zenon DEF Kept
    <2> QED
        BY <1>0, <1>9, <2>1, <2>2 DEF Kept
<1>17. TargetInStep'
    <2>1. 2 - cur[s] = cur'[s] + 1
        BY <1>6, <1>11
    <2>2. ASSUME NEW t \in Slots
          PROVE  Cur(t)' = IF pos'[t] = 0 THEN Clean ELSE After(req'[t], pos'[t])
        <3>1. CASE t = s
            <4>1. Cur(t)' = After(j, p + n) /\ pos'[t] # 0
                BY <1>4, <1>5, <1>11, <2>1, <3>1 DEF Cur
            <4> QED
                BY <1>3, <1>9, <1>11, <3>1, <4>1
        <3>2. CASE t # s
            BY <1>0, <1>9, <1>11, <3>2 DEF Cur, TargetInStep, After
        <3> QED
            BY <3>1, <3>2
    <2> QED
        BY <2>2 DEF TargetInStep, After
<1>18. DraftCacheExact'
    <2> SUFFICES ASSUME NEW t \in Slots, spec'[t], NEW x \in 0 .. pos'[t] - 1
                 PROVE  Exact(t, x)' \/ (backend' = "fn" /\ x \in plain'[t])
        BY DEF DraftCacheExact
    <2>1. CASE t # s
        <3>1. kv'[t] = kv[t]
            BY <1>0, <1>9, <2>1, Zenon DEF Kept
        <3> QED
            BY <1>0, <1>9, <1>11, <2>1, <3>1 DEF DraftCacheExact, Exact
    <2>2. CASE t = s
        <3>0. x \in Positions /\ x \in Nat /\ x < p + n
            BY <1>4, <1>5, <1>11, <2>2, Bounds DEF Positions
        <3>1. kv'[s] = [y \in Positions |-> IF y \in p .. p + n - 1 THEN row(y - p) ELSE kv[s][y]]
            BY <1>0, <1>2, <1>9, <2>2, Zenon DEF Kept
        <3>2. CASE x < p
            <4>1. kv'[s][x] = kv[s][x]
                BY <3>0, <3>1, <3>2
            <4>2. x \in 0 .. pos[s] - 1
                BY <1>4, <3>0, <3>2
            <4> QED
                BY <1>0, <1>2, <1>9, <2>2, <4>1, <4>2 DEF DraftCacheExact, Exact
        <3>3. CASE x >= p
            <4>1. PICK i \in 0 .. n - 1 : i = x - p /\ x = p + i
                BY <1>4, <1>5, <3>0, <3>3
            <4>2. kv'[s][x] = row(i)
                <5>1. x \in p .. p + n - 1
                    BY <1>4, <1>5, <3>0, <3>3
                <5> QED
                    BY <3>0, <3>1, <4>1, <5>1, Zenon
            <4>3. i + 1 \in 1 .. n /\ sts[i + 1] = After(j, x + 1) /\ toks[i + 1] = Tok(j, x)
                <5>1. i + 1 \in 1 .. n /\ p + (i + 1) = x + 1 /\ p + (i + 1) - 1 = x
                    BY <4>1
                <5> QED
                    BY <1>7, <1>8, <5>1
            <4>4. i # 0 => sts[i] = After(j, x)
                BY <1>8, <4>1
            <4>5. backend = "fn" /\ i = 0 => HBefore(p) = IF x = 0 THEN Clean ELSE After(j, x)
                <5> SUFFICES ASSUME backend = "fn", i = 0
                             PROVE  HBefore(p) = IF x = 0 THEN Clean ELSE After(j, x)
                    OBVIOUS
                <5>1. p > 0 => hprev = After(j, p)
                    BY <1>0, <1>3, <1>4, <1>9, <2>2 DEF HInv
                <5> QED
                    BY <1>4, <4>1, <5>1 DEF HBefore
            <4>6. ExactRow(j, x, row(i))
                <5>1. CASE backend = "b27"
                    BY <4>3, <5>1 DEF ExactRow
                <5>2. CASE backend = "fn"
                    BY <4>1, <4>3, <4>4, <4>5, <5>2 DEF ExactRow
                <5> QED
                    BY <1>0, <5>1, <5>2 DEF TypeOK
            <4>7. ExactRow(j, x, kv'[s][x])
                BY <4>2, <4>6, Zenon
            <4> QED
                <5>1. backend' = backend /\ req'[s] = j
                    BY <1>3, <1>9
                <5> QED
                    BY <2>2, <4>7, <5>1 DEF ExactRow, Exact, After
        <3> QED
            BY <3>0, <3>2, <3>3
    <2> QED
        BY <2>1, <2>2
<1> QED
    BY <1>12, <1>13, <1>14, <1>15, <1>16, <1>17, <1>18 DEF DraftInv

\* The tokens of a round: the last one of a slot and its drafts, g of them right.
RowsOf(g) ==
    [s \in Range(active) |->
        [i \in 1 .. 1 + Drafting(s) |-> IF i - 1 <= g[s] THEN Tok(req[s], pos[s] + i - 1) ELSE Wrong]]

\* A round fits in the rows that can be replayed.
LEMMA DraftsInBounds ==
    ASSUME TypeOK, NEW s \in Slots
    PROVE  Drafting(s) \in Nat /\ Drafting(s) < MaxRows
<1>1. Mtp \in Nat /\ NDraft \in Nat /\ MaxRows \in Nat /\ Mtp < MaxRows /\ NDraft < MaxRows /\ 0 < MaxRows
    BY Bounds
<1>2. Min({Mtp, 1}) = IF Mtp <= 1 THEN Mtp ELSE 1
    BY <1>1, MinOfTwo
<1>3. \A n : DraftN(n) \in {NDraft, Mtp, Min({Mtp, 1}), 0}
    BY DEF DraftN
<1>4. Drafting(s) \in {NDraft, Mtp, Min({Mtp, 1}), 0}
    BY <1>3 DEF Drafting
<1>5. PICK one \in Nat : one = Min({Mtp, 1}) /\ one < MaxRows
    <2>1. CASE Mtp <= 1
        BY <1>1, <1>2, <2>1
    <2>2. CASE ~(Mtp <= 1)
        <3>1. Min({Mtp, 1}) = 1 /\ 1 < MaxRows
            BY <1>1, <1>2, <2>2
        <3> QED
            BY <3>1
    <2> QED
        BY <2>1, <2>2
<1>6. Drafting(s) \in {NDraft, Mtp, one, 0}
    BY <1>4, <1>5, Zenon
<1> QED
    BY <1>1, <1>5, <1>6

\* A draft writes nothing below the position it starts at.
LEMMA DraftedBelow ==
    ASSUME NEW s, NEW k \in Nat, pos[s] \in Nat, NEW x \in Positions, x < pos[s]
    PROVE  Drafted(s, k)[x] = kv[s][x]
<1> DEFINE last == IF k = 0 THEN pos[s] - 1 ELSE IF backend = "fn" THEN pos[s] + k - 1 ELSE pos[s] + k
<1>1. last \in Int
    OBVIOUS
<1> HIDE DEF last
<1>2. ~(x \in pos[s] .. last)
    BY <1>1 DEF Positions
<1> QED
    BY <1>2, Zenon DEF Drafted, last

\* The tokens a slot has in a round.
LEMMA RowsOfTyped ==
    ASSUME TypeOK, SlotsInv, NEW g, NEW s \in Range(active), pos[s] + Drafting(s) < MaxCtx
    PROVE  /\ RowsOf(g)[s] \in Seq(Tokens0) /\ Len(RowsOf(g)[s]) = 1 + Drafting(s)
           /\ DOMAIN RowsOf(g)[s] = 1 .. 1 + Drafting(s)
           /\ \A i \in 1 .. 1 + Drafting(s) :
                 RowsOf(g)[s][i] = IF i - 1 <= g[s] THEN Tok(req[s], pos[s] + i - 1) ELSE Wrong
<1>1. s \in Slots
    BY DEF TypeOK
<1>2. PICK d \in Nat : d = Drafting(s)
    BY <1>1, DraftsInBounds
<1>3. req[s] \in Reqs /\ pos[s] \in Nat
    BY <1>1, Bounds DEF SlotsInv, TypeOK
<1>4. ASSUME NEW i \in 1 .. 1 + d
      PROVE  (IF i - 1 <= g[s] THEN Tok(req[s], pos[s] + i - 1) ELSE Wrong) \in Tokens0
    <2>1. pos[s] + i - 1 \in Positions
        BY <1>2, <1>3, Bounds DEF Positions
    <2> QED
        BY <1>3, <2>1 DEF Tokens0, Known
<1>5. RowsOf(g)[s] = [i \in 1 .. 1 + d |-> IF i - 1 <= g[s] THEN Tok(req[s], pos[s] + i - 1) ELSE Wrong]
    BY <1>2, Zenon DEF RowsOf
<1>6. 1 + d \in Nat
    BY <1>2
<1> QED
    BY <1>2, <1>4, <1>5, <1>6

\* Drafting and verifying keep the invariant: no draft writes below the position it starts at.
LEMMA RoundDraftInv ==
    ASSUME DraftInv, NEW g \in [Slots -> 0 .. Max({Mtp, NDraft})], Round(g)
    PROVE  DraftInv'
<1>0. TypeOK /\ SlotsInv /\ RoundInv /\ HInv /\ Kept /\ TargetInStep /\ DraftCacheExact
    BY DEF DraftInv
<1>1. /\ filling = {} /\ left = << >> /\ active # << >>
      /\ \A s \in Range(active) : g[s] <= Drafting(s) /\ pos[s] + Drafting(s) < MaxCtx
      /\ good' = g
      /\ plain' = [s \in Slots |-> IF s \in Range(active) /\ Drafting(s) = 0 THEN plain[s] \cup {pos[s]} ELSE plain[s]]
      /\ Forward(active, RowsOf(g))
      /\ left' = active
      /\ UNCHANGED <<backend, reqs, req, spec, pos, active, filling, plen, hp, hprev>>
    BY Zenon DEF Round, RowsOf
<1>2. /\ cur' = cur
      /\ lT' = [s \in Slots |-> IF s \in Range(active) THEN Len(RowsOf(g)[s]) ELSE lT[s]]
      /\ rec' = [s \in Slots |-> IF s \in Range(active)
                                 THEN [rec[s] EXCEPT ![2 - cur[s]] = Run(Cur(s), RowsOf(g)[s])] ELSE rec[s]]
      /\ \A s \in Slots : s \notin Range(active) => lr0'[s] = lr0[s]
      /\ DOMAIN lr0' = Slots
    BY <1>1, Zenon DEF Forward
<1>3. active \in Seq(Slots) /\ Distinct(active) /\ Range(active) \subseteq Slots /\ Range(left) = {}
    <2>1. Range(<< >>) = {}
        BY DEF Range
    <2> QED
        BY <1>0, <1>1, <2>1 DEF SlotsInv, TypeOK
<1>4. \A s \in Range(active) : /\ req[s] \in Reqs /\ pos[s] \in Nat /\ pos[s] >= 1 /\ pos[s] <= MaxCtx
                               /\ Cur(s) = After(req[s], pos[s]) /\ g[s] \in Nat
    <2>1. Max({Mtp, NDraft}) \in Int
        <3>1. Max({Mtp, NDraft}) = IF Mtp >= NDraft THEN Mtp ELSE NDraft
            BY Bounds DEF Max
        <3> QED
            BY <3>1, Bounds
    <2>2. \A s \in Slots : g[s] \in Nat
        BY <2>1
    <2>3. \A s \in Range(active) : s \in Slots /\ req[s] # 0 /\ pos[s] >= 1
        BY <1>0, <1>1, <1>3 DEF SlotsInv
    <2> QED
        BY <2>2, <2>3, SlotFacts, Bounds
<1>5. MaxCtx >= 1 /\ \A s \in Slots : Cur(s) \in State
    <2>1. PICK s \in Range(active) : TRUE
        <3>1. 1 \in DOMAIN active
            BY <1>1, <1>3
        <3> QED
            BY <3>1 DEF Range
    <2> QED
        BY <1>4, <2>1, SlotFacts, Bounds
<1>6. \A s \in Range(active) : /\ RowsOf(g)[s] \in Seq(Tokens0) /\ Len(RowsOf(g)[s]) = 1 + Drafting(s)
                               /\ DOMAIN RowsOf(g)[s] = 1 .. 1 + Drafting(s)
                               /\ Drafting(s) \in Nat /\ Drafting(s) < MaxRows
    BY <1>0, <1>1, <1>3, RowsOfTyped, DraftsInBounds
<1>7. PICK all \in Seq(Tokens0) :
             /\ saved' = IF IsGm(Len(active), Len(all)) THEN saved ELSE all
             /\ lastGm' = IsGm(Len(active), Len(all))
             /\ Len(active) = 1 => Len(all) = Len(RowsOf(g)[active[1]])
             /\ \A s \in Range(active) : RowsAt(s, RowsOf(g)[s], lr0'[s], all, hrow')
    <2>1. \A s \in Range(active) : RowsOf(g)[s] \in Seq(Tokens0)
        BY <1>6
    <2> QED
        BY <1>1, <1>3, <1>5, <2>1, ForwardRows
<1>8. lastGm' = FALSE /\ saved' = all
    <2>1. ~IsGm(Len(active), Len(all))
        <3> SUFFICES ASSUME Len(active) = 1, Len(all) > MaxRows
                     PROVE  FALSE
            BY DEF IsGm
        <3>1. active[1] \in Range(active)
            BY <1>3 DEF Range
        <3>2. PICK d \in Nat : d = Drafting(active[1]) /\ d < MaxRows /\ Len(all) = 1 + d
            BY <1>6, <1>7, <3>1
        <3> QED
            BY <3>2, Bounds
    <2> QED
        BY <1>7, <2>1
<1>9. ASSUME NEW s \in Range(active), NEW m \in 1 .. g[s] + 1
      PROVE  Run(Cur(s), SubSeq(RowsOf(g)[s], 1, m)) = After(req[s], pos[s] + m)
    <2>1. PICK xs \in Seq(Tokens0) : xs = RowsOf(g)[s] /\ Len(xs) = 1 + Drafting(s)
        BY <1>6
    <2>2. m \in 1 .. Len(xs)
        BY <1>1, <1>4, <1>6, <2>1
    <2>3. \A i \in 1 .. m : xs[i] = Tok(req[s], pos[s] + i - 1)
        <3> SUFFICES ASSUME NEW i \in 1 .. m
                     PROVE  xs[i] = Tok(req[s], pos[s] + i - 1)
            OBVIOUS
        <3>1. i \in 1 .. 1 + Drafting(s) /\ i - 1 <= g[s]
            BY <1>4, <1>6, <2>1, <2>2
        <3> QED
            BY <1>0, <1>1, <2>1, <3>1, RowsOfTyped
    <2>4. Run(Cur(s), SubSeq(xs, 1, m)) = After(req[s], pos[s] + m)
        BY <1>4, <2>2, <2>3, RightStates
    <2> QED
        BY <2>1, <2>4
<1>10. ASSUME NEW s \in Range(active)
       PROVE  /\ Run(Cur(s), RowsOf(g)[s]) \in State
              /\ g[s] + 1 = 1 + Drafting(s) => Run(Cur(s), RowsOf(g)[s]) = After(req[s], pos[s] + g[s] + 1)
    <2>1. PICK xs \in Seq(Tokens0) : xs = RowsOf(g)[s] /\ Len(xs) = 1 + Drafting(s)
        BY <1>6
    <2>2. PICK m \in Nat \ {0} : m = 1 + Drafting(s)
        BY <1>6
    <2>3. DOMAIN xs = 1 .. m /\ \A i \in 1 .. m : xs[i] \in Known \cup {Wrong}
        BY <2>1, <2>2 DEF Tokens0
    <2>4. Run(Cur(s), xs) \in State
        BY <1>3, <1>5, <2>2, <2>3, RunTyped
    <2>5. g[s] + 1 = m => Run(Cur(s), SubSeq(xs, 1, m)) = After(req[s], pos[s] + m)
        BY <1>9, <2>1
    <2>6. SubSeq(xs, 1, m) = xs
        BY <2>1, <2>2, SubSeqFull
    <2>7. g[s] + 1 = m => pos[s] + m = pos[s] + g[s] + 1
        <3>1. PICK p, k \in Nat : p = pos[s] /\ k = g[s]
            BY <1>4
        <3>2. \A x \in Nat : k + 1 = x => p + x = p + k + 1
            OBVIOUS
        <3>3. m \in Nat
            OBVIOUS
        <3> QED
            BY <3>1, <3>2, <3>3, Zenon
    <2> QED
        BY <2>1, <2>2, <2>4, <2>5, <2>6, <2>7
<1>11. /\ rec' \in [Slots -> [1 .. 2 -> State]]
       /\ \A s \in Slots : Cur(s)' = Cur(s)
       /\ \A s \in Range(active) : rec'[s][2 - cur[s]] = Run(Cur(s), RowsOf(g)[s])
    <2>0. rec \in [Slots -> [1 .. 2 -> State]] /\ cur \in [Slots -> {0, 1}]
        BY <1>0 DEF TypeOK
    <2>1. ASSUME NEW s \in Range(active)
          PROVE  /\ rec'[s] \in [1 .. 2 -> State] /\ rec'[s][2 - cur[s]] = Run(Cur(s), RowsOf(g)[s])
                 /\ rec'[s][cur[s] + 1] = rec[s][cur[s] + 1]
        <3>1. s \in Slots /\ cur[s] \in {0, 1}
            BY <1>3, <2>0
        <3>2. rec'[s] = [rec[s] EXCEPT ![2 - cur[s]] = Run(Cur(s), RowsOf(g)[s])]
            BY <1>2, <3>1, Zenon
        <3>3. PICK st \in State : st = Run(Cur(s), RowsOf(g)[s])
            BY <1>10
        <3> QED
            BY <2>0, <3>1, <3>2, <3>3, SpareTyped
    <2>2. \A s \in Slots : s \notin Range(active) => rec'[s] = rec[s]
        BY <1>2, Zenon
    <2>3. \A s \in Slots : rec'[s] \in [1 .. 2 -> State] /\ rec'[s][cur[s] + 1] = rec[s][cur[s] + 1]
        BY <2>0, <2>1, <2>2
    <2>4. DOMAIN rec' = Slots /\ rec' = [s \in Slots |-> rec'[s]]
        BY <1>2, Zenon
    <2> QED
        BY <1>2, <2>1, <2>3, <2>4, Zenon DEF Cur
<1>12. TypeOK'
    <2>1. lr0' \in [Slots -> Nat] /\ lT' \in [Slots -> Nat]
        <3>1. lr0 \in [Slots -> Nat] /\ lT \in [Slots -> Nat]
            BY <1>0 DEF TypeOK
        <3>2. \A s \in Range(active) : lr0'[s] \in Nat /\ Len(RowsOf(g)[s]) \in Nat
            BY <1>6, <1>7 DEF RowsAt
        <3>3. \A s \in Slots : lr0'[s] \in Nat
            BY <1>2, <3>1, <3>2
        <3>4. lr0' = [s \in Slots |-> lr0'[s]]
            <4> DEFINE before(i) == Len(FlattenSeq([k \in 1 .. i - 1 |-> RowsOf(g)[active[k]]]))
                       at(s) == CHOOSE i \in DOMAIN active : active[i] = s
            <4>1. lr0' = [s \in Slots |-> IF s \in Range(active) THEN before(at(s)) ELSE lr0[s]]
                BY <1>1, Zenon DEF Forward
            <4> HIDE DEF before, at
            <4> QED
                BY <4>1, Zenon
        <3>5. \A s \in Slots : lT'[s] \in Nat
            BY <1>2, <3>1, <3>2
        <3> QED
            BY <1>2, <3>3, <3>4, <3>5
    <2>2. plain' \in [Slots -> SUBSET Positions]
        <3>1. \A s \in Range(active) : pos[s] \in Positions
            BY <1>1, <1>4, <1>6, Bounds DEF Positions
        <3> QED
            BY <1>0, <1>1, <3>1 DEF TypeOK
    <2>3. lastGm' \in BOOLEAN
        BY <1>8
    <2> QED
        BY <1>0, <1>1, <1>2, <1>11, <2>1, <2>2, <2>3 DEF TypeOK
<1>13. SlotsInv'
    BY <1>0, <1>1 DEF SlotsInv, Distinct
<1>14. /\ DOMAIN kv' = Slots
       /\ \A s \in Slots : kv'[s] = IF s \in Range(active) THEN Drafted(s, Drafting(s)) ELSE kv[s]
    BY Zenon DEF Round
<1>15. ASSUME NEW s \in Slots, NEW x \in Positions, x < pos[s]
       PROVE  kv'[s][x] = kv[s][x]
    <2>1. CASE s \in Range(active)
        <3>2. pos[s] \in Int /\ Drafting(s) \in Int
            BY <1>4, <1>6, <2>1
        <3>3. Drafted(s, Drafting(s))[x] = kv[s][x]
            <4>1. PICK k \in Nat : k = Drafting(s)
                BY <1>6, <2>1
            <4>2. pos[s] \in Nat
                BY <1>4, <2>1
            <4> QED
                BY ONLY x \in Positions, x < pos[s], <4>1, <4>2, DraftedBelow
        <3> QED
            BY <1>14, <2>1, <3>3
    <2>2. CASE s \notin Range(active)
        BY <1>14, <2>2
    <2> QED
        BY <2>1, <2>2
<1>16. RoundInv'
    <2> SUFFICES ASSUME NEW s \in Range(active)
                 PROVE  Waits(s)' /\ Anchored(s)'
        BY <1>1, <1>8 DEF RoundInv
    <2>1. PICK d \in Nat : d = Drafting(s) /\ g[s] <= d /\ pos[s] + d < MaxCtx
        BY <1>1, <1>6
    <2>2. PICK n \in Nat \ {0} : n = g[s] + 1 /\ n <= 1 + d
        BY <1>4, <2>1
    <2>3. PICK xs \in Seq(Tokens0) : xs = RowsOf(g)[s] /\ Len(xs) = 1 + d
        BY <1>6, <2>1
    <2>4. PICK r \in Nat : r = lr0'[s] /\ r + Len(xs) <= Len(all) /\ RowsAt(s, xs, r, all, hrow')
        BY <1>7, <2>3 DEF RowsAt
    <2>5. \A q \in 1 .. Len(xs) : all[r + q] = xs[q] /\ hrow'[r + q] = Run(Cur(s), SubSeq(xs, 1, q))
        BY <2>4 DEF RowsAt
    <2>6. lT'[s] = 1 + d
        BY <1>2, <1>3, <2>3
    <2>7. \A i \in 1 .. n : hrow'[r + i] = After(req[s], pos[s] + i) /\ all[r + i] = Tok(req[s], pos[s] + i - 1)
        <3> SUFFICES ASSUME NEW i \in 1 .. n
                     PROVE  hrow'[r + i] = After(req[s], pos[s] + i) /\ all[r + i] = Tok(req[s], pos[s] + i - 1)
            OBVIOUS
        <3>1. i \in 1 .. Len(xs) /\ i \in 1 .. 1 + Drafting(s) /\ i \in 1 .. g[s] + 1 /\ i - 1 <= g[s]
            BY <1>4, <2>1, <2>2, <2>3
        <3>2. xs[i] = Tok(req[s], pos[s] + i - 1)
            BY <1>0, <1>1, <2>3, <3>1, RowsOfTyped
        <3>3. Run(Cur(s), SubSeq(xs, 1, i)) = After(req[s], pos[s] + i)
            BY <1>9, <2>3, <3>1
        <3> QED
            BY <2>5, <3>1, <3>2, <3>3
    <2>8. n = 1 + d => rec'[s][2 - cur[s]] = After(req[s], pos[s] + n)
        <3>0. PICK p, k \in Nat : p = pos[s] /\ k = g[s]
            BY <1>4
        <3>1. pos[s] + n = pos[s] + g[s] + 1
            <4>0. n = k + 1
                BY <2>2, <3>0, Zenon
            <4>1. p + n = p + k + 1
                BY <4>0
            <4> QED
                BY <3>0, <4>1
        <3> QED
            BY <1>10, <1>11, <2>1, <2>2, <3>1
    <2>9. Waits(s)'
        <3>1. good'[s] + 1 = n /\ cur' = cur /\ pos' = pos /\ req' = req /\ saved' = all
            BY <1>1, <1>2, <1>8, <2>2
        <3>2. pos[s] + n <= MaxCtx /\ r + n <= Len(all) /\ n <= 1 + d
            <4>1. PICK p \in Nat : p = pos[s]
                BY <1>4
            <4>2. n <= 1 + d
                BY <2>2
            <4>3. p + d < MaxCtx
                BY <2>1, <4>1, Zenon
            <4>4. p + n <= MaxCtx
                BY <4>2, <4>3, Bounds
            <4>5. r + n <= Len(all)
                <5>1. r + (1 + d) <= Len(all)
                    BY <2>3, <2>4, Zenon
                <5> QED
                    BY <4>2, <5>1
            <4> QED
                BY <4>1, <4>2, <4>4, <4>5, Zenon
        <3> QED
            BY <2>4, <2>6, <2>7, <2>8, <3>1, <3>2 DEF Waits
    <2>10. Anchored(s)'
        <3> SUFFICES ASSUME backend = "fn", spec[s]
                     PROVE  \/ kv'[s][pos[s]] = [of |-> Tok(req[s], pos[s]), h |-> After(req[s], pos[s])]
                            \/ pos[s] \in plain'[s]
            BY <1>1 DEF Anchored
        <3>1. CASE d = 0
            <4>1. plain'[s] = plain[s] \cup {pos[s]}
                BY <1>1, <1>3, <2>1, <3>1
            <4> QED
                BY <4>1
        <3>2. CASE d # 0
            <4>1. pos[s] \in Positions /\ pos[s] \in pos[s] .. pos[s] + d - 1 /\ pos[s] - pos[s] = 0
                BY <1>4, <2>1, <3>2, Bounds DEF Positions
            <4>2. Drafted(s, d)[pos[s]] = ChainedRow(s, 0)
                BY <3>2, <4>1, Zenon DEF Drafted
            <4>3. hp[s] = After(req[s], pos[s])
                BY <1>0, <1>3 DEF HInv
            <4>4. 0 <= good'[s] /\ pos[s] + 0 = pos[s]
                BY <1>1, <1>4
            <4>5. ChainedRow(s, 0) = [of |-> Tok(req[s], pos[s]), h |-> After(req[s], pos[s])]
                BY <4>3, <4>4 DEF ChainedRow
            <4> QED
                BY <1>3, <1>14, <2>1, <4>2, <4>5
        <3> QED
            BY <3>1, <3>2
    <2> QED
        BY <2>9, <2>10
<1>17. HInv'
    BY <1>1 DEF HInv
<1>18. Kept'
    <2>1. \A s \in Slots : g[s] \in Nat
        <3>1. Max({Mtp, NDraft}) = IF Mtp >= NDraft THEN Mtp ELSE NDraft
            BY Bounds DEF Max
        <3> QED
            BY <3>1, Bounds
    <2>2. g \in [Slots -> Nat]
        BY <2>1
    <2> QED
        BY <1>1, <1>8, <1>14, <2>2 DEF Kept
<1>19. TargetInStep'
    BY <1>0, <1>1, <1>11 DEF TargetInStep
<1>20. DraftCacheExact'
    <2> SUFFICES ASSUME NEW s \in Slots, spec[s], NEW x \in 0 .. pos[s] - 1
                 PROVE  Exact(s, x)' \/ (backend = "fn" /\ x \in plain'[s])
        BY <1>1 DEF DraftCacheExact
    <2>1. x \in Positions /\ x < pos[s]
        BY SlotFacts, Bounds DEF Positions
    <2>2. kv'[s][x] = kv[s][x]
        BY <1>15, <2>1
    <2>3. plain[s] \subseteq plain'[s]
        BY <1>1, <1>0 DEF TypeOK
    <2>4. Exact(s, x) \/ (backend = "fn" /\ x \in plain[s])
        BY <1>0 DEF DraftCacheExact
    <2>5. Exact(s, x) => Exact(s, x)'
        BY <1>1, <2>2 DEF Exact
    <2> QED
        BY <2>3, <2>4, <2>5
<1> QED
    BY <1>12, <1>13, <1>16, <1>17, <1>18, <1>19, <1>20 DEF DraftInv

-----------------------------------------------------------------------------
(* Accepting what a round found.                                           *)

\* The rows of a waiting slot.
LEMMA WaitingRows ==
    ASSUME DraftInv, NEW s \in Range(left)
    PROVE  /\ s \in Slots /\ s \in Range(active) /\ req[s] \in Reqs /\ pos[s] \in Nat \ {0}
           /\ good[s] \in Nat /\ lr0[s] \in Nat /\ lT[s] \in Nat /\ pos[s] + good[s] + 1 <= MaxCtx
           /\ cur[s] \in {0, 1} /\ Cur(s) = After(req[s], pos[s])
           /\ \A i \in 1 .. good[s] + 1 : hrow[lr0[s] + i] = After(req[s], pos[s] + i)
<1>0. TypeOK /\ SlotsInv /\ RoundInv /\ Kept
    BY DEF DraftInv
<1>1. s \in Range(active) /\ s \in Slots /\ Waits(s) /\ left # << >> /\ filling = {}
    <2>1. left # << >>
        BY DEF Range
    <2> QED
        BY <1>0, <2>1 DEF TypeOK, SlotsInv, RoundInv
<1>2. req[s] # 0 /\ pos[s] >= 1
    BY <1>0, <1>1 DEF SlotsInv
<1>3. req[s] \in Reqs /\ pos[s] \in Nat \ {0} /\ cur[s] \in {0, 1} /\ Cur(s) = After(req[s], pos[s])
    <2>1. pos[s] \in 0 .. MaxCtx
        BY <1>1, SlotFacts
    <2>2. pos[s] \in Nat \ {0}
        BY <1>2, <2>1, Bounds
    <2> QED
        BY <1>1, <1>2, <2>2, SlotFacts
<1>4. good[s] \in Nat /\ lr0[s] \in Nat /\ lT[s] \in Nat
    BY <1>0, <1>1 DEF TypeOK, Kept
<1>5. PICK k, p \in Nat : k = good[s] /\ p = pos[s]
    BY <1>3, <1>4
<1>6. p + (k + 1) <= MaxCtx
    BY <1>1, <1>5 DEF Waits
<1>7. p + k + 1 <= MaxCtx
    BY <1>6, Bounds
<1>8. \A i \in 1 .. good[s] + 1 : hrow[lr0[s] + i] = After(req[s], pos[s] + i)
    BY <1>1, Zenon DEF Waits
<1> QED
    BY <1>1, <1>3, <1>4, <1>5, <1>7, <1>8

\* Whether the pass is kept whole or replayed, accept commits the state after
\* the accepted tokens.
LEMMA AcceptedState ==
    ASSUME DraftInv, NEW s \in Range(left), Accepted(s, good[s] + 1)
    PROVE  /\ rec' \in [Slots -> [1 .. 2 -> State]] /\ cur' \in [Slots -> {0, 1}]
           /\ \A t \in Slots : t # s => rec'[t] = rec[t] /\ cur'[t] = cur[t] /\ lT'[t] = lT[t]
           /\ Cur(s)' = After(req[s], pos[s] + good[s] + 1) /\ lT' \in [Slots -> Nat]
<1>0. TypeOK /\ SlotsInv /\ RoundInv /\ Kept
    BY DEF DraftInv
<1>1. PICK k, p \in Nat : k = good[s] /\ p = pos[s]
    BY WaitingRows
<1>2. PICK j \in Reqs : j = req[s]
    BY WaitingRows
<1>3. PICK m \in Nat \ {0} : m = good[s] + 1 /\ pos[s] + good[s] + 1 = p + m /\ p + m <= MaxCtx
    BY <1>1, WaitingRows
<1>4. /\ s \in Slots /\ cur[s] \in {0, 1} /\ Cur(s) = After(j, p) /\ lr0[s] \in Nat
    BY <1>1, <1>2, WaitingRows
<1>5. PICK r \in Nat : r = lr0[s]
    BY <1>4
<1>6. left # << >> /\ Waits(s) /\ ~lastGm
    <2>1. left # << >>
        BY DEF Range
    <2> QED
        BY <1>0, <2>1 DEF RoundInv
<1>7. /\ r + m <= Len(saved)
      /\ \A i \in 1 .. m : saved[r + i] = Tok(j, p + i - 1)
      /\ m = lT[s] => rec[s][2 - cur[s]] = After(j, p + m)
    BY <1>1, <1>2, <1>3, <1>5, <1>6, Zenon DEF Waits
<1>8. /\ cur' = [cur EXCEPT ![s] = 1 - @]
      /\ lT' = [lT EXCEPT ![s] = 0]
      /\ rec' = IF m = lT[s] THEN rec
                ELSE [rec EXCEPT ![s][2 - cur[s]] =
                        IF lastGm THEN Junk ELSE Run(Cur(s), SubSeq(saved, lr0[s] + 1, lr0[s] + m))]
    BY <1>3, Zenon DEF Accepted
<1>9. rec \in [Slots -> [1 .. 2 -> State]] /\ cur \in [Slots -> {0, 1}] /\ lT \in [Slots -> Nat]
    BY <1>0 DEF TypeOK
<1>10. Run(Cur(s), SubSeq(saved, r + 1, r + m)) = After(j, p + m)
    <2>0. saved \in Seq(Tokens0) /\ \A q \in 1 .. Len(saved) : saved[q] \in Tokens0
        BY <1>0 DEF Kept
    <2>1. SubSeq(saved, r + 1, r + m) \in Seq(Tokens0) /\ Len(SubSeq(saved, r + 1, r + m)) = m
        BY <1>7, <2>0
    <2>2. \A i \in 1 .. m : SubSeq(saved, r + 1, r + m)[i] = saved[r + i]
        BY <1>7, <2>0
    <2>3. PICK ys \in Seq(Tokens0) : /\ ys = SubSeq(saved, r + 1, r + m) /\ Len(ys) = m
                                     /\ \A i \in 1 .. m : ys[i] = saved[r + i]
        BY <2>1, <2>2, Zenon
    <2>4. DOMAIN ys = 1 .. m /\ \A i \in 1 .. m : ys[i] = Tok(j, p + i - 1)
        <3>1. DOMAIN ys = 1 .. m
            BY <2>3
        <3>2. \A i \in 1 .. m : ys[i] = Tok(j, p + i - 1)
            BY <1>7, <2>3, Zenon
        <3> QED
            BY <3>1, <3>2
    <2>5. GoesOn(Cur(s), j, p, ys, m)
        BY <1>4, <2>4, Zenon DEF GoesOn
    <2>6. Run(Cur(s), ys) = After(j, p + m)
        BY <2>5, RunCounts
    <2> QED
        BY <2>3, <2>6
<1>11. After(j, p + m) \in State
    BY <1>3, Bounds DEF After, State
<1>12. /\ rec' \in [Slots -> [1 .. 2 -> State]]
       /\ \A t \in Slots : t # s => rec'[t] = rec[t]
       /\ rec'[s][2 - cur[s]] = After(j, p + m)
    <2>1. CASE m = lT[s]
        BY <1>7, <1>8, <1>9, <2>1
    <2>2. CASE m # lT[s]
        <3>1. rec' = [rec EXCEPT ![s][2 - cur[s]] = After(j, p + m)]
            BY <1>5, <1>6, <1>8, <1>10, <2>2, Zenon
        <3> QED
            BY <1>4, <1>9, <1>11, <3>1, SpareTyped
    <2> QED
        BY <2>1, <2>2
<1>13. /\ \A t \in Slots : t # s => cur'[t] = cur[t] /\ lT'[t] = lT[t]
       /\ cur'[s] = 1 - cur[s] /\ cur' \in [Slots -> {0, 1}] /\ lT' \in [Slots -> Nat]
    BY <1>4, <1>8, <1>9
<1>14. Cur(s)' = After(j, p + m)
    <2>1. 2 - cur[s] = cur'[s] + 1
        BY <1>4, <1>13
    <2> QED
        BY <1>12, <2>1 DEF Cur
<1> QED
    BY <1>2, <1>3, <1>12, <1>13, <1>14

\* accept keeps the invariant, however much of the pass it keeps.
LEMMA AcceptDraftInv ==
    ASSUME DraftInv, NEW ends \in BOOLEAN, AcceptSlot(ends)
    PROVE  DraftInv'
<1>0. TypeOK /\ SlotsInv /\ RoundInv /\ HInv /\ Kept /\ TargetInStep /\ DraftCacheExact
    BY DEF DraftInv
<1>1. PICK s \in Range(left) : s = Head(left) /\ left # << >> /\ left \in Seq(Slots)
    <2>1. left \in Seq(Slots) /\ left # << >>
        BY <1>0 DEF SlotsInv, AcceptSlot
    <2> QED
        BY <2>1, <1>0, TailSlots DEF SlotsInv
<1> DEFINE mm == good[s]
           n == pos[s]
           first == IF backend = "b27" THEN n ELSE n + 1
           row(x) == IF backend = "b27" THEN EncodedRow(s, x) ELSE CaughtUpRow(s, x)
<1>2. /\ kv' = [kv EXCEPT ![s] = [x \in Positions |-> IF x \in first .. n + mm THEN row(x) ELSE kv[s][x]]]
      /\ hp' = IF backend = "fn" THEN [hp EXCEPT ![s] = hrow[PendingRow(s, mm)]] ELSE hp
      /\ left' = Tail(left)
      /\ UNCHANGED <<backend, reqs, spec, filling, plen, hprev, plain, good>>
    BY <1>1, Zenon DEF AcceptSlot
<1>3. ends => /\ req' = [req EXCEPT ![s] = 0] /\ pos' = [pos EXCEPT ![s] = 0]
              /\ active' = RemoveFirst(active, s)
              /\ cur' = [cur EXCEPT ![s] = 0] /\ rec' = [rec EXCEPT ![s] = <<Clean, Clean>>]
              /\ lT' = [lT EXCEPT ![s] = 0]
              /\ UNCHANGED <<saved, hrow, lr0, lastGm>>
    BY <1>1, Zenon DEF AcceptSlot
<1>4. ~ends => /\ pos' = [pos EXCEPT ![s] = n + mm + 1]
               /\ Accepted(s, mm + 1)
               /\ UNCHANGED <<req, active>>
    BY <1>1, Zenon DEF AcceptSlot
<1>5. /\ s \in Slots /\ s \in Range(active) /\ req[s] \in Reqs /\ n \in Nat \ {0}
      /\ mm \in Nat /\ lr0[s] \in Nat /\ n + mm + 1 <= MaxCtx /\ Cur(s) = After(req[s], n)
      /\ \A i \in 1 .. mm + 1 : hrow[lr0[s] + i] = After(req[s], n + i)
    BY WaitingRows
<1>6. filling = {} /\ ~lastGm
    BY <1>0, <1>1 DEF SlotsInv, RoundInv
<1>7. UNCHANGED <<saved, hrow, lr0, lastGm>>
    BY <1>3, <1>4, Zenon DEF Accepted
<1>8. /\ left' \in Seq(Slots) /\ Distinct(left') /\ Range(left') = Range(left) \ {s}
    BY <1>0, <1>1, <1>2, TailSlots DEF SlotsInv
<1>9. /\ active' \in Seq(Slots) /\ Distinct(active')
      /\ Range(active') = IF ends THEN Range(active) \ {s} ELSE Range(active)
    <2>1. CASE ends
        BY <1>0, <1>3, <1>5, <2>1, WithoutOne DEF SlotsInv
    <2>2. CASE ~ends
        BY <1>0, <1>4, <2>2 DEF SlotsInv, Distinct
    <2> QED
        BY <2>1, <2>2
<1> DEFINE next == After(req[s], n + mm + 1)
<1>10. next \in State /\ n + mm + 1 \in 1 .. MaxCtx
    BY <1>5, Bounds DEF After, State
<1>11. /\ rec' \in [Slots -> [1 .. 2 -> State]] /\ cur' \in [Slots -> {0, 1}] /\ lT' \in [Slots -> Nat]
       /\ \A t \in Slots : t # s => rec'[t] = rec[t] /\ cur'[t] = cur[t] /\ lT'[t] = lT[t]
       /\ Cur(s)' = IF ends THEN Clean ELSE next
    <2>1. CASE ends
        <3>0. rec \in [Slots -> [1 .. 2 -> State]] /\ cur \in [Slots -> {0, 1}] /\ lT \in [Slots -> Nat]
            BY <1>0 DEF TypeOK
        <3>1. Clean \in State /\ <<Clean, Clean>> \in [1 .. 2 -> State]
            BY Bounds DEF Clean, State
        <3>2. rec' \in [Slots -> [1 .. 2 -> State]]
            BY <1>3, <2>1, <3>0, <3>1, Zenon
        <3>3. cur' \in [Slots -> {0, 1}] /\ lT' \in [Slots -> Nat]
            BY <1>3, <2>1, <3>0
        <3>4. \A t \in Slots : t # s => rec'[t] = rec[t] /\ cur'[t] = cur[t] /\ lT'[t] = lT[t]
            BY <1>3, <2>1, <3>0, Zenon
        <3>5. rec'[s] = <<Clean, Clean>> /\ cur'[s] = 0
            BY <1>3, <1>5, <2>1, <3>0, Zenon
        <3>6. Cur(s)' = Clean
            BY <3>5 DEF Cur
        <3> QED
            BY <2>1, <3>2, <3>3, <3>4, <3>6
    <2>2. CASE ~ends
        BY <1>4, <2>2, AcceptedState
    <2> QED
        BY <2>1, <2>2
<1>12. /\ \A t \in Slots : t # s => req'[t] = req[t] /\ pos'[t] = pos[t]
       /\ req'[s] = IF ends THEN 0 ELSE req[s]
       /\ pos'[s] = IF ends THEN 0 ELSE n + mm + 1
       /\ req' \in [Slots -> Reqs \cup {0}] /\ pos' \in [Slots -> 0 .. MaxCtx]
    <2>0. req \in [Slots -> Reqs \cup {0}] /\ pos \in [Slots -> 0 .. MaxCtx] /\ 0 \in 0 .. MaxCtx
        BY <1>0, Bounds DEF TypeOK
    <2>1. CASE ends
        BY <1>3, <1>5, <2>0, <2>1
    <2>2. CASE ~ends
        <3>1. n + mm + 1 \in 0 .. MaxCtx
            BY <1>10
        <3> QED
            BY <1>4, <1>5, <2>0, <2>2, <3>1
    <2> QED
        BY <2>1, <2>2
<1>13. backend = "fn" => hp' \in [Slots -> State] /\ hp'[s] = next /\ \A t \in Slots : t # s => hp'[t] = hp[t]
    <2> SUFFICES ASSUME backend = "fn"
                 PROVE  hp' \in [Slots -> State] /\ hp'[s] = next /\ \A t \in Slots : t # s => hp'[t] = hp[t]
        OBVIOUS
    <2>1. hrow[PendingRow(s, mm)] = next
        <3>1. mm + 1 \in 1 .. mm + 1 /\ lr0[s] + (mm + 1) = lr0[s] + mm + 1 /\ n + (mm + 1) = n + mm + 1
            BY <1>5
        <3>2. hrow[lr0[s] + (mm + 1)] = After(req[s], n + (mm + 1))
            BY <1>5, <3>1, Zenon
        <3> QED
            BY <3>1, <3>2 DEF PendingRow
    <2>2. hp \in [Slots -> State]
        BY <1>0 DEF TypeOK
    <2> QED
        BY <1>2, <1>5, <1>10, <2>1, <2>2, Zenon
<1>14. /\ DOMAIN kv' = Slots /\ \A t \in Slots : t # s => kv'[t] = kv[t]
       /\ \A x \in Positions : kv'[s][x] = IF x \in first .. n + mm THEN row(x) ELSE kv[s][x]
    <2>1. DOMAIN kv = Slots
        BY <1>0 DEF Kept
    <2>2. DOMAIN kv' = Slots /\ \A t \in Slots : t # s => kv'[t] = kv[t]
        BY <1>2, <2>1, Zenon
    <2>3. kv'[s] = [x \in Positions |-> IF x \in first .. n + mm THEN row(x) ELSE kv[s][x]]
        BY <1>2, <1>5, <2>1, Zenon
    <2> QED
        BY <2>2, <2>3, Zenon
<1>15. TypeOK'
    <2>1. hp' \in [Slots -> State]
        <3>1. CASE backend = "fn"
            BY <1>13, <3>1
        <3>2. CASE backend # "fn"
            BY <1>0, <1>2, <3>2 DEF TypeOK
        <3> QED
            BY <3>1, <3>2
    <2>2. Range(active') \subseteq Slots /\ filling' \subseteq Slots
        BY <1>0, <1>2, <1>9 DEF TypeOK
    <2> QED
        BY <1>0, <1>2, <1>7, <1>11, <1>12, <2>1, <2>2 DEF TypeOK
<1>16. SlotsInv'
    <2>1. Range(left') \subseteq Range(active')
        BY <1>0, <1>8, <1>9 DEF SlotsInv
    <2>2. filling' = {}
        BY <1>2, <1>6
    <2>3. \A t \in Slots : IF t \in Range(active') THEN req'[t] # 0 /\ pos'[t] >= 1
                           ELSE req'[t] = 0 /\ pos'[t] = 0
        <3> SUFFICES ASSUME NEW t \in Slots
                     PROVE  IF t \in Range(active') THEN req'[t] # 0 /\ pos'[t] >= 1
                            ELSE req'[t] = 0 /\ pos'[t] = 0
            OBVIOUS
        <3>1. CASE t = s
            BY <1>5, <1>9, <1>10, <1>12, <3>1 DEF Reqs
        <3>2. CASE t # s
            BY <1>0, <1>6, <1>9, <1>12, <3>2 DEF SlotsInv
        <3> QED
            BY <3>1, <3>2
    <2> QED
        BY <1>8, <1>9, <2>1, <2>2, <2>3 DEF SlotsInv
<1>17. RoundInv'
    <2> SUFFICES ASSUME NEW t \in Range(left')
                 PROVE  Waits(t)' /\ Anchored(t)'
        BY <1>6, <1>7 DEF RoundInv
    <2>1. t \in Slots /\ t # s /\ t \in Range(left)
        BY <1>8, WaitingRows
    <2>2. Waits(t) /\ Anchored(t)
        BY <1>0, <2>1 DEF RoundInv
    <2>3. /\ rec'[t] = rec[t] /\ cur'[t] = cur[t] /\ lT'[t] = lT[t] /\ req'[t] = req[t] /\ pos'[t] = pos[t]
          /\ kv'[t] = kv[t]
        BY <1>11, <1>12, <1>14, <2>1
    <2>4. Waits(t)'
        BY <1>2, <1>7, <2>2, <2>3, Zenon DEF Waits
    <2>5. Anchored(t)'
        BY <1>2, <2>2, <2>3, Zenon DEF Anchored
    <2> QED
        BY <2>4, <2>5
<1>18. HInv'
    <2> SUFFICES ASSUME backend = "fn", NEW t \in Range(active') \ Range(left')
                 PROVE  hp'[t] = After(req'[t], pos'[t])
        BY <1>2, <1>6 DEF HInv
    <2>1. t \in Slots
        BY <1>0, <1>9 DEF TypeOK
    <2>2. CASE t = s
        BY <1>9, <1>12, <1>13, <2>2
    <2>3. CASE t # s
        <3>1. t \in Range(active) \ Range(left)
            BY <1>8, <1>9, <2>3
        <3> QED
            BY <1>0, <1>12, <1>13, <2>1, <2>3, <3>1 DEF HInv
    <2> QED
        BY <2>2, <2>3
<1>19. Kept'
    BY <1>0, <1>2, <1>7, <1>14 DEF Kept
<1>20. TargetInStep'
    <2> SUFFICES ASSUME NEW t \in Slots
                 PROVE  Cur(t)' = IF pos'[t] = 0 THEN Clean ELSE After(req'[t], pos'[t])
        BY DEF TargetInStep, After
    <2>1. CASE t = s
        BY <1>10, <1>11, <1>12, <2>1
    <2>2. CASE t # s
        BY <1>0, <1>11, <1>12, <2>2 DEF TargetInStep, Cur, After
    <2> QED
        BY <2>1, <2>2
<1>21. DraftCacheExact'
    <2> SUFFICES ASSUME NEW t \in Slots, spec[t], NEW x \in 0 .. pos'[t] - 1
                 PROVE  Exact(t, x)' \/ (backend = "fn" /\ x \in plain[t])
        BY <1>2 DEF DraftCacheExact
    <2>1. CASE t # s
        <3>1. kv'[t] = kv[t] /\ req'[t] = req[t] /\ pos'[t] = pos[t]
            BY <1>12, <1>14, <2>1
        <3> QED
            BY <1>0, <1>2, <3>1 DEF DraftCacheExact, Exact
    <2>2. CASE t = s
        <3>1. ~ends /\ x \in 0 .. n + mm
            BY <1>5, <1>12, <2>2
        <3>2. req'[s] = req[s] /\ backend' = backend
            BY <1>2, <1>12, <3>1
        <3>3. x \in Positions /\ x \in Nat
            BY <1>5, <3>1, Bounds DEF Positions
        <3>4. SUFFICES ExactRow(req[s], x, kv'[s][x]) \/ (backend = "fn" /\ x \in plain[s])
            BY <2>2, <3>2 DEF Exact, ExactRow, After
        <3>5. PICK r \in Nat : r = lr0[s] /\ \A i \in 1 .. mm + 1 : hrow[r + i] = After(req[s], n + i)
            BY <1>5
        <3>6. CASE x < n
            <4>1. kv'[s][x] = kv[s][x]
                BY <1>5, <1>14, <3>3, <3>6
            <4>2. x \in 0 .. pos[s] - 1
                BY <1>5, <3>3, <3>6
            <4> QED
                BY <1>0, <1>5, <2>2, <4>1, <4>2, ExactIsExactRow DEF DraftCacheExact
        <3>7. CASE backend = "b27" /\ x >= n
            <4>1. x \in n .. n + mm /\ kv'[s][x] = EncodedRow(s, x)
                BY <1>5, <1>14, <3>1, <3>3, <3>7
            <4>2. hrow[r + x - n + 1] = After(req[s], x + 1)
                <5>1. PICK i \in 1 .. mm + 1 : r + i = r + x - n + 1 /\ n + i = x + 1
                    <6>1. /\ x - n + 1 \in 1 .. mm + 1
                          /\ r + (x - n + 1) = r + x - n + 1 /\ n + (x - n + 1) = x + 1
                        BY <1>5, <4>1
                    <6> QED
                        BY <6>1
                <5> QED
                    BY <3>5, <5>1, Zenon
            <4> QED
                BY <3>5, <3>7, <4>1, <4>2 DEF EncodedRow, ExactRow
        <3>8. CASE backend = "fn" /\ x > n
            <4>1. x \in n + 1 .. n + mm /\ kv'[s][x] = CaughtUpRow(s, x)
                BY <1>5, <1>14, <3>1, <3>3, <3>8
            <4>2. hrow[r + x - n] = After(req[s], x)
                <5>1. PICK i \in 1 .. mm + 1 : r + i = r + x - n /\ n + i = x
                    <6>1. x - n \in 1 .. mm + 1 /\ r + (x - n) = r + x - n /\ n + (x - n) = x
                        BY <1>5, <4>1
                    <6> QED
                        BY <6>1
                <5> QED
                    BY <3>5, <5>1, Zenon
            <4> QED
                BY <1>5, <3>5, <3>8, <4>1, <4>2 DEF CaughtUpRow, ExactRow
        <3>9. CASE backend = "fn" /\ x = n
            <4>1. kv'[s][x] = kv[s][n]
                BY <1>5, <1>14, <3>3, <3>9
            <4>2. Anchored(s)
                BY <1>0 DEF RoundInv
            <4>3. kv[s][n] = [of |-> Tok(req[s], n), h |-> After(req[s], n)] \/ n \in plain[s]
                BY <2>2, <3>9, <4>2, Zenon DEF Anchored
            <4> QED
                BY <1>5, <3>9, <4>1, <4>3 DEF ExactRow
        <3> QED
            <4>1. n \in Nat /\ backend \in {"fn", "b27"}
                BY <1>0, <1>5 DEF TypeOK
            <4>2. x < n \/ x = n \/ x > n
                BY <3>3, <4>1
            <4>3. x > n => x >= n
                BY <3>3, <4>1
            <4>4. x = n => x >= n
                BY <3>3, <4>1
            <4> QED
                BY <3>6, <3>7, <3>8, <3>9, <4>1, <4>2, <4>3, <4>4, Zenon
    <2> QED
        BY <2>1, <2>2
<1> QED
    BY <1>15, <1>16, <1>17, <1>18, <1>19, <1>20, <1>21 DEF DraftInv

-----------------------------------------------------------------------------

\* Every step keeps the invariant.
LEMMA NextDraftInv == DraftInv /\ [Next]_vars => DraftInv'
<1> SUFFICES ASSUME DraftInv, [Next]_vars
             PROVE  DraftInv'
    OBVIOUS
<1>1. CASE \E s \in Slots, sp \in BOOLEAN, n \in PromptLens : Admit(s, sp, n)
    BY <1>1, AdmitDraftInv
<1>2. CASE PrefillPass
    BY <1>2, PrefillDraftInv
<1>3. CASE \E g \in [Slots -> 0 .. Max({Mtp, NDraft})] : Round(g)
    BY <1>3, RoundDraftInv
<1>4. CASE \E ends \in BOOLEAN : AcceptSlot(ends)
    BY <1>4, AcceptDraftInv
<1>5. CASE UNCHANGED vars
    <2> USE <1>5 DEF vars, DraftInv
    <2>1. TypeOK'
        BY DEF TypeOK
    <2>2. SlotsInv'
        BY DEF SlotsInv
    <2>3. RoundInv'
        <3>1. \A s : (Waits(s) => Waits(s)') /\ (Anchored(s) => Anchored(s)')
            BY DEF Waits, Anchored
        <3> QED
            BY <3>1 DEF RoundInv
    <2>4. HInv' /\ Kept'
        BY DEF HInv, Kept
    <2>5. TargetInStep'
        BY DEF TargetInStep, Cur
    <2>6. DraftCacheExact'
        BY DEF DraftCacheExact, Exact
    <2> QED
        BY <2>1, <2>2, <2>3, <2>4, <2>5, <2>6
<1> QED
    BY <1>1, <1>2, <1>3, <1>4, <1>5 DEF Next

\* The invariant always holds.
LEMMA DraftInvariant == Spec => []DraftInv
BY InitDraftInv, NextDraftInv, PTL DEF Spec

\* The variables of both engines keep their types (Qwen4Exp and Qwen35, forward and accept).
THEOREM TypesOfDrafts == Spec => []TypeOK
<1>1. DraftInv => TypeOK
    BY DEF DraftInv
<1> QED
    BY <1>1, DraftInvariant, PTL

\* After every accept, whole or replayed (commit_from), the state of a slot is the one after
\* the tokens it has committed.
THEOREM TargetKeepsStep == Spec => []TargetInStep
<1>1. DraftInv => TargetInStep
    BY DEF DraftInv
<1> QED
    BY <1>1, DraftInvariant, PTL

\* mtp_catchup and dflash_encode leave the draft cache of a slot that of its own request with the
\* target's h, up to its position, but for the rows where a round of Flash-Next did not draft.
THEOREM DraftCacheIsExact == Spec => []DraftCacheExact
<1>1. DraftInv => DraftCacheExact
    BY DEF DraftInv
<1> QED
    BY <1>1, DraftInvariant, PTL

\* The pending h of a slot (hp_) is the target's behind its last token whenever a draft starts.
THEOREM DraftsStartExact == Spec => []DraftStartsExact
<1>1. DraftInv => DraftStartsExact
    <2> SUFFICES ASSUME DraftInv, backend = "fn", left = << >>, NEW s \in Range(active)
                 PROVE  hp[s] = [req |-> req[s], n |-> pos[s]]
        BY DEF DraftStartsExact
    <2>1. Range(left) = {}
        BY DEF Range
    <2> QED
        BY <2>1 DEF DraftInv, HInv, After
<1> QED
    BY <1>1, DraftInvariant, PTL
=============================================================================
