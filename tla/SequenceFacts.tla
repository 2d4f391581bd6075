--------------------------- MODULE SequenceFacts ---------------------------
(***************************************************************************)
(* Facts that several proofs need.  Of FlattenSeq, which SequencesExt      *)
(* defines by a recursive function, where the elements of each part end up *)
(* (the two inductions are over the least number they fail for); of Max    *)
(* and Min, that they are reached and bound the set; of SubSeq, which      *)
(* elements it takes.                                                      *)
(***************************************************************************)
EXTENDS SequencesExt, SequenceTheorems, WellFoundedInduction, TLAPS

\* Two sequences, one behind the other.
LEMMA Behind ==
    ASSUME NEW S, NEW x \in Seq(S), NEW y \in Seq(S), NEW n \in Nat, n = Len(x), NEW m \in Nat, m = Len(y)
    PROVE  /\ x \o y \in Seq(S) /\ Len(x \o y) = n + m
           /\ \A i \in 1 .. n : (x \o y)[i] = x[i]
           /\ \A k \in 1 .. m : (x \o y)[n + k] = y[k]
<1>1. ASSUME NEW k \in 1 .. m
      PROVE  (x \o y)[n + k] = y[k]
    <2>1. PICK i \in 1 .. Len(x) + Len(y) : i = n + k /\ ~(i <= Len(x)) /\ i - Len(x) = k
        OBVIOUS
    <2> QED
        BY <2>1
<1> QED
    BY <1>1

\* The numbers a claim fails for have a least one.
LEMMA LeastNat ==
    ASSUME NEW T, T \subseteq Nat, T # {}
    PROVE  \E n \in T : \A m \in T : n <= m
<1>1. PICK n \in T : \A m \in T : ~(<<m, n>> \in OpToRel(<, Nat))
    BY NatLessThanWellFounded, WFMin, Zenon
<1>2. \A m \in T : ~(m < n)
    BY <1>1, Zenon DEF OpToRel
<1> QED
    BY <1>2

\* Max of a set that reaches n and goes no further.
LEMMA MaxTo ==
    ASSUME NEW n \in Nat, NEW S, S \subseteq 1 .. n, n \in S
    PROVE  Max(S) = n
<1>1. \A x \in S : (\A y \in S : x >= y) => x = n
    OBVIOUS
<1>2. \A y \in S : n >= y
    OBVIOUS
<1> QED
    BY <1>1, <1>2 DEF Max

\* g folds a step for each number over any set of them, the greatest last.
FoldsOver(g, V, st, m, step) ==
    /\ g \in [SUBSET (1 .. m) -> V]
    /\ \A S \in SUBSET (1 .. m) : g[S] = IF S = {} THEN st ELSE step[Max(S)][g[S \ {Max(S)}]]

\* A step for each of the numbers up to m, each from a value to a value, can be
\* folded over any set of them, the greatest last: the function of FoldLeft exists.
LEMMA FoldExists ==
    ASSUME NEW V, NEW st \in V, NEW m \in Nat, NEW step \in [1 .. m -> [V -> V]]
    PROVE  \E g : FoldsOver(g, V, st, m, step)
<1> DEFINE Body(g, S) == IF S = {} THEN st ELSE step[Max(S)][g[S \ {Max(S)}]]
           Folds(g, n) == g \in [SUBSET (1 .. n) -> V] /\ \A S \in SUBSET (1 .. n) : g[S] = Body(g, S)
           T == {n \in 0 .. m : ~ \E g : Folds(g, n)}
<1>1. ASSUME T # {}
      PROVE  FALSE
    <2>1. T \subseteq Nat
        OBVIOUS
    <2> HIDE DEF T, Folds
    <2>2. PICK n \in T : \A k \in T : n <= k
        BY <1>1, <2>1, LeastNat, Zenon
    <2>3. n \in 0 .. m /\ ~ \E g : Folds(g, n)
        BY DEF T
    <2>4. n # 0
        <3> DEFINE g == [S \in SUBSET (1 .. 0) |-> st]
        <3>1. \A S \in SUBSET (1 .. 0) : S = {}
            OBVIOUS
        <3>2. g \in [SUBSET (1 .. 0) -> V] /\ \A S \in SUBSET (1 .. 0) : g[S] = Body(g, S)
            BY <3>1, Zenon
        <3>3. Folds(g, 0)
            BY <3>2, Zenon DEF Folds
        <3> QED
            BY <2>3, <3>3
    <2>5. n - 1 \in 0 .. m /\ n - 1 \notin T /\ n \in Nat /\ n \in 1 .. m
        BY <2>2, <2>3, <2>4
    <2>6. PICK g : Folds(g, n - 1)
        BY <2>5 DEF T
    <2> DEFINE h == [S \in SUBSET (1 .. n) |-> IF n \in S THEN step[n][g[S \ {n}]] ELSE g[S]]
    <2>7. \A S \in SUBSET (1 .. n - 1) : h[S] = g[S] /\ g[S] \in V
        <3> TAKE S \in SUBSET (1 .. n - 1)
        <3>1. S \in SUBSET (1 .. n) /\ n \notin S
            BY <2>5
        <3> QED
            BY <2>6, <3>1, Zenon DEF Folds
    <2>8. ASSUME NEW S \in SUBSET (1 .. n)
          PROVE  h[S] = Body(h, S) /\ h[S] \in V
        <3>1. CASE n \in S
            <4>1. Max(S) = n
                BY <2>5, <3>1, MaxTo, Zenon
            <4>2. S \ {n} \in SUBSET (1 .. n - 1)
                BY <2>5
            <4>3. h[S \ {n}] = g[S \ {n}] /\ g[S \ {n}] \in V
                BY <2>7, <4>2, Zenon
            <4>4. h[S] = step[n][g[S \ {n}]] /\ step[n][g[S \ {n}]] \in V
                BY <2>5, <3>1, <4>3, Zenon
            <4> QED
                BY <3>1, <4>1, <4>3, <4>4, Zenon
        <3>2. CASE n \notin S
            <4>1. S \in SUBSET (1 .. n - 1)
                BY <2>5, <3>2
            <4>2. S \in SUBSET (1 .. n - 1) /\ S \ {Max(S)} \in SUBSET (1 .. n - 1)
                BY <4>1, Zenon
            <4>3. h[S] = g[S] /\ h[S \ {Max(S)}] = g[S \ {Max(S)}] /\ g[S] \in V
                BY <2>7, <4>2, Zenon
            <4>4. g[S] = Body(g, S)
                BY <2>6, <4>2, Zenon DEF Folds
            <4> QED
                BY <4>3, <4>4, Zenon
        <3> QED
            BY <3>1, <3>2
    <2>9. h \in [SUBSET (1 .. n) -> V]
        <3>1. h = [S \in SUBSET (1 .. n) |-> h[S]]
            BY Zenon
        <3> HIDE DEF h
        <3> QED
            BY <2>8, <3>1, Zenon
    <2> HIDE DEF h
    <2>10. Folds(h, n)
        BY <2>8, <2>9, Zenon DEF Folds
    <2> QED
        BY <2>3, <2>10
<1>2. m \in 0 .. m
    OBVIOUS
<1>3. PICK g : Folds(g, m)
    BY <1>1, <1>2, Zenon
<1> QED
    BY <1>3, Zenon DEF Folds, FoldsOver

\* The first i of m numbers, as a fold takes them.
LEMMA FirstNumbers ==
    ASSUME NEW m \in Nat, NEW i \in 1 .. m
    PROVE  /\ (1 .. i) \in SUBSET (1 .. m) /\ (1 .. i) # {} /\ i \in 0 .. m /\ i - 1 \in 0 .. m
           /\ Max(1 .. i) = i /\ (1 .. i) \ {Max(1 .. i)} = 1 .. i - 1
<1>1. i \in Nat /\ 1 .. i \subseteq 1 .. i /\ i \in 1 .. i
    OBVIOUS
<1>2. Max(1 .. i) = i
    BY <1>1, MaxTo, Zenon
<1> QED
    BY <1>2

\* Min of a set of numbers is one of them.
LEMMA MinIn ==
    ASSUME NEW S, S \subseteq Nat, S # {}
    PROVE  Min(S) \in S /\ \A x \in S : Min(S) <= x
<1>1. PICK n \in S : \A x \in S : n <= x
    BY LeastNat, Zenon
<1> QED
    BY <1>1 DEF Min

\* Max of a bounded set of numbers is one of them.
LEMMA MaxIn ==
    ASSUME NEW n \in Nat, NEW S, S \subseteq 0 .. n, S # {}
    PROVE  Max(S) \in S /\ \A x \in S : Max(S) >= x
<1> DEFINE T == {n - x : x \in S}
<1>1. T \subseteq Nat /\ T # {}
    <2>1. \A x \in S : n - x \in Nat
        OBVIOUS
    <2> QED
        BY <2>1, Zenon
<1>2. PICK d \in T : \A e \in T : d <= e
    BY <1>1, LeastNat, Zenon
<1>3. PICK m \in S : d = n - m
    BY <1>2
<1>4. \A x \in S : m >= x
    <2> TAKE x \in S
    <2>1. n - x \in T
        OBVIOUS
    <2>2. n - m <= n - x
        BY <1>2, <1>3, <2>1
    <2> QED
        BY <2>2
<1> QED
    BY <1>4 DEF Max

\* What SubSeq(s, m, n) holds.
LEMMA Section ==
    ASSUME NEW S, NEW s \in Seq(S), NEW a \in Nat, NEW n \in Nat, a + n <= Len(s)
    PROVE  /\ SubSeq(s, a + 1, a + n) \in Seq(S) /\ Len(SubSeq(s, a + 1, a + n)) = n
           /\ \A i \in 1 .. n : SubSeq(s, a + 1, a + n)[i] = s[a + i]
<1>1. \A i \in a + 1 .. a + n : s[i] \in S
    OBVIOUS
<1> QED
    BY <1>1, SubSeqProperties

\* The recursive function of FlattenSeq exists and concatenates one part after
\* the other.
LEMMA FlattenUnfolds ==
    ASSUME NEW S, NEW w \in Seq(Seq(S)), w # << >>
    PROVE  \E f \in [1 .. Len(w) -> Seq(S)] :
             /\ FlattenSeq(w) = f[Len(w)]
             /\ f[1] = w[1]
             /\ \A i \in 2 .. Len(w) : f[i] = f[i - 1] \o w[i]
<1> DEFINE Def(g, i) == IF i = 1 THEN w[i] ELSE g[i - 1] \o w[i]
           N == Len(w)
           Unfolds(g, n) == g \in [1 .. n -> Seq(S)] /\ \A i \in 1 .. n : g[i] = Def(g, i)
           flatten == CHOOSE g : g = [i \in 1 .. N |-> Def(g, i)]
<1>1. FlattenSeq(w) = flatten[N]
    BY DEF FlattenSeq
<1>2. N \in Nat \ {0} /\ \A i \in 1 .. N : w[i] \in Seq(S)
    OBVIOUS
<1> HIDE DEF N
<1>3. \A n \in 0 .. N : \E g : Unfolds(g, n)
    <2> DEFINE T == {n \in 0 .. N : ~ \E g : Unfolds(g, n)}
    <2> SUFFICES ASSUME T # {}
                 PROVE  FALSE
        BY Zenon
    <2>1. T \subseteq Nat
        BY <1>2
    <2> HIDE DEF T, Unfolds
    <2>2. PICK n \in T : \A m \in T : n <= m
        BY <2>1, LeastNat, Zenon
    <2>3. n \in 0 .. N /\ ~ \E g : Unfolds(g, n)
        BY DEF T
    <2>4. n # 0
        <3>1. Unfolds([i \in 1 .. 0 |-> << >>], 0)
            BY DEF Unfolds
        <3> QED
            BY <2>3, <3>1
    <2>5. n - 1 \in 0 .. N /\ n - 1 \notin T
        BY <2>2, <2>3, <2>4, <1>2
    <2>6. PICK g : Unfolds(g, n - 1)
        BY <2>5 DEF T
    <2> DEFINE h == [i \in 1 .. n |-> IF i = n THEN Def(g, n) ELSE g[i]]
    <2>7. g \in [1 .. n - 1 -> Seq(S)] /\ \A i \in 1 .. n - 1 : g[i] = Def(g, i)
        BY <2>6, Zenon DEF Unfolds
    <2>8. Def(g, n) \in Seq(S)
        BY <2>3, <2>4, <2>7, <1>2
    <2>9. h \in [1 .. n -> Seq(S)]
        BY <2>3, <2>4, <2>7, <2>8, <1>2
    <2>10. \A i \in 1 .. n : Def(h, i) = Def(g, i)
        BY <2>3, <2>4, <1>2
    <2>11. \A i \in 1 .. n : h[i] = Def(g, i)
        <3> HIDE DEF Def
        <3> QED
            BY <2>3, <2>4, <2>7, <1>2
    <2>12. Unfolds(h, n)
        <3> HIDE DEF Def, h
        <3> QED
            BY <2>9, <2>10, <2>11 DEF Unfolds
    <2> QED
        BY <2>3, <2>12
<1>4. PICK f : f = [i \in 1 .. N |-> Def(f, i)]
    <2> HIDE DEF Def
    <2>1. \E g : Unfolds(g, N)
        <3> HIDE DEF Unfolds
        <3>1. N \in 0 .. N
            BY <1>2
        <3> QED
            BY <1>3, <3>1, Zenon
    <2> QED
        BY <2>1
<1>5. flatten = [i \in 1 .. N |-> Def(flatten, i)]
    <2> HIDE DEF Def
    <2> QED
        BY <1>4, Zenon
<1> HIDE DEF flatten
<1>6. \A i \in 1 .. N : flatten[i] \in Seq(S)
    <2> DEFINE T == {i \in 1 .. N : flatten[i] \notin Seq(S)}
    <2> SUFFICES ASSUME T # {}
                 PROVE  FALSE
        BY Zenon
    <2>1. T \subseteq Nat
        BY <1>2
    <2> HIDE DEF T
    <2>2. PICK i \in T : \A m \in T : i <= m
        BY <2>1, LeastNat, Zenon
    <2>3. i \in 1 .. N /\ flatten[i] \notin Seq(S)
        BY DEF T
    <2>4. CASE i = 1
        BY <1>2, <1>5, <2>3, <2>4
    <2>5. CASE i # 1
        <3>1. i - 1 \in 1 .. N /\ i - 1 \notin T
            BY <1>2, <2>2, <2>3, <2>5
        <3>2. flatten[i - 1] \in Seq(S) /\ w[i] \in Seq(S)
            BY <1>2, <2>3, <3>1 DEF T
        <3>3. flatten[i] = flatten[i - 1] \o w[i]
            BY <1>5, <2>3, <2>5
        <3> QED
            BY <2>3, <3>2, <3>3, ConcatProperties
    <2> QED
        BY <2>4, <2>5
<1>7. /\ flatten \in [1 .. N -> Seq(S)]
      /\ flatten[1] = w[1]
      /\ \A i \in 2 .. N : flatten[i] = flatten[i - 1] \o w[i]
    <2>1. flatten \in [1 .. N -> Seq(S)]
        <3> HIDE DEF Def
        <3> QED
            BY <1>5, <1>6
    <2>2. flatten[1] = w[1]
        BY <1>2, <1>5
    <2>3. \A i \in 2 .. N : flatten[i] = flatten[i - 1] \o w[i]
        <3> SUFFICES ASSUME NEW i \in 2 .. N
                     PROVE  flatten[i] = flatten[i - 1] \o w[i]
            OBVIOUS
        <3>1. flatten[i] = Def(flatten, i)
            <4> HIDE DEF Def
            <4>1. i \in 1 .. N
                BY <1>2
            <4> QED
                BY <1>5, <4>1, Zenon
        <3>2. i # 1
            OBVIOUS
        <3> QED
            BY <3>1, <3>2, Zenon
    <2> QED
        BY <2>1, <2>2, <2>3
<1> QED
    BY <1>1, <1>7, Zenon DEF N

\* Where the parts are: part i begins behind position first[i].
Places(w, n, first) ==
    /\ first \in [1 .. n + 1 -> Nat]
    /\ first[1] = 0
    /\ \A i \in 1 .. n : first[i + 1] = first[i] + Len(w[i])

\* flat holds the n parts of w there and nothing else.
Flattened(w, n, flat, first) ==
    /\ Places(w, n, first)
    /\ Len(flat) = first[n + 1]
    /\ \A i \in 1 .. n : \A t \in 1 .. Len(w[i]) : flat[first[i] + t] = w[i][t]

\* A later part begins no earlier.
LEMMA PlacesGrow ==
    ASSUME NEW w, NEW N \in Nat, \A i \in 1 .. N : Len(w[i]) \in Nat,
           NEW first, Places(w, N, first)
    PROVE  \A i, n \in 1 .. N : i <= n => first[i + 1] <= first[n + 1]
<1> SUFFICES ASSUME NEW i \in 1 .. N
             PROVE  \A n \in 1 .. N : i <= n => first[i + 1] <= first[n + 1]
    OBVIOUS
<1> DEFINE T == {n \in 1 .. N : i <= n /\ ~(first[i + 1] <= first[n + 1])}
<1> SUFFICES ASSUME T # {}
             PROVE  FALSE
    BY Zenon
<1>1. T \subseteq Nat
    OBVIOUS
<1> HIDE DEF T
<1>2. PICK n \in T : \A m \in T : n <= m
    BY <1>1, LeastNat, Zenon
<1>3. n \in 1 .. N /\ i <= n /\ ~(first[i + 1] <= first[n + 1])
    BY DEF T
<1>4. /\ \A m \in 1 .. N + 1 : first[m] \in Nat
      /\ \A m \in 1 .. N : first[m + 1] = first[m] + Len(w[m])
    BY DEF Places
<1>5. i # n
    BY <1>3, <1>4
<1>6. n - 1 \in 1 .. N /\ i <= n - 1 /\ n - 1 \notin T
    BY <1>2, <1>3, <1>5
<1>7. first[i + 1] <= first[n]
    <2>1. first[i + 1] <= first[(n - 1) + 1]
        BY <1>6 DEF T
    <2> QED
        BY <2>1, <1>3
<1>8. first[n + 1] = first[n] + Len(w[n]) /\ Len(w[n]) \in Nat /\ first[n] \in Nat /\ first[i + 1] \in Nat
    BY <1>3, <1>4
<1> QED
    BY <1>3, <1>7, <1>8

\* A function that concatenates one part after the other places each of them.
LEMMA UnfoldedPlaces ==
    ASSUME NEW S, NEW N \in Nat \ {0}, NEW w, NEW f,
           \A i \in 1 .. N : w[i] \in Seq(S) /\ f[i] \in Seq(S),
           f[1] = w[1],
           \A i \in 2 .. N : f[i] = f[i - 1] \o w[i]
    PROVE  \E first : Flattened(w, N, f[N], first)
<1> DEFINE first == [i \in 1 .. N + 1 |-> IF i = 1 THEN 0 ELSE Len(f[i - 1])]
           Placed(n) == \A i \in 1 .. n : \A t \in 1 .. Len(w[i]) : f[n][first[i] + t] = w[i][t]
<1>1. \A i \in 1 .. N : Len(w[i]) \in Nat /\ Len(f[i]) \in Nat
    BY LenProperties
<1>2. ASSUME NEW i \in 2 .. N
      PROVE  /\ Len(f[i]) = Len(f[i - 1]) + Len(w[i])
             /\ \A p \in 1 .. Len(f[i - 1]) : f[i][p] = f[i - 1][p]
             /\ \A t \in 1 .. Len(w[i]) : f[i][Len(f[i - 1]) + t] = w[i][t]
    <2> DEFINE u == f[i - 1]
               v == w[i]
    <2>1. u \in Seq(S) /\ v \in Seq(S) /\ f[i] = u \o v
        <3>1. i \in 1 .. N /\ i - 1 \in 1 .. N
            OBVIOUS
        <3> QED
            BY <3>1, Zenon
    <2> HIDE DEF u, v
    <2>2. /\ Len(u \o v) = Len(u) + Len(v) /\ Len(u) \in Nat /\ Len(v) \in Nat
          /\ \A p \in 1 .. Len(u) + Len(v) : (u \o v)[p] = IF p <= Len(u) THEN u[p] ELSE v[p - Len(u)]
        BY <2>1, ConcatProperties, LenProperties
    <2>3. \A p \in 1 .. Len(u) : (u \o v)[p] = u[p]
        BY <2>2
    <2>4. \A t \in 1 .. Len(v) : (u \o v)[Len(u) + t] = v[t]
        BY <2>2
    <2> QED
        BY <2>1, <2>2, <2>3, <2>4, Zenon DEF u, v
<1>3. first[1] = 0 /\ \A i \in 1 .. N : first[i + 1] = Len(f[i])
    BY <1>1
<1>4. Places(w, N, first)
    <2>1. first \in [1 .. N + 1 -> Nat]
        BY <1>1
    <2>2. ASSUME NEW i \in 1 .. N
          PROVE  first[i + 1] = first[i] + Len(w[i])
        <3> HIDE DEF first
        <3>1. CASE i = 1
            BY <1>1, <1>3, <3>1
        <3>2. CASE i # 1
            <4>1. i \in 2 .. N /\ i - 1 \in 1 .. N
                BY <3>2
            <4>2. first[i] = Len(f[i - 1])
                BY <1>3, <4>1
            <4> QED
                BY <1>2, <1>3, <4>1, <4>2
        <3> QED
            BY <3>1, <3>2
    <2> HIDE DEF first
    <2> QED
        BY <1>3, <2>1, <2>2 DEF Places
<1> HIDE DEF first
<1>5. \A n \in 1 .. N : Placed(n)
    <2> DEFINE T == {n \in 1 .. N : ~Placed(n)}
    <2> SUFFICES ASSUME T # {}
                 PROVE  FALSE
        BY Zenon
    <2>1. T \subseteq Nat
        OBVIOUS
    <2> HIDE DEF T, Placed
    <2>2. PICK n \in T : \A m \in T : n <= m
        BY <2>1, LeastNat, Zenon
    <2>3. n \in 1 .. N /\ ~Placed(n)
        BY DEF T
    <2>4. n # 1
        <3>1. Placed(1)
            BY <1>1, <1>3 DEF Placed
        <3> QED
            BY <2>3, <3>1
    <2>5. n - 1 \in 1 .. N /\ n - 1 \notin T /\ n \in 2 .. N
        BY <2>2, <2>3, <2>4
    <2>6. Placed(n - 1)
        BY <2>5 DEF T
    <2>7. ASSUME NEW i \in 1 .. n, NEW t \in 1 .. Len(w[i])
          PROVE  f[n][first[i] + t] = w[i][t]
        <3>1. first[n] = Len(f[n - 1])
            BY <1>3, <2>5
        <3>2. CASE i = n
            <4>1. \A m \in 1 .. Len(w[n]) : f[n][Len(f[n - 1]) + m] = w[n][m]
                BY <1>2, <2>5, Zenon
            <4> QED
                BY <3>1, <3>2, <4>1, Zenon
        <3>3. CASE i # n
            <4>1. i \in 1 .. N /\ i \in 1 .. n - 1 /\ i <= n - 1
                BY <2>5, <3>3
            <4>2. first[i + 1] <= first[n]
                <5>1. first[i + 1] <= first[(n - 1) + 1]
                    BY <1>1, <1>4, <2>5, <4>1, PlacesGrow
                <5> QED
                    BY <5>1, <2>5
            <4>3. first[i] \in Nat /\ first[i + 1] = first[i] + Len(w[i]) /\ Len(w[i]) \in Nat /\ Len(f[n - 1]) \in Nat
                BY <1>1, <1>4, <2>5, <4>1 DEF Places
            <4>4. first[i] + t \in 1 .. Len(f[n - 1])
                BY <3>1, <4>2, <4>3
            <4>5. f[n - 1][first[i] + t] = w[i][t]
                BY <2>6, <4>1 DEF Placed
            <4> QED
                BY <1>2, <2>5, <4>4, <4>5
        <3> QED
            BY <3>2, <3>3
    <2> QED
        BY <2>3, <2>7 DEF Placed
<1>6. Placed(N) /\ Len(f[N]) = first[N + 1]
    BY <1>3, <1>5
<1>7. Flattened(w, N, f[N], first)
    BY <1>4, <1>6 DEF Flattened
<1> QED
    BY <1>7

\* Every element of a part has its place in the whole.
LEMMA FlattenPlaces ==
    ASSUME NEW S, NEW w \in Seq(Seq(S))
    PROVE  /\ FlattenSeq(w) \in Seq(S)
           /\ \E first : Flattened(w, Len(w), FlattenSeq(w), first)
<1>1. CASE w = << >>
    <2> DEFINE first == [i \in 1 .. 1 |-> 0]
    <2>1. FlattenSeq(w) = << >> /\ Len(w) = 0
        BY <1>1 DEF FlattenSeq
    <2>2. Flattened(w, Len(w), FlattenSeq(w), first)
        BY <2>1 DEF Flattened, Places
    <2> QED
        BY <2>1, <2>2
<1>2. CASE w # << >>
    <2>1. PICK f \in [1 .. Len(w) -> Seq(S)] :
            /\ FlattenSeq(w) = f[Len(w)]
            /\ f[1] = w[1]
            /\ \A i \in 2 .. Len(w) : f[i] = f[i - 1] \o w[i]
        BY <1>2, FlattenUnfolds, Zenon
    <2>2. Len(w) \in Nat \ {0}
        BY <1>2, EmptySeq
    <2>3. \A i \in 1 .. Len(w) : w[i] \in Seq(S) /\ f[i] \in Seq(S)
        BY ElementOfSeq, Zenon
    <2>4. FlattenSeq(w) \in Seq(S)
        <3>1. Len(w) \in 1 .. Len(w)
            BY <2>2
        <3> QED
            BY <2>1, <2>3, <3>1, Zenon
    <2>5. \E first : Flattened(w, Len(w), f[Len(w)], first)
        BY <2>1, <2>2, <2>3, UnfoldedPlaces
    <2> QED
        BY <2>1, <2>4, <2>5
<1> QED
    BY <1>1, <1>2
=============================================================================
