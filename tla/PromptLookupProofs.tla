------------------------- MODULE PromptLookupProofs -------------------------
(***************************************************************************)
(* Proofs about PromptLookup, for any sizes of keys and values, any hash,  *)
(* any prompts and any target model.                                       *)
(*                                                                         *)
(* What the map promises is about the text it has seen; what it keeps are  *)
(* positions in it.  MapOK relates the two: every position it keeps has a  *)
(* value behind it, the values of a key follow occurrences of it, fill     *)
(* their places from the first and are different, and so are the keys.     *)
(*                                                                         *)
(* TLC cannot evaluate an assumption about every text, so the one about    *)
(* Greedy is a hypothesis of the theorems.                                 *)
(***************************************************************************)
EXTENDS PromptLookup, SequenceFacts

\* A target model answers a prompt, however far it is continued, with a token.
GreedyTyped == \A t \in Targets, p \in Prompts, w \in Seq(Token) : Greedy(t, p \o w) \in Token

Value == [idx : Nat, num : 0 .. MaxCount, accepted : 0 .. M]
Values == [1 .. MaxValues -> Value]
Key == [keyIdx : Nat, statIdx : Nat, keyNum : 0 .. MaxCount, values : Values]

\* At a and at b are the same n tokens.
Same(H, a, b, n) == \A i \in 1 .. n : H[a + i] = H[b + i]

\* An occurrence of a key at j has a value behind it.
Reaches(H, j) == j + N + M + 1 <= Len(H)

Live(values) == {v \in 1 .. MaxValues : values[v].idx # 0}

\* A value in use follows an occurrence of the key at at ...
Follows(H, at, value) ==
    /\ value.idx >= N /\ Reaches(H, value.idx - N)
    /\ Same(H, value.idx - N, at, N) /\ value.num >= 1

\* ... the first are in use and different, the others as they were made.
Following(H, at, values) ==
    /\ \A v \in Live(values) : Follows(H, at, values[v])
    /\ \A v \in (1 .. MaxValues) \ Live(values) : values[v].num = 0 /\ values[v].accepted = M
    /\ \A v \in Live(values) : 1 .. v \subseteq Live(values)
    /\ \A v, w \in Live(values) : v # w => ~Same(H, values[v].idx, values[w].idx, M)

KeyOK(H, k) ==
    /\ k.keyIdx # 0 /\ k.keyNum # 0 /\ Reaches(H, k.keyIdx)
    /\ k.statIdx # 0 => Reaches(H, k.statIdx) /\ Live(k.values) # {}
    /\ Following(H, k.keyIdx, k.values)

KeysOK(H, ks) ==
    /\ ks \in Seq(Key)
    /\ \A i \in DOMAIN ks : KeyOK(H, ks[i])
    /\ \A i, j \in DOMAIN ks : i # j => ~Same(H, ks[i].keyIdx, ks[j].keyIdx, N)

PlacesOK(H, km, ml) ==
    /\ km \in [Buckets -> Nat] /\ \A b \in Buckets : km[b] # 0 => Reaches(H, km[b])
    /\ ml \in Nat /\ (ml # 0 => Reaches(H, ml))

\* The map keeps what is true of H.
MapOK(H) ==
    /\ H \in Seq(Token) /\ prompt \in Seq(Token) /\ Len(prompt) <= Len(H)
    /\ KeysOK(H, keys) /\ PlacesOK(H, keyMap, mapLast)

-----------------------------------------------------------------------------
(* Sections of a text.                                                     *)

\* The constants are numbers.
LEMMA Sizes == N \in Nat /\ M \in Nat /\ MaxValues \in Nat /\ MaxCount \in Nat
               /\ NDraft \in Nat /\ N > 0 /\ M > 0 /\ MaxValues > 0 /\ MaxCount > 0 /\ NDraft > 0
BY LookupAssumption

\* Two n-grams in the text are equal when they are token for token.
LEMMA GramSame ==
    ASSUME NEW H \in Seq(Token), NEW a \in Nat, NEW b \in Nat, NEW n \in Nat,
           a + n <= Len(H), b + n <= Len(H)
    PROVE  Gram(H, a, n) = Gram(H, b, n) <=> Same(H, a, b, n)
<1>1. /\ Gram(H, a, n) \in Seq(Token) /\ Len(Gram(H, a, n)) = n
      /\ \A i \in 1 .. n : Gram(H, a, n)[i] = H[a + i]
    BY Section, Zenon DEF Gram
<1>2. /\ Gram(H, b, n) \in Seq(Token) /\ Len(Gram(H, b, n)) = n
      /\ \A i \in 1 .. n : Gram(H, b, n)[i] = H[b + i]
    BY Section, Zenon DEF Gram
<1>3. ASSUME Same(H, a, b, n)
      PROVE  Gram(H, a, n) = Gram(H, b, n)
    <2>1. \A i \in 1 .. n : Gram(H, a, n)[i] = Gram(H, b, n)[i]
        BY <1>1, <1>2, <1>3 DEF Same
    <2> QED
        BY ONLY <1>1, <1>2, <2>1, SeqEqual, SMT
<1>4. ASSUME Gram(H, a, n) = Gram(H, b, n)
      PROVE  Same(H, a, b, n)
    BY <1>1, <1>2, <1>4, Zenon DEF Same
<1> QED
    BY <1>3, <1>4

\* Two places of a key are the same.
LEMMA MatchSame ==
    ASSUME NEW H, NEW a, NEW b, NEW key, Len(key) = N, MatchAt(H, a, key), MatchAt(H, b, key)
    PROVE  Same(H, a, b, N)
BY Zenon DEF MatchAt, Same

\* What is the same as a place of a key is one.
LEMMA SameMatch ==
    ASSUME NEW H, NEW a, NEW b, NEW key, Len(key) = N, MatchAt(H, a, key), Same(H, a, b, N)
    PROVE  MatchAt(H, b, key)
BY Zenon DEF MatchAt, Same

-----------------------------------------------------------------------------
(* Where a key was.                                                        *)

\* Positions not hashed yet have values behind them.
LEMMA UnhashedReach ==
    ASSUME NEW H, MapOK(H)
    PROVE  \A i \in 1 .. 2 : /\ Unhashed(H)[i] \subseteq 0 .. Len(H)
                             /\ \A j \in Unhashed(H)[i] : j # 0 /\ Reaches(H, j)
BY Sizes DEF MapOK, PlacesOK, Unhashed, Reaches, High

\* The position of a key is none, or one of it with a value behind it.
LEMMA MatchFound ==
    ASSUME NEW H, MapOK(H), NEW key \in Seq(Token), Len(key) = N
    PROVE  /\ MatchPos(H, key) \in Nat
           /\ MatchPos(H, key) # 0 => Reaches(H, MatchPos(H, key)) /\ MatchAt(H, MatchPos(H, key), key)
<1> DEFINE hit == keyMap[Hash(key)]
           In(S) == {j \in S : MatchAt(H, j, key)}
           found == In(Unhashed(H)[1])
           later == In(Unhashed(H)[2])
           place == IF found # {} THEN Max(found) ELSE IF later # {} THEN Max(later) ELSE 0
           Good(j) == j \in Nat /\ (j # 0 => Reaches(H, j) /\ MatchAt(H, j, key))
<1>1. MatchPos(H, key) = place \/ (MatchPos(H, key) = hit /\ hit # 0 /\ hit < High(H) /\ MatchAt(H, hit, key))
    BY Zenon DEF MatchPos, InBucket
<1>2. hit \in Nat /\ (hit # 0 => Reaches(H, hit))
    <2>1. key \in [1 .. N -> Token]
        OBVIOUS
    <2>2. Hash(key) \in Buckets
        BY <2>1, LookupAssumption
    <2> QED
        BY <2>2 DEF MapOK, PlacesOK
<1>3. Len(H) \in Nat /\ \A S : S \subseteq 0 .. Len(H) /\ S # {} => Max(S) \in S
    <2>1. Len(H) \in Nat
        BY DEF MapOK
    <2> QED
        BY <2>1, MaxIn, Zenon
<1>4. Good(place)
    <2>1. \A i \in 1 .. 2 : /\ Unhashed(H)[i] \subseteq 0 .. Len(H)
                            /\ \A j \in Unhashed(H)[i] : j # 0 /\ Reaches(H, j)
        BY UnhashedReach
    <2>2. 1 \in 1 .. 2 /\ 2 \in 1 .. 2 /\ 0 .. Len(H) \subseteq Nat /\ 0 \in Nat
        BY <1>3
    <2>3. found \subseteq 0 .. Len(H) /\ later \subseteq 0 .. Len(H)
        BY <2>1, <2>2, Zenon
    <2>4. CASE found # {}
        <3>1. place \in found
            BY <1>3, <2>3, <2>4, Zenon
        <3> QED
            BY <2>1, <2>2, <2>3, <3>1, Zenon
    <2>5. CASE found = {} /\ later # {}
        <3>1. place \in later
            BY <1>3, <2>3, <2>5, Zenon
        <3> QED
            BY <2>1, <2>2, <2>3, <3>1, Zenon
    <2>6. CASE found = {} /\ later = {}
        BY <2>2, <2>6, Zenon
    <2> QED
        BY <2>4, <2>5, <2>6, Zenon
<1> HIDE DEF place, hit
<1> QED
    BY <1>1, <1>2, <1>4, Zenon

\* Hashing keeps positions with values behind them.
LEMMA HashedOK ==
    ASSUME NEW H, MapOK(H)
    PROVE  PlacesOK(H, Hashed(H), Max({High(H), mapLast}))
<1>1. Len(H) \in Nat /\ \A S : S \subseteq 0 .. Len(H) /\ S # {} => Max(S) \in S
    <2>1. Len(H) \in Nat
        BY DEF MapOK
    <2> QED
        BY <2>1, MaxIn, Zenon
<1>2. ASSUME NEW b \in Buckets
      PROVE  Hashed(H)[b] \in Nat /\ (Hashed(H)[b] # 0 => Reaches(H, Hashed(H)[b]))
    <2> DEFINE In(S) == {j \in S : Hash(Gram(H, j, N)) = b}
               found == In(Unhashed(H)[1])
               later == In(Unhashed(H)[2])
               place == IF found # {} THEN Max(found) ELSE IF later # {} THEN Max(later) ELSE 0
               Good(j) == j \in Nat /\ (j # 0 => Reaches(H, j))
    <2>0. Hashed(H)[b] = IF keyMap[b] # 0 THEN keyMap[b] ELSE place
        BY Zenon DEF Hashed
    <2>1. \A i \in 1 .. 2 : /\ Unhashed(H)[i] \subseteq 0 .. Len(H)
                            /\ \A j \in Unhashed(H)[i] : j # 0 /\ Reaches(H, j)
        BY UnhashedReach
    <2>2. 1 \in 1 .. 2 /\ 2 \in 1 .. 2 /\ 0 .. Len(H) \subseteq Nat /\ 0 \in Nat
        BY <1>1
    <2>3. found \subseteq 0 .. Len(H) /\ later \subseteq 0 .. Len(H)
        BY <2>1, <2>2, Zenon
    <2>4. Good(place)
        <3>1. CASE found # {}
            <4>1. place \in found
                BY <1>1, <2>3, <3>1, Zenon
            <4> QED
                BY <2>1, <2>2, <2>3, <4>1, Zenon
        <3>2. CASE found = {} /\ later # {}
            <4>1. place \in later
                BY <1>1, <2>3, <3>2, Zenon
            <4> QED
                BY <2>1, <2>2, <2>3, <4>1, Zenon
        <3>3. CASE found = {} /\ later = {}
            BY <2>2, <3>3, Zenon
        <3> QED
            BY <3>1, <3>2, <3>3, Zenon
    <2> HIDE DEF place
    <2>5. Good(keyMap[b])
        BY DEF MapOK, PlacesOK
    <2> QED
        BY <2>0, <2>4, <2>5, Zenon
<1>3. Hashed(H) \in [Buckets -> Nat]
    <2>1. Hashed(H) = [b \in Buckets |-> Hashed(H)[b]]
        BY Zenon DEF Hashed
    <2> QED
        BY <1>2, <2>1, Zenon
<1>4. Max({High(H), mapLast}) \in Nat /\ (Max({High(H), mapLast}) # 0 => Reaches(H, Max({High(H), mapLast})))
    <2>1. High(H) \in Int /\ mapLast \in Nat
        BY <1>1, Sizes DEF MapOK, PlacesOK, High
    <2>2. Max({High(H), mapLast}) = IF High(H) >= mapLast THEN High(H) ELSE mapLast
        BY <2>1 DEF Max
    <2> QED
        BY <1>1, <2>1, <2>2, Sizes DEF MapOK, PlacesOK, High, Reaches
<1> QED
    BY <1>2, <1>3, <1>4, Zenon DEF PlacesOK

-----------------------------------------------------------------------------
(* Counting an occurrence.                                                 *)

\* The values after counting still follow the key, in the places they had, as
\* long as they were.
Grown(H, at, old, new) ==
    /\ new \in Values /\ Following(H, at, new) /\ Live(old) \subseteq Live(new)
    /\ \A v \in 1 .. MaxValues : new[v].accepted = old[v].accepted

\* A count goes up to MaxCount.
LEMMA CountIn ==
    ASSUME NEW n \in 0 .. MaxCount
    PROVE  Count(n) \in 1 .. MaxCount
<1>1. Count(n) = IF n + 1 <= MaxCount THEN n + 1 ELSE MaxCount
    BY Sizes DEF Count, Min
<1> QED
    BY <1>1, Sizes

\* The place of the value an occurrence counts for: none, or the first that takes it.
LEMMA CountedPlace ==
    ASSUME NEW H, NEW values \in Values, NEW i \in Nat
    PROVE  \E v \in 0 .. MaxValues :
             /\ v = 0 => Counted(H, values, i) = values
             /\ v # 0 => /\ Counts(H, values[v], i + N)
                         /\ Counted(H, values, i) =
                              [values EXCEPT ![v] =
                                 IF values[v].idx = 0
                                 THEN [idx |-> i + N, num |-> Count(0), accepted |-> M]
                                 ELSE [values[v] EXCEPT !.num = Count(values[v].num)]]
             /\ \A u \in 1 .. MaxValues : v = 0 \/ u < v => ~Counts(H, values[u], i + N)
<1> DEFINE I == {u \in 1 .. Len(values) : Counts(H, values[u], i + N)}
           v == SelectInSeq(values, LAMBDA x : Counts(H, x, i + N))
<1>1. Len(values) = MaxValues /\ MaxValues \in Nat
    BY Sizes DEF Values
<1>2. v = IF I # {} THEN Min(I) ELSE 0
    BY Zenon DEF SelectInSeq
<1>3. /\ v = 0 => Counted(H, values, i) = values
      /\ v # 0 => Counted(H, values, i) =
                    [values EXCEPT ![v] =
                       [idx |-> IF values[v].idx = 0 THEN i + N ELSE values[v].idx,
                        num |-> Count(IF values[v].idx = 0 THEN 0 ELSE values[v].num),
                        accepted |-> IF values[v].idx = 0 THEN M ELSE values[v].accepted]]
    BY Zenon DEF Counted
<1>4. I \subseteq Nat /\ \A u \in I : u \in 1 .. MaxValues /\ u # 0
    BY <1>1
<1>5. \A u \in 1 .. MaxValues : u \in I <=> Counts(H, values[u], i + N)
    BY <1>1
<1> HIDE DEF v, I
<1>6. v \in 0 .. MaxValues /\ (v = 0 => I = {}) /\ (v # 0 => v \in I /\ \A u \in I : v <= u)
    <2>1. CASE I = {}
        BY <1>1, <1>2, <2>1
    <2>2. CASE I # {}
        <3>1. Min(I) \in I /\ \A u \in I : Min(I) <= u
            BY <1>4, <2>2, MinIn, Zenon
        <3>2. v \in I /\ \A u \in I : v <= u
            BY <1>2, <2>2, <3>1, Zenon
        <3> QED
            BY <1>1, <1>4, <2>2, <3>2
    <2> QED
        BY <2>1, <2>2
<1>7. ASSUME v # 0
      PROVE  [idx |-> IF values[v].idx = 0 THEN i + N ELSE values[v].idx,
              num |-> Count(IF values[v].idx = 0 THEN 0 ELSE values[v].num),
              accepted |-> IF values[v].idx = 0 THEN M ELSE values[v].accepted]
             = IF values[v].idx = 0
               THEN [idx |-> i + N, num |-> Count(0), accepted |-> M]
               ELSE [values[v] EXCEPT !.num = Count(values[v].num)]
    <2>1. v \in 1 .. MaxValues
        BY <1>6, <1>7
    <2>2. values[v] \in Value
        BY <2>1 DEF Values
    <2> QED
        BY <2>2 DEF Value
<1>8. v # 0 => Counts(H, values[v], i + N)
    BY <1>4, <1>6, <1>5
<1>9. ASSUME NEW u \in 1 .. MaxValues, v = 0 \/ u < v
      PROVE  ~Counts(H, values[u], i + N)
    BY <1>1, <1>6, <1>5, <1>9
<1>10. /\ v = 0 => Counted(H, values, i) = values
       /\ v # 0 => /\ Counts(H, values[v], i + N)
                   /\ Counted(H, values, i) =
                        [values EXCEPT ![v] =
                           IF values[v].idx = 0
                           THEN [idx |-> i + N, num |-> Count(0), accepted |-> M]
                           ELSE [values[v] EXCEPT !.num = Count(values[v].num)]]
       /\ \A u \in 1 .. MaxValues : v = 0 \/ u < v => ~Counts(H, values[u], i + N)
    BY <1>3, <1>7, <1>8, <1>9, Zenon
<1> QED
    BY <1>6, <1>10, Zenon

\* A value in use has its tokens in the text.
LEMMA LiveInside ==
    ASSUME NEW H \in Seq(Token), NEW at, NEW values \in Values, Following(H, at, values), NEW v \in Live(values)
    PROVE  values[v].idx \in Nat /\ values[v].idx # 0 /\ values[v].idx + M <= Len(H)
BY Sizes, SMTT(30) DEF Following, Follows, Reaches, Live, Values, Value

\* An occurrence that is counted.
LEMMA CountedGrows ==
    ASSUME NEW H \in Seq(Token), NEW at \in Nat, NEW values \in Values, Following(H, at, values),
           NEW i \in Nat, Reaches(H, i), Same(H, i, at, N)
    PROVE  Grown(H, at, values, Counted(H, values, i)) /\ Live(Counted(H, values, i)) # {}
<1>1. PICK v \in 0 .. MaxValues :
             /\ v = 0 => Counted(H, values, i) = values
             /\ v # 0 => /\ Counts(H, values[v], i + N)
                         /\ Counted(H, values, i) =
                              [values EXCEPT ![v] =
                                 IF values[v].idx = 0
                                 THEN [idx |-> i + N, num |-> Count(0), accepted |-> M]
                                 ELSE [values[v] EXCEPT !.num = Count(values[v].num)]]
             /\ \A u \in 1 .. MaxValues : v = 0 \/ u < v => ~Counts(H, values[u], i + N)
    BY CountedPlace, Zenon
<1> DEFINE new == Counted(H, values, i)
<1>2. CASE v = 0
    <2>1. 1 \in 1 .. MaxValues
        BY Sizes
    <2>2. values[1].idx # 0
        BY <1>1, <1>2, <2>1, Zenon DEF Counts
    <2> QED
        BY <1>1, <1>2, <2>1, <2>2, Zenon DEF Grown, Live
<1>3. CASE v # 0 /\ values[v].idx # 0
    <2>0. v \in 1 .. MaxValues /\ values[v] \in Value /\ v \in Live(values)
        BY <1>3 DEF Values, Live
    <2> DEFINE rec == [values[v] EXCEPT !.num = Count(values[v].num)]
    <2>1. new = [values EXCEPT ![v] = rec]
        BY <1>1, <1>3, Zenon
    <2>2. /\ rec \in Value /\ rec.idx = values[v].idx /\ rec.num >= 1
          /\ rec.accepted = values[v].accepted
        <3>1. Count(values[v].num) \in 1 .. MaxCount
            BY <2>0, CountIn DEF Value
        <3> QED
            BY <2>0, <3>1, Sizes, SMTT(30) DEF Value
    <2> HIDE DEF rec
    <2>3. new \in Values
        BY <2>1, <2>2, Zenon DEF Values
    <2>4. new[v] = rec /\ \A u \in 1 .. MaxValues : u # v => new[u] = values[u]
        BY <2>0, <2>1, Zenon DEF Values
    <2> HIDE DEF new
    <2>5. \A u \in 1 .. MaxValues : new[u].idx = values[u].idx /\ new[u].accepted = values[u].accepted
        BY <2>2, <2>4, Zenon
    <2>6. Live(new) = Live(values)
        BY <2>5, Zenon DEF Live
    <2>7. \A u \in Live(new) : Follows(H, at, new[u])
        <3> SUFFICES ASSUME NEW u \in Live(values)
                     PROVE  Follows(H, at, new[u])
            BY <2>6, Zenon
        <3>1. u \in 1 .. MaxValues /\ Follows(H, at, values[u])
            BY Zenon DEF Following, Live
        <3> QED
            BY <2>2, <2>4, <3>1, Zenon DEF Follows
    <2>8. \A u \in (1 .. MaxValues) \ Live(new) : new[u].num = 0 /\ new[u].accepted = M
        BY <2>0, <2>4, <2>6, Zenon DEF Following
    <2>9. \A u, w \in Live(new) : u # w => ~Same(H, new[u].idx, new[w].idx, M)
        <3>1. \A u \in Live(values) : u \in 1 .. MaxValues
            BY Zenon DEF Live
        <3> QED
            BY <2>5, <2>6, <3>1, Zenon DEF Following
    <2>10. \A u \in Live(new) : 1 .. u \subseteq Live(new)
        BY <2>6, Zenon DEF Following
    <2>11. Grown(H, at, values, new) /\ Live(new) # {}
        BY <2>0, <2>3, <2>5, <2>6, <2>7, <2>8, <2>9, <2>10, Zenon DEF Grown, Following
    <2> QED
        BY <2>11 DEF new
<1>4. CASE v # 0 /\ values[v].idx = 0
    <2>0. v \in 1 .. MaxValues /\ v \notin Live(values)
        BY <1>4 DEF Live
    <2> DEFINE rec == [idx |-> i + N, num |-> Count(0), accepted |-> M]
    <2>1. new = [values EXCEPT ![v] = rec]
        BY <1>1, <1>4, Zenon
    <2>2. rec \in Value /\ rec.idx = i + N /\ rec.num >= 1 /\ rec.accepted = M
        <3>1. Count(0) \in 1 .. MaxCount
            BY CountIn, Sizes
        <3> QED
            BY <3>1, Sizes DEF Value
    <2> HIDE DEF rec
    <2>3. new \in Values
        BY <2>1, <2>2, Zenon DEF Values
    <2>4. new[v] = rec /\ \A u \in 1 .. MaxValues : u # v => new[u] = values[u]
        BY <2>0, <2>1, Zenon DEF Values
    <2> HIDE DEF new
    <2>5. i + N # 0 /\ i + N \in Nat /\ i + N >= N /\ (i + N) - N = i
        BY Sizes
    <2>6. Live(new) = Live(values) \cup {v}
        BY <2>0, <2>2, <2>4, <2>5, Zenon DEF Live
    <2>7. \A u \in Live(values) : u \in 1 .. MaxValues /\ u < v /\ u # v /\ new[u] = values[u]
        <3> SUFFICES ASSUME NEW u \in Live(values)
                     PROVE  u \in 1 .. MaxValues /\ u < v /\ u # v
            BY <2>4, Zenon
        <3>1. u \in 1 .. MaxValues /\ 1 .. u \subseteq Live(values)
            BY Zenon DEF Following, Live
        <3>2. v \notin 1 .. u
            BY <2>0, <3>1, Zenon
        <3> QED
            BY <2>0, <3>1, <3>2
    <2>8. \A u \in Live(new) : Follows(H, at, new[u])
        <3>1. Follows(H, at, new[v])
            BY <2>2, <2>4, <2>5 DEF Follows
        <3>2. \A u \in Live(values) : Follows(H, at, new[u])
            BY <2>7, Zenon DEF Following
        <3> QED
            BY <2>6, <3>1, <3>2, Zenon
    <2>9. \A u \in (1 .. MaxValues) \ Live(new) : new[u].num = 0 /\ new[u].accepted = M
        BY <2>4, <2>6, Zenon DEF Following
    <2>10. ASSUME NEW u \in Live(values)
           PROVE  ~Same(H, values[u].idx, i + N, M) /\ ~Same(H, i + N, values[u].idx, M)
        <3>1. ~Counts(H, values[u], i + N)
            BY <1>1, <2>7, Zenon
        <3>2. Gram(H, values[u].idx, M) # Gram(H, i + N, M)
            BY <3>1, Zenon DEF Counts
        <3>3. values[u].idx \in Nat /\ values[u].idx + M <= Len(H)
            BY LiveInside
        <3>4. i + N + M <= Len(H) /\ M \in Nat
            BY Sizes DEF Reaches
        <3>5. ~Same(H, values[u].idx, i + N, M)
            BY <2>5, <3>2, <3>3, <3>4, GramSame, SMTT(30)
        <3> QED
            BY <3>5, Zenon DEF Same
    <2>11. \A u, w \in Live(new) : u # w => ~Same(H, new[u].idx, new[w].idx, M)
        <3> TAKE u, w \in Live(new)
        <3>1. CASE u \in Live(values) /\ w \in Live(values)
            BY <2>7, <3>1, Zenon DEF Following
        <3>2. CASE u = v /\ w \in Live(values)
            BY <2>2, <2>4, <2>7, <2>10, <3>2, Zenon
        <3>3. CASE w = v /\ u \in Live(values)
            BY <2>2, <2>4, <2>7, <2>10, <3>3, Zenon
        <3>4. CASE u = v /\ w = v
            BY <3>4, Zenon
        <3> QED
            BY <2>6, <3>1, <3>2, <3>3, <3>4, Zenon
    <2>12. \A u \in Live(new) : 1 .. u \subseteq Live(new)
        <3>1. \A u \in Live(values) : 1 .. u \subseteq Live(new)
            BY <2>6, Zenon DEF Following
        <3>2. ASSUME NEW u \in 1 .. v
              PROVE  u \in Live(new)
            <4>1. CASE u = v
                BY <2>6, <4>1, Zenon
            <4>2. CASE u # v
                <5>1. u \in 1 .. MaxValues /\ u < v
                    BY <2>0, <4>2, Sizes
                <5>2. values[u].idx # 0
                    BY <1>1, <5>1, Zenon DEF Counts
                <5> QED
                    BY <2>6, <5>1, <5>2, Zenon DEF Live
            <4> QED
                BY <4>1, <4>2
        <3> QED
            BY <2>6, <3>1, <3>2, Zenon
    <2>13. \A u \in 1 .. MaxValues : new[u].accepted = values[u].accepted
        BY <2>0, <2>2, <2>4, Zenon DEF Following
    <2>14. Grown(H, at, values, new) /\ Live(new) # {}
        BY <2>3, <2>6, <2>8, <2>9, <2>11, <2>12, <2>13, Zenon DEF Grown, Following
    <2> QED
        BY <2>14 DEF new
<1> QED
    BY <1>2, <1>3, <1>4

-----------------------------------------------------------------------------
(* The statistics of a key: the fold over its occurrences.                 *)

\* What a position does to the values ...
Tally(H, key, values, i) == IF MatchAt(H, i, key) THEN Counted(H, values, i) ELSE values

\* ... and several positions.
Tallies(H, key, st, xs) ==
    FoldLeft(LAMBDA values, i : IF MatchAt(H, i, key) THEN Counted(H, values, i) ELSE values, st, xs)

\* f has the values between the positions.
Between(H, key, st, m, xs, f) ==
    f[0] = st /\ f[m] = Tallies(H, key, st, xs) /\ \A i \in 1 .. m : f[i] = Tally(H, key, f[i - 1], xs[i])

\* The fold takes one position after the other.
LEMMA TalliesStep ==
    ASSUME NEW H, NEW key, NEW st, NEW m \in Nat, NEW xs, DOMAIN xs = 1 .. m
    PROVE  \E f : Between(H, key, st, m, xs, f)
<1> DEFINE Body(g, S) == IF S = {} THEN st ELSE Tally(H, key, g[S \ {Max(S)}], xs[Max(S)])
           Folds(g, n) == g = [S \in SUBSET (1 .. n) |-> Body(g, S)]
           fold == CHOOSE g : g = [S \in SUBSET (DOMAIN xs) |-> Body(g, S)]
<1>1. Tallies(H, key, st, xs) = fold[DOMAIN xs]
    BY Zenon DEF Tallies, Tally, FoldLeft, MapThenFoldSet
<1>2. \A n \in 0 .. m : \E g : Folds(g, n)
    <2> DEFINE T == {n \in 0 .. m : ~ \E g : Folds(g, n)}
    <2> SUFFICES ASSUME T # {}
                 PROVE  FALSE
        BY Zenon
    <2>1. T \subseteq Nat
        OBVIOUS
    <2> HIDE DEF T, Folds
    <2>2. PICK n \in T : \A k \in T : n <= k
        BY <2>1, LeastNat, Zenon
    <2>3. n \in 0 .. m /\ ~ \E g : Folds(g, n)
        BY DEF T
    <2>4. n # 0
        <3> DEFINE g == [S \in SUBSET (1 .. 0) |-> st]
        <3>1. Folds(g, 0)
            <4>1. \A S \in SUBSET (1 .. 0) : S = {}
                OBVIOUS
            <4>2. \A S \in SUBSET (1 .. 0) : Body(g, S) = st
                BY <4>1, Zenon
            <4> QED
                BY <4>2, Zenon DEF Folds
        <3> QED
            BY <2>3, <3>1
    <2>5. n - 1 \in 0 .. m /\ n - 1 \notin T
        BY <2>2, <2>3, <2>4
    <2>6. PICK g : Folds(g, n - 1)
        BY <2>5 DEF T
    <2> DEFINE h == [S \in SUBSET (1 .. n) |-> IF n \in S THEN Tally(H, key, g[S \ {n}], xs[n]) ELSE g[S]]
    <2>7. ASSUME NEW S \in SUBSET (1 .. n - 1)
          PROVE  h[S] = g[S]
        <3>1. S \in SUBSET (1 .. n) /\ n \notin S
            BY <2>3, <2>4
        <3> QED
            BY <3>1, Zenon
    <2>8. ASSUME NEW S \in SUBSET (1 .. n)
          PROVE  h[S] = Body(h, S)
        <3>1. CASE n \in S
            <4>0. n \in Nat /\ S \subseteq 1 .. n
                BY <2>3
            <4>1. Max(S) = n
                BY <3>1, <4>0, MaxTo, Zenon
            <4>2. S \ {n} \in SUBSET (1 .. n - 1)
                BY <2>3
            <4>3. h[S \ {n}] = g[S \ {n}]
                BY <2>7, <4>2, Zenon
            <4>4. h[S] = Tally(H, key, g[S \ {n}], xs[n])
                BY <3>1, Zenon
            <4> QED
                BY <3>1, <4>1, <4>3, <4>4, Zenon
        <3>2. CASE n \notin S
            <4>0. S \in SUBSET (1 .. n - 1)
                BY <2>3, <3>2
            <4>1. S \in SUBSET (1 .. n - 1) /\ S \ {Max(S)} \in SUBSET (1 .. n - 1)
                BY <4>0, Zenon
            <4>2. h[S] = g[S] /\ h[S \ {Max(S)}] = g[S \ {Max(S)}]
                BY <2>7, <4>1, Zenon
            <4>3. g[S] = Body(g, S)
                BY <2>6, <4>1, Zenon DEF Folds
            <4> QED
                BY <4>2, <4>3, Zenon
        <3> QED
            BY <3>1, <3>2
    <2>9. Folds(h, n)
        <3>1. h = [S \in SUBSET (1 .. n) |-> h[S]]
            BY Zenon
        <3>2. [S \in SUBSET (1 .. n) |-> h[S]] = [S \in SUBSET (1 .. n) |-> Body(h, S)]
            BY <2>8, Zenon
        <3> HIDE DEF h
        <3> QED
            BY <3>1, <3>2, Zenon DEF Folds
    <2> QED
        BY <2>3, <2>9
<1>3. fold = [S \in SUBSET (1 .. m) |-> Body(fold, S)]
    <2>1. \E g : g = [S \in SUBSET (1 .. m) |-> Body(g, S)]
        <3>1. m \in 0 .. m
            OBVIOUS
        <3> QED
            BY <1>2, <3>1, Zenon
    <2> QED
        BY <2>1, Zenon
<1> HIDE DEF fold
<1>4. \A S \in SUBSET (1 .. m) : fold[S] = Body(fold, S)
    BY <1>3, Zenon
<1> DEFINE f == [i \in 0 .. m |-> fold[1 .. i]]
<1>5. f[0] = st
    <2>1. (1 .. 0) = {} /\ {} \in SUBSET (1 .. m) /\ 0 \in 0 .. m
        OBVIOUS
    <2>2. fold[{}] = st
        BY <1>4, <2>1, Zenon
    <2> QED
        BY <2>1, <2>2
<1>6. f[m] = Tallies(H, key, st, xs)
    BY <1>1
<1>7. ASSUME NEW i \in 1 .. m
      PROVE  f[i] = Tally(H, key, f[i - 1], xs[i])
    <2>1. (1 .. i) \in SUBSET (1 .. m) /\ (1 .. i) # {} /\ (1 .. i) \ {i} = 1 .. i - 1 /\ Max(1 .. i) = i
        BY MaxTo
    <2>2. fold[1 .. i] = Tally(H, key, fold[1 .. i - 1], xs[i])
        BY <1>4, <2>1, Zenon
    <2>3. i \in 0 .. m /\ i - 1 \in 0 .. m
        OBVIOUS
    <2> QED
        BY <2>2, <2>3, Zenon
<1> HIDE DEF f
<1> QED
    BY <1>5, <1>6, <1>7, Zenon DEF Between

\* Values that grow go on growing.
LEMMA GrownOn ==
    ASSUME NEW H, NEW at, NEW a, NEW b, NEW c, Grown(H, at, a, b), Grown(H, at, b, c)
    PROVE  Grown(H, at, a, c)
BY Zenon DEF Grown

\* A position that is counted, or is none of the key.
LEMMA TallyGrows ==
    ASSUME NEW H \in Seq(Token), NEW at \in Nat, NEW values \in Values, Following(H, at, values),
           NEW key, Len(key) = N, MatchAt(H, at, key), NEW i \in Nat, Reaches(H, i)
    PROVE  /\ Grown(H, at, values, Tally(H, key, values, i))
           /\ MatchAt(H, i, key) => Live(Tally(H, key, values, i)) # {}
<1>1. CASE MatchAt(H, i, key)
    <2>1. Same(H, i, at, N)
        BY <1>1, MatchSame, Zenon
    <2>2. Grown(H, at, values, Counted(H, values, i)) /\ Live(Counted(H, values, i)) # {}
        BY <2>1, CountedGrows, Zenon
    <2> QED
        BY <1>1, <2>2, Zenon DEF Tally
<1>2. CASE ~MatchAt(H, i, key)
    BY <1>2, Zenon DEF Tally, Grown
<1> QED
    BY <1>1, <1>2

\* The statistics of a key up to an occurrence at at have a value in use.
LEMMA StatisticsGrow ==
    ASSUME NEW H \in Seq(Token), NEW key, Len(key) = N, NEW cur \in Key,
           Following(H, cur.keyIdx, cur.values), MatchAt(H, cur.keyIdx, key),
           cur.statIdx # 0 => Live(cur.values) # {},
           NEW at \in Nat, at # 0, Reaches(H, at), MatchAt(H, at, key)
    PROVE  /\ Grown(H, cur.keyIdx, cur.values, Statistics(H, key, cur, at))
           /\ Live(Statistics(H, key, cur, at)) # {}
<1> DEFINE xs == [k \in 1 .. at - cur.statIdx + 1 |-> cur.statIdx + k - 1]
<1>1. PICK base \in Values, first \in Nat, st \in Nat : base = cur.values /\ first = cur.keyIdx /\ st = cur.statIdx
    BY Zenon DEF Key
<1>2. Statistics(H, key, cur, at) = Tallies(H, key, base, xs)
    BY <1>1, Zenon DEF Statistics, Tallies
<1>3. Len(H) \in Nat
    OBVIOUS
<1>4. Grown(H, first, base, base)
    BY <1>1, Zenon DEF Grown
<1>5. \A i \in Nat : i <= at => Reaches(H, i)
    BY <1>3, Sizes DEF Reaches
<1>6. CASE at < st
    <2>1. DOMAIN xs = 1 .. 0 /\ 0 \in Nat
        BY <1>1, <1>6
    <2> HIDE DEF xs
    <2>2. PICK f : Between(H, key, base, 0, xs, f)
        BY <2>1, TalliesStep, Zenon
    <2>3. Statistics(H, key, cur, at) = base
        BY <1>2, <2>2, Zenon DEF Between
    <2>4. st # 0
        BY <1>1, <1>6
    <2> QED
        BY <1>1, <1>4, <2>3, <2>4, Zenon
<1>7. CASE st <= at
    <2>1. PICK m \in Nat : m = at - st + 1 /\ m # 0
        BY <1>1, <1>7, SMTT(30)
    <2>2. DOMAIN xs = 1 .. m /\ \A i \in 1 .. m : xs[i] \in Nat /\ xs[i] <= at
        BY <1>1, <2>1, SMTT(30)
    <2>3. m \in 1 .. m /\ xs[m] = at
        BY <1>1, <2>1
    <2> HIDE DEF xs
    <2>4. PICK f : Between(H, key, base, m, xs, f)
        BY <2>2, TalliesStep, Zenon
    <2>5. f[0] = base /\ f[m] = Tallies(H, key, base, xs) /\ \A i \in 1 .. m : f[i] = Tally(H, key, f[i - 1], xs[i])
        BY <2>4, Zenon DEF Between
    <2>6. ASSUME NEW i \in 1 .. m, Grown(H, first, base, f[i - 1])
          PROVE  /\ Grown(H, first, base, f[i])
                 /\ MatchAt(H, xs[i], key) => Live(f[i]) # {}
        <3>1. f[i - 1] \in Values /\ Following(H, first, f[i - 1])
            BY <2>6, Zenon DEF Grown
        <3>2. xs[i] \in Nat /\ Reaches(H, xs[i]) /\ MatchAt(H, first, key)
            BY <1>1, <1>5, <2>2
        <3>3. /\ Grown(H, first, f[i - 1], Tally(H, key, f[i - 1], xs[i]))
              /\ MatchAt(H, xs[i], key) => Live(Tally(H, key, f[i - 1], xs[i])) # {}
            BY <1>1, <3>1, <3>2, TallyGrows, Zenon
        <3>4. f[i] = Tally(H, key, f[i - 1], xs[i])
            BY <2>5, Zenon
        <3>5. Grown(H, first, f[i - 1], f[i]) /\ (MatchAt(H, xs[i], key) => Live(f[i]) # {})
            BY <3>3, <3>4, Zenon
        <3>6. Grown(H, first, base, f[i])
            BY <2>6, <3>5, GrownOn, Zenon
        <3> QED
            BY <3>5, <3>6, Zenon
    <2>7. \A i \in 0 .. m : Grown(H, first, base, f[i])
        <3> DEFINE T == {i \in 0 .. m : ~Grown(H, first, base, f[i])}
        <3> SUFFICES ASSUME T # {}
                     PROVE  FALSE
            BY Zenon
        <3>1. T \subseteq Nat
            OBVIOUS
        <3>2. PICK i \in T : \A k \in T : i <= k
            BY <3>1, LeastNat, Zenon
        <3>3. i \in 0 .. m /\ ~Grown(H, first, base, f[i])
            BY <3>2, Zenon
        <3>4. i # 0
            BY <1>4, <2>5, <3>3, Zenon
        <3>5. i - 1 \in 0 .. m /\ i \in 1 .. m /\ ~(i <= i - 1)
            BY <3>3, <3>4
        <3>6. Grown(H, first, base, f[i - 1])
            BY <3>2, <3>5, Zenon
        <3> QED
            BY <2>6, <3>3, <3>5, <3>6, Zenon
    <2>8. m - 1 \in 0 .. m
        BY <2>1
    <2>9. Grown(H, first, base, f[m]) /\ Live(f[m]) # {}
        BY <2>3, <2>6, <2>7, <2>8, Zenon
    <2> QED
        BY <1>1, <1>2, <2>5, <2>9, Zenon
<1> QED
    BY <1>1, <1>6, <1>7

\* The dominant value is one, and in use when any is.
LEMMA DominantLive ==
    ASSUME NEW H, NEW at, NEW values \in Values, Following(H, at, values), Live(values) # {}
    PROVE  Dominant(values) \in Live(values)
<1> DEFINE Best(v) == \A w \in 1 .. MaxValues :
                         values[w].num < values[v].num \/ (values[w].num = values[v].num /\ v <= w)
<1>1. DOMAIN values = 1 .. MaxValues /\ \A v \in 1 .. MaxValues : values[v].num \in 0 .. MaxCount
    BY Sizes DEF Values, Value
<1>2. \E v \in 1 .. MaxValues : Best(v)
    <2> DEFINE Nums == {values[v].num : v \in 1 .. MaxValues}
               top == Max(Nums)
               Tops == {v \in 1 .. MaxValues : values[v].num = top}
    <2>1. 1 \in 1 .. MaxValues /\ MaxCount \in Nat
        BY Sizes
    <2>2. Nums \subseteq 0 .. MaxCount /\ Nums # {}
        BY <1>1, <2>1, Zenon
    <2>3. top \in Nums /\ \A n \in Nums : top >= n
        BY <2>1, <2>2, MaxIn, Zenon
    <2> HIDE DEF top
    <2>4. Tops \subseteq Nat /\ Tops # {}
        <3>1. 1 .. MaxValues \subseteq Nat
            OBVIOUS
        <3> QED
            BY <2>3, <3>1, Zenon
    <2>5. Min(Tops) \in Tops /\ \A v \in Tops : Min(Tops) <= v
        BY <2>4, MinIn, Zenon
    <2>6. PICK v \in 1 .. MaxValues : values[v].num = top /\ \A w \in Tops : v <= w
        BY <2>5, Zenon
    <2>7. \A w \in 1 .. MaxValues : values[w].num < values[v].num \/ (values[w].num = values[v].num /\ v <= w)
        <3> TAKE w \in 1 .. MaxValues
        <3>1. top >= values[w].num /\ top \in 0 .. MaxCount /\ values[w].num \in 0 .. MaxCount
            BY <1>1, <2>2, <2>3, Zenon
        <3>2. values[w].num = top => v <= w
            BY <2>6, Zenon
        <3>3. values[w].num < top \/ values[w].num = top
            BY <3>1
        <3> QED
            BY <2>6, <3>2, <3>3, Zenon
    <2> QED
        BY <2>7, Zenon
<1>3. Dominant(values) \in 1 .. MaxValues /\ Best(Dominant(values))
    BY <1>1, <1>2, Zenon DEF Dominant
<1> DEFINE d == Dominant(values)
<1> HIDE DEF d
<1>4. PICK w \in Live(values) : w \in 1 .. MaxValues /\ values[w].num >= 1
    BY Zenon DEF Live, Following, Follows
<1>5. d \in 1 .. MaxValues /\ (values[w].num < values[d].num \/ values[w].num = values[d].num)
    BY <1>3, <1>4, Zenon DEF d
<1>6. values[d].num # 0
    BY <1>1, <1>4, <1>5
<1>7. d \in Live(values)
    BY <1>5, <1>6, Zenon DEF Following
<1> QED
    BY <1>7 DEF d

-----------------------------------------------------------------------------
(* The entry of a key.                                                     *)

\* The keys after a look-up: the old ones are there, their values as long as before.
Kept(old, ks) ==
    /\ DOMAIN old \subseteq DOMAIN ks
    /\ \A i \in DOMAIN old : \A v \in 1 .. MaxValues : ks[i].values[v].accepted = old[i].values[v].accepted

\* k is in place at ko.
Stored(H, ks, ko, k) == KeysOK(H, ks) /\ Kept(keys, ks) /\ ko \in DOMAIN ks /\ ks[ko] = k

\* An entry that replaces the one of the same key.
LEMMA ReplacedOK ==
    ASSUME NEW H, KeysOK(H, keys), NEW ko \in DOMAIN keys, NEW k \in Key, KeyOK(H, k), k.keyIdx = keys[ko].keyIdx,
           \A v \in 1 .. MaxValues : k.values[v].accepted = keys[ko].values[v].accepted
    PROVE  Stored(H, [keys EXCEPT ![ko] = k], ko, k)
<1> DEFINE new == [keys EXCEPT ![ko] = k]
<1>1. keys \in Seq(Key) /\ ko \in 1 .. Len(keys) /\ DOMAIN keys = 1 .. Len(keys)
    BY DEF KeysOK
<1>2. new \in Seq(Key) /\ Len(new) = Len(keys) /\ \A i \in 1 .. Len(keys) : new[i] = IF i = ko THEN k ELSE keys[i]
    BY <1>1, ExceptSeq
<1> HIDE DEF new
<1>3. DOMAIN new = DOMAIN keys
    BY <1>1, <1>2
<1>4. \A i \in DOMAIN keys : new[i].keyIdx = keys[i].keyIdx /\ KeyOK(H, new[i])
    BY <1>1, <1>2, Zenon DEF KeysOK
<1>5. KeysOK(H, new)
    BY <1>2, <1>3, <1>4, Zenon DEF KeysOK
<1>6. Kept(keys, new)
    BY <1>1, <1>2, <1>3, Zenon DEF Kept
<1>7. Stored(H, new, ko, k)
    BY <1>1, <1>2, <1>3, <1>5, <1>6, Zenon DEF Stored
<1> QED
    BY <1>7 DEF new

\* An entry for a key there was none of.
LEMMA AppendedOK ==
    ASSUME NEW H, KeysOK(H, keys), NEW a \in Key, NEW k \in Key, KeyOK(H, k),
           \A i \in DOMAIN keys : ~Same(H, keys[i].keyIdx, k.keyIdx, N)
    PROVE  Stored(H, [Append(keys, a) EXCEPT ![Len(keys) + 1] = k], Len(keys) + 1, k)
<1> DEFINE new == [Append(keys, a) EXCEPT ![Len(keys) + 1] = k]
<1>1. keys \in Seq(Key) /\ DOMAIN keys = 1 .. Len(keys) /\ Len(keys) \in Nat
    BY DEF KeysOK
<1>2. /\ Append(keys, a) \in Seq(Key) /\ Len(Append(keys, a)) = Len(keys) + 1
      /\ \A i \in 1 .. Len(keys) : Append(keys, a)[i] = keys[i]
    BY <1>1, AppendProperties
<1>3. Len(keys) + 1 \in 1 .. Len(Append(keys, a))
    BY <1>1, <1>2
<1>4. /\ new \in Seq(Key) /\ Len(new) = Len(keys) + 1
      /\ \A i \in 1 .. Len(keys) + 1 : new[i] = IF i = Len(keys) + 1 THEN k ELSE Append(keys, a)[i]
    <2>1. /\ new \in Seq(Key) /\ Len(new) = Len(Append(keys, a))
          /\ \A i \in 1 .. Len(Append(keys, a)) :
                new[i] = IF i = Len(keys) + 1 THEN k ELSE Append(keys, a)[i]
        <3>1. PICK w \in Seq(Key) : w = Append(keys, a)
            BY <1>2, Zenon
        <3>0. PICK q \in 1 .. Len(w) : q = Len(keys) + 1
            BY <1>3, <3>1, Zenon
        <3>2. /\ [w EXCEPT ![q] = k] \in Seq(Key) /\ Len([w EXCEPT ![q] = k]) = Len(w)
              /\ \A j \in 1 .. Len(w) : [w EXCEPT ![q] = k][j] = IF j = q THEN k ELSE w[j]
            BY ExceptSeq
        <3> QED
            BY <3>0, <3>1, <3>2, Zenon
    <2> QED
        BY <1>2, <2>1, Zenon
<1> HIDE DEF new
<1>5. /\ DOMAIN new = 1 .. Len(keys) + 1 /\ Len(keys) + 1 \in DOMAIN new /\ new[Len(keys) + 1] = k
      /\ \A i \in DOMAIN keys : new[i] = keys[i] /\ i \in DOMAIN new
      /\ \A i \in DOMAIN new : i \in DOMAIN keys \/ i = Len(keys) + 1
    BY <1>1, <1>2, <1>4
<1>6. \A i \in DOMAIN keys : ~Same(H, k.keyIdx, keys[i].keyIdx, N)
    BY Zenon DEF Same
<1>7. KeysOK(H, new)
    <2>1. \A i \in DOMAIN new : KeyOK(H, new[i])
        BY <1>5, Zenon DEF KeysOK
    <2>2. \A i, j \in DOMAIN new : i # j => ~Same(H, new[i].keyIdx, new[j].keyIdx, N)
        BY <1>5, <1>6, Zenon DEF KeysOK
    <2> QED
        BY <1>4, <2>1, <2>2, Zenon DEF KeysOK
<1>8. Kept(keys, new)
    BY <1>5, Zenon DEF Kept
<1>9. Stored(H, new, Len(keys) + 1, k)
    BY <1>5, <1>7, <1>8, Zenon DEF Stored
<1> QED
    BY <1>9 DEF new

\* Where a key has its entry.
Known(H, key) == SelectInSeq(keys, LAMBDA k : MatchAt(H, k.keyIdx, key))

\* It is the entry of that key, or there is none.
LEMMA KnownKey ==
    ASSUME NEW H, KeysOK(H, keys), NEW key
    PROVE  \/ Known(H, key) \in DOMAIN keys /\ Known(H, key) # 0 /\ MatchAt(H, keys[Known(H, key)].keyIdx, key)
           \/ Known(H, key) = 0 /\ \A i \in DOMAIN keys : ~MatchAt(H, keys[i].keyIdx, key)
<1> DEFINE I == {i \in 1 .. Len(keys) : MatchAt(H, keys[i].keyIdx, key)}
<1>1. Known(H, key) = IF I # {} THEN Min(I) ELSE 0
    BY Zenon DEF Known, SelectInSeq
<1>2. DOMAIN keys = 1 .. Len(keys)
    BY DEF KeysOK
<1>3. I \subseteq Nat /\ \A i \in I : i # 0
    OBVIOUS
<1>4. CASE I = {}
    BY <1>1, <1>2, <1>4, Zenon
<1>5. CASE I # {}
    <2>1. Min(I) \in I
        BY <1>3, <1>5, MinIn, Zenon
    <2> QED
        BY <1>1, <1>2, <1>3, <1>5, <2>1, Zenon
<1> QED
    BY <1>4, <1>5

\* The keys with one more for key if there is none, and where it is.
Place(H, key) == IF Known(H, key) = 0 THEN Len(keys) + 1 ELSE Known(H, key)
All(H, key, at) == IF Known(H, key) = 0 THEN Append(keys, NewKey(at)) ELSE keys

\* The entry after one more hit.
Hit(H, key, at) == [All(H, key, at)[Place(H, key)] EXCEPT !.keyNum = Count(@)]

\* k may take the place of the entry k0.
Replaces(H, k, k0) ==
    /\ k \in Key /\ KeyOK(H, k) /\ k.keyIdx = k0.keyIdx
    /\ \A v \in 1 .. MaxValues : k.values[v].accepted = k0.values[v].accepted

\* at is a place of key with a value behind it.
IsAt(H, key, at) ==
    key \in Seq(Token) /\ Len(key) = N /\ at \in Nat /\ at # 0 /\ Reaches(H, at) /\ MatchAt(H, at, key)

\* One more hit makes an entry of the key ...
LEMMA HitOK ==
    ASSUME NEW H, MapOK(H), NEW key, NEW at, IsAt(H, key, at)
    PROVE  Replaces(H, Hit(H, key, at), Hit(H, key, at)) /\ MatchAt(H, Hit(H, key, at).keyIdx, key)
<1> DEFINE k0 == All(H, key, at)[Place(H, key)]
           k == [k0 EXCEPT !.keyNum = Count(@)]
<1>0. KeysOK(H, keys) /\ keys \in Seq(Key)
    BY DEF MapOK, KeysOK
<1>1. /\ k0 \in Key /\ k0.keyIdx # 0 /\ Reaches(H, k0.keyIdx) /\ MatchAt(H, k0.keyIdx, key)
      /\ k0.statIdx # 0 => Reaches(H, k0.statIdx) /\ Live(k0.values) # {}
      /\ Following(H, k0.keyIdx, k0.values)
    <2>1. CASE Known(H, key) = 0
        <3>1. k0 = NewKey(at)
            BY <1>0, <2>1 DEF All, Place
        <3> DEFINE made == [v \in 1 .. MaxValues |-> [idx |-> 0, num |-> 0, accepted |-> M]]
        <3>2. NewKey(at) = [keyIdx |-> at, statIdx |-> 0, keyNum |-> 0, values |-> made]
            BY DEF NewKey
        <3>3. made \in Values /\ Live(made) = {} /\ \A v \in 1 .. MaxValues : made[v].num = 0 /\ made[v].accepted = M
            <4>1. 0 \in Nat /\ 0 \in 0 .. MaxCount /\ M \in 0 .. M
                BY Sizes
            <4> QED
                BY <4>1 DEF Values, Value, Live
        <3> HIDE DEF made
        <3>4. Following(H, at, made)
            BY <3>3, Zenon DEF Following
        <3>5. 0 \in Nat /\ 0 \in 0 .. MaxCount
            BY Sizes
        <3>6. NewKey(at) \in Key /\ NewKey(at).keyIdx = at /\ NewKey(at).statIdx = 0 /\ NewKey(at).values = made
            BY <3>2, <3>3, <3>5 DEF Key, IsAt
        <3> QED
            BY <3>1, <3>4, <3>6, Zenon DEF IsAt
    <2>2. CASE Known(H, key) # 0
        <3>1. Known(H, key) \in DOMAIN keys /\ MatchAt(H, keys[Known(H, key)].keyIdx, key)
            BY <1>0, <2>2, KnownKey, Zenon
        <3>2. k0 = keys[Known(H, key)]
            BY <2>2 DEF All, Place
        <3>3. KeyOK(H, k0)
            BY <1>0, <3>1, <3>2, Zenon DEF KeysOK
        <3>4. k0 \in Key
            BY <1>0, <3>1, <3>2
        <3> QED
            BY <3>1, <3>2, <3>3, <3>4, Zenon DEF KeyOK
    <2> QED
        BY <2>1, <2>2
<1>2. k0.keyNum \in 0 .. MaxCount
    BY <1>1 DEF Key
<1>3. Count(k0.keyNum) \in 1 .. MaxCount
    BY <1>2, CountIn
<1> HIDE DEF k0
<1>4. /\ k \in Key /\ k.keyNum # 0
      /\ k.keyIdx = k0.keyIdx /\ k.statIdx = k0.statIdx /\ k.values = k0.values
    BY <1>1, <1>3 DEF Key
<1>5. Hit(H, key, at) = k
    BY DEF Hit, k0
<1> HIDE DEF k
<1>6. Replaces(H, k, k) /\ MatchAt(H, k.keyIdx, key)
    BY <1>1, <1>4, Zenon DEF Replaces, KeyOK
<1> QED
    BY <1>5, <1>6

\* ... and what replaces it goes into the map in its place.
LEMMA StoreOK ==
    ASSUME NEW H, MapOK(H), NEW key, NEW at, IsAt(H, key, at),
           NEW k, Replaces(H, k, Hit(H, key, at))
    PROVE  Stored(H, [All(H, key, at) EXCEPT ![Place(H, key)] = k], Place(H, key), k)
<1>0. KeysOK(H, keys) /\ keys \in Seq(Key) /\ k \in Key /\ KeyOK(H, k)
    BY DEF MapOK, KeysOK, Replaces
<1> DEFINE k0 == All(H, key, at)[Place(H, key)]
<1>1. Hit(H, key, at) = [k0 EXCEPT !.keyNum = Count(@)]
    BY DEF Hit
<1>2. MatchAt(H, Hit(H, key, at).keyIdx, key) /\ Len(key) = N
    BY HitOK DEF IsAt
<1>3. k.keyIdx = Hit(H, key, at).keyIdx
    BY DEF Replaces
<1>4. CASE Known(H, key) = 0
    <2>1. Place(H, key) = Len(keys) + 1 /\ All(H, key, at) = Append(keys, NewKey(at))
        BY <1>4 DEF All, Place
    <2>2. NewKey(at) \in Key
        <3>1. 0 \in Nat /\ 0 \in 0 .. MaxCount /\ M \in 0 .. M /\ at \in Nat
            BY Sizes DEF IsAt
        <3>2. [v \in 1 .. MaxValues |-> [idx |-> 0, num |-> 0, accepted |-> M]] \in Values
            BY <3>1 DEF Values, Value
        <3> QED
            BY <3>1, <3>2 DEF NewKey, Key
    <2>3. \A i \in DOMAIN keys : ~MatchAt(H, keys[i].keyIdx, key)
        BY <1>0, <1>4, KnownKey, Zenon
    <2>4. \A i \in DOMAIN keys : ~Same(H, keys[i].keyIdx, k.keyIdx, N)
        <3> SUFFICES ASSUME NEW i \in DOMAIN keys, Same(H, keys[i].keyIdx, k.keyIdx, N)
                     PROVE  FALSE
            BY Zenon
        <3>1. Same(H, k.keyIdx, keys[i].keyIdx, N)
            BY Zenon DEF Same
        <3>2. MatchAt(H, keys[i].keyIdx, key)
            BY <1>2, <1>3, <3>1, SameMatch, Zenon
        <3> QED
            BY <2>3, <3>2, Zenon
    <2> QED
        BY <1>0, <2>1, <2>2, <2>4, AppendedOK, Zenon
<1>5. CASE Known(H, key) # 0
    <2>1. Place(H, key) = Known(H, key) /\ All(H, key, at) = keys
        BY <1>5 DEF All, Place
    <2>2. Known(H, key) \in DOMAIN keys
        BY <1>0, <1>5, KnownKey, Zenon
    <2>3. k0 = keys[Known(H, key)] /\ k0 \in Key
        BY <1>0, <2>1, <2>2
    <2>4. Hit(H, key, at).keyIdx = k0.keyIdx /\ Hit(H, key, at).values = k0.values
        BY <1>1, <2>3 DEF Key
    <2>5. /\ k.keyIdx = keys[Known(H, key)].keyIdx
          /\ \A v \in 1 .. MaxValues : k.values[v].accepted = keys[Known(H, key)].values[v].accepted
        BY <2>3, <2>4, Zenon DEF Replaces
    <2> QED
        BY <1>0, <2>1, <2>2, <2>5, ReplacedOK, Zenon
<1> QED
    BY <1>4, <1>5

-----------------------------------------------------------------------------
(* A look-up.                                                              *)

\* The counted entry of a key.
Counting(H, key, at) ==
    [Hit(H, key, at) EXCEPT !.statIdx = at, !.values = Statistics(H, key, Hit(H, key, at), at)]

\* It may replace the entry, and has a dominant value that is in use.
LEMMA CountingOK ==
    ASSUME NEW H, MapOK(H), NEW key, NEW at, IsAt(H, key, at)
    PROVE  /\ Replaces(H, Counting(H, key, at), Hit(H, key, at))
           /\ Dominant(Counting(H, key, at).values) \in Live(Counting(H, key, at).values)
<1> DEFINE hit == Hit(H, key, at)
           stats == Statistics(H, key, hit, at)
           k == [hit EXCEPT !.statIdx = at, !.values = stats]
<1>1. hit \in Key /\ KeyOK(H, hit) /\ MatchAt(H, hit.keyIdx, key)
    BY HitOK, Zenon DEF Replaces
<1>2. H \in Seq(Token) /\ Len(key) = N /\ at \in Nat /\ at # 0 /\ Reaches(H, at) /\ MatchAt(H, at, key)
    BY DEF MapOK, IsAt
<1> HIDE DEF hit
<1>3. Following(H, hit.keyIdx, hit.values) /\ (hit.statIdx # 0 => Live(hit.values) # {})
    BY <1>1, Zenon DEF KeyOK
<1>4. Grown(H, hit.keyIdx, hit.values, stats) /\ Live(stats) # {}
    BY <1>1, <1>2, <1>3, StatisticsGrow, Zenon
<1> HIDE DEF stats
<1>5. stats \in Values /\ Following(H, hit.keyIdx, stats)
    BY <1>4, Zenon DEF Grown
<1>6. k \in Key /\ k.keyIdx = hit.keyIdx /\ k.keyNum = hit.keyNum /\ k.statIdx = at /\ k.values = stats
    BY <1>1, <1>2, <1>5 DEF Key
<1>7. Counting(H, key, at) = k
    BY DEF Counting, hit, stats
<1> HIDE DEF k
<1>8. Replaces(H, k, hit)
    BY <1>1, <1>2, <1>4, <1>5, <1>6, Zenon DEF Replaces, KeyOK, Grown
<1>9. Dominant(stats) \in Live(stats)
    BY <1>4, <1>5, DominantLive, Zenon
<1> QED
    BY <1>6, <1>7, <1>8, <1>9 DEF hit

\* The key that is looked for.
KeyOf(H, t) == SubSeq(H, Len(H) - N + 2, Len(H)) \o <<t>>

\* It is the end of the text with the sampled token.
LEMMA KeyAtEnd ==
    ASSUME NEW H \in Seq(Token), NEW t \in Token, Len(H) >= N
    PROVE  /\ KeyOf(H, t) \in Seq(Token) /\ Len(KeyOf(H, t)) = N
           /\ MatchAt(Append(H, t), Len(H) + 1 - N, KeyOf(H, t))
<1>1. PICK a \in Nat, n \in Nat : n + 1 = N /\ a + n = Len(H) /\ a + 1 = Len(H) - N + 2
    <2>1. /\ Len(H) - (N - 1) \in Nat /\ N - 1 \in Nat /\ (N - 1) + 1 = N
          /\ (Len(H) - (N - 1)) + (N - 1) = Len(H) /\ (Len(H) - (N - 1)) + 1 = Len(H) - N + 2
        BY Sizes
    <2> QED
        BY <2>1, Zenon
<1> DEFINE g == SubSeq(H, a + 1, a + n)
<1>2. g \in Seq(Token) /\ Len(g) = n /\ \A i \in 1 .. n : g[i] = H[a + i]
    <2>1. a + n <= Len(H)
        BY <1>1
    <2> QED
        BY <2>1, Section, Zenon
<1>3. KeyOf(H, t) = g \o <<t>>
    BY <1>1, Zenon DEF KeyOf
<1> HIDE DEF g
<1>4. /\ KeyOf(H, t) \in Seq(Token) /\ Len(KeyOf(H, t)) = n + 1
      /\ \A i \in 1 .. n : KeyOf(H, t)[i] = g[i]
      /\ KeyOf(H, t)[n + 1] = t
    <2>1. /\ g \o <<t>> \in Seq(Token) /\ Len(g \o <<t>>) = n + 1
          /\ \A i \in 1 .. n : (g \o <<t>>)[i] = g[i]
          /\ (g \o <<t>>)[n + 1] = t
        <3>1. PICK x \in Seq(Token) : x = g /\ Len(x) = n
            BY <1>2, Zenon
        <3>2. x \o <<t>> \in Seq(Token) /\ Len(x \o <<t>>) = n + 1
            BY <3>1
        <3>3. \A i \in 1 .. n : (x \o <<t>>)[i] = x[i]
            BY <3>1
        <3>4. (x \o <<t>>)[n + 1] = t
            BY <3>1
        <3> QED
            BY <3>1, <3>2, <3>3, <3>4, Zenon
    <2> QED
        BY <1>3, <2>1, Zenon
<1>5. ASSUME NEW i \in 1 .. n + 1
      PROVE  Append(H, t)[a + i] = KeyOf(H, t)[i]
    <2>1. CASE i = n + 1
        <3>1. a + i = Len(H) + 1
            BY <1>1, <2>1
        <3>2. Append(H, t)[Len(H) + 1] = t
            OBVIOUS
        <3> QED
            BY <1>4, <2>1, <3>1, <3>2, Zenon
    <2>2. CASE i \in 1 .. n
        <3>1. a + i \in 1 .. Len(H)
            BY <1>1, <2>2
        <3> QED
            BY <1>2, <1>4, <2>2, <3>1
    <2> QED
        BY <1>1, <2>1, <2>2, SMTT(30)
<1>6. Len(H) + 1 - N = a
    BY <1>1, Sizes
<1> QED
    BY <1>1, <1>4, <1>5, <1>6, Zenon DEF MatchAt

\* A draft follows a place of the key, and is not longer than its value may be.
DraftOK(H, map) ==
    /\ map.out \in Seq(Token) /\ Len(map.out) <= M
    /\ map.out # << >> => IsAt(H, map.key, map.at) /\ Len(H) >= N /\ map.last.created
    /\ \A i \in 1 .. Len(map.out) : map.out[i] = H[map.at + N + i]

\* The value of the last draft is in use.
LastOK(map) ==
    /\ map.last.created \in BOOLEAN
    /\ map.last.created =>
          /\ map.last.key \in DOMAIN map.keys /\ map.last.value \in Live(map.keys[map.last.key].values)
          /\ Len(map.out) <= map.keys[map.last.key].values[map.last.value].accepted

\* What a look-up gives.
Looked(H, t, map) ==
    /\ KeysOK(H, map.keys) /\ Kept(keys, map.keys) /\ PlacesOK(H, map.keyMap, map.mapLast)
    /\ map.key = KeyOf(H, t) /\ DraftOK(H, map) /\ LastOK(map)

\* A look-up that does not draft, whatever it keeps.
LEMMA NoDraft ==
    ASSUME NEW H, NEW t, NEW map, KeysOK(H, map.keys), Kept(keys, map.keys),
           PlacesOK(H, map.keyMap, map.mapLast),
           map.key = KeyOf(H, t), map.out = << >>, map.last.created = FALSE
    PROVE  Looked(H, t, map)
<1>1. << >> \in Seq(Token) /\ Len(<< >>) = 0 /\ 0 <= M
    BY Sizes
<1>2. \A i \in 1 .. 0 : FALSE
    OBVIOUS
<1>3. DraftOK(H, map)
    BY <1>1, <1>2, Zenon DEF DraftOK
<1> QED
    BY <1>3, Zenon DEF Looked, LastOK

\* The draft of a value of the counted entry.
LEMMA ValueDraft ==
    ASSUME NEW H, MapOK(H), NEW key, NEW at, IsAt(H, key, at), NEW n \in Nat, n <= M
    PROVE  /\ Gram(H, at + N, n) \in Seq(Token) /\ Len(Gram(H, at + N, n)) = n
           /\ \A i \in 1 .. n : Gram(H, at + N, n)[i] = H[at + N + i]
<1>1. at + N \in Nat /\ (at + N) + n <= Len(H) /\ H \in Seq(Token)
    BY Sizes DEF MapOK, IsAt, Reaches
<1> QED
    BY <1>1, Section, Zenon DEF Gram

\* Whatever is looked up, the map stays in order and the draft is from the text.
LEMMA LookupOK ==
    ASSUME NEW H, MapOK(H), NEW t \in Token
    PROVE  Looked(H, t, Lookup(H, t))
<1> DEFINE key == KeyOf(H, t)
           none == [keys |-> keys, keyMap |-> keyMap, mapLast |-> mapLast,
                    last |-> [created |-> FALSE, key |-> 1, value |-> 1], key |-> key, at |-> 0, out |-> << >>]
           at == MatchPos(H, key)
           hashed == [none EXCEPT !.keyMap = Hashed(H), !.mapLast = Max({High(H), mapLast}), !.at = at]
           all == All(H, key, at)
           ko == Place(H, key)
           hits == Hit(H, key, at)
           counted == Counting(H, key, at)
           best == Dominant(counted.values)
           rest == Others(counted.values)
           nd == Min({M, counted.values[best].accepted})
           onlyHit == [hashed EXCEPT !.keys = [all EXCEPT ![ko] = hits]]
           onlyCounted == [hashed EXCEPT !.keys = [all EXCEPT ![ko] = counted]]
           drafted == [hashed EXCEPT !.keys = [all EXCEPT ![ko] = counted],
                                     !.last = [created |-> TRUE, key |-> ko, value |-> best],
                                     !.out = Gram(H, at + N, nd)]
<1>1. Lookup(H, t) = IF Len(H) < 2 * N + M THEN none
                     ELSE IF at = 0 THEN hashed
                     ELSE IF hits.keyNum < MinHits THEN onlyHit
                     ELSE IF rest > 0 /\ counted.values[best].num < 2 * rest THEN onlyCounted
                     ELSE drafted
    BY Zenon DEF Lookup, KeyOf, All, Place, Known, Hit, Counting
<1>2. KeysOK(H, keys) /\ Kept(keys, keys) /\ PlacesOK(H, keyMap, mapLast)
    BY Zenon DEF MapOK, Kept
<1>3. PlacesOK(H, Hashed(H), Max({High(H), mapLast}))
    BY HashedOK
<1> HIDE DEF key, at, all, ko, hits, counted, best, rest, nd
<1>4. CASE Lookup(H, t) = none
    <2>1. /\ none.keys = keys /\ none.keyMap = keyMap /\ none.mapLast = mapLast /\ none.key = key
          /\ none.out = << >> /\ none.last.created = FALSE
        OBVIOUS
    <2> HIDE DEF none
    <2>2. Looked(H, t, none)
        BY <1>2, <2>1, NoDraft, Zenon DEF key
    <2> QED
        BY <1>4, <2>2, Zenon
<1>5. CASE Lookup(H, t) = hashed
    <2>1. /\ hashed.keys = keys /\ hashed.keyMap = Hashed(H) /\ hashed.mapLast = Max({High(H), mapLast})
          /\ hashed.key = key /\ hashed.out = << >> /\ hashed.last.created = FALSE
        OBVIOUS
    <2> HIDE DEF hashed
    <2>2. Looked(H, t, hashed)
        BY <1>2, <1>3, <2>1, NoDraft, Zenon DEF key
    <2> QED
        BY <1>5, <2>2, Zenon
<1>6. CASE at # 0 /\ Len(H) >= 2 * N + M
    <2>0. H \in Seq(Token) /\ Len(H) \in Nat
        BY DEF MapOK
    <2>1. key \in Seq(Token) /\ Len(key) = N /\ Len(H) >= N
        <3>1. Len(H) >= N
            BY <1>6, <2>0, Sizes
        <3> QED
            BY <2>0, <3>1, KeyAtEnd, Zenon DEF key
    <2>2. IsAt(H, key, at)
        BY <1>6, <2>1, MatchFound, Zenon DEF at, IsAt
    <2>3. Replaces(H, hits, hits)
        BY <2>2, HitOK, Zenon DEF hits
    <2>4. Replaces(H, counted, hits) /\ best \in Live(counted.values)
        BY <2>2, CountingOK, Zenon DEF hits, counted, best
    <2>5. ASSUME NEW k, Replaces(H, k, hits)
          PROVE  Stored(H, [all EXCEPT ![ko] = k], ko, k)
        BY <2>2, <2>5, StoreOK, Zenon DEF hits, all, ko
    <2>6. CASE Lookup(H, t) = onlyHit
        <3> DEFINE ks == [all EXCEPT ![ko] = hits]
        <3>1. Stored(H, ks, ko, hits)
            BY <2>3, <2>5, Zenon
        <3> HIDE DEF ks
        <3>2. onlyHit = [hashed EXCEPT !.keys = ks]
            BY DEF ks
        <3>3. /\ onlyHit.keys = ks /\ onlyHit.keyMap = Hashed(H) /\ onlyHit.mapLast = Max({High(H), mapLast})
              /\ onlyHit.key = key /\ onlyHit.out = << >> /\ onlyHit.last.created = FALSE
            BY <3>2
        <3> HIDE DEF onlyHit
        <3>4. Looked(H, t, onlyHit)
            BY <1>3, <3>1, <3>3, NoDraft, Zenon DEF key, Stored
        <3> QED
            BY <2>6, <3>4, Zenon
    <2>7. CASE Lookup(H, t) = onlyCounted
        <3> DEFINE ks == [all EXCEPT ![ko] = counted]
        <3>1. Stored(H, ks, ko, counted)
            BY <2>4, <2>5, Zenon
        <3> HIDE DEF ks
        <3>2. onlyCounted = [hashed EXCEPT !.keys = ks]
            BY DEF ks
        <3>3. /\ onlyCounted.keys = ks /\ onlyCounted.keyMap = Hashed(H)
              /\ onlyCounted.mapLast = Max({High(H), mapLast})
              /\ onlyCounted.key = key /\ onlyCounted.out = << >> /\ onlyCounted.last.created = FALSE
            BY <3>2
        <3> HIDE DEF onlyCounted
        <3>4. Looked(H, t, onlyCounted)
            BY <1>3, <3>1, <3>3, NoDraft, Zenon DEF key, Stored
        <3> QED
            BY <2>7, <3>4, Zenon
    <2>8. CASE Lookup(H, t) = drafted
        <3> DEFINE ks == [all EXCEPT ![ko] = counted]
                   out == Gram(H, at + N, nd)
        <3>1. Stored(H, ks, ko, counted)
            BY <2>4, <2>5, Zenon
        <3>2. nd \in Nat /\ nd <= M /\ nd <= counted.values[best].accepted
            <4>1. counted.values \in Values /\ best \in 1 .. MaxValues
                BY <2>4, Zenon DEF Replaces, Key, Live
            <4>2. counted.values[best] \in Value
                BY <4>1 DEF Values
            <4>3. PICK x \in 0 .. M : x = counted.values[best].accepted
                BY <4>2 DEF Value
            <4>4. Min({M, x}) = IF M <= x THEN M ELSE x
                BY Sizes DEF Min
            <4>5. nd = IF M <= x THEN M ELSE x
                BY <4>3, <4>4 DEF nd
            <4> QED
                BY <4>3, <4>5, Sizes
        <3>3. out \in Seq(Token) /\ Len(out) = nd /\ \A i \in 1 .. nd : out[i] = H[at + N + i]
            <4>1. PICK n \in Nat : n = nd /\ n <= M
                BY <3>2, Zenon
            <4>2. /\ Gram(H, at + N, n) \in Seq(Token) /\ Len(Gram(H, at + N, n)) = n
                  /\ \A i \in 1 .. n : Gram(H, at + N, n)[i] = H[at + N + i]
                BY ONLY MapOK(H), <2>2, <4>1, ValueDraft, SMT
            <4> QED
                BY <4>1, <4>2, Zenon
        <3> HIDE DEF ks, out
        <3>4. drafted = [hashed EXCEPT !.keys = ks, !.last = [created |-> TRUE, key |-> ko, value |-> best],
                                       !.out = out]
            BY DEF ks, out
        <3>5. /\ drafted.keys = ks /\ drafted.keyMap = Hashed(H) /\ drafted.mapLast = Max({High(H), mapLast})
              /\ drafted.key = key /\ drafted.at = at /\ drafted.out = out
              /\ drafted.last.created = TRUE /\ drafted.last.key = ko /\ drafted.last.value = best
            BY <3>4
        <3> HIDE DEF drafted
        <3>6. DraftOK(H, drafted)
            BY <2>1, <2>2, <3>2, <3>3, <3>5, Zenon DEF DraftOK
        <3>7. LastOK(drafted)
            BY <2>4, <3>1, <3>2, <3>3, <3>5, Zenon DEF LastOK, Stored
        <3>8. Looked(H, t, drafted)
            BY <1>3, <3>1, <3>5, <3>6, <3>7, Zenon DEF Looked, Stored, key
        <3> QED
            BY <2>8, <3>8, Zenon
    <2>9. Lookup(H, t) = onlyHit \/ Lookup(H, t) = onlyCounted \/ Lookup(H, t) = drafted
        <3>1. ~(Len(H) < 2 * N + M)
            BY <1>6, <2>0, Sizes
        <3> QED
            BY <1>1, <1>6, <3>1, Zenon
    <2> QED
        BY <2>6, <2>7, <2>8, <2>9, Zenon
<1>7. Lookup(H, t) = none \/ Lookup(H, t) = hashed \/ (at # 0 /\ Len(H) >= 2 * N + M)
    <2>1. Len(H) < 2 * N + M \/ Len(H) >= 2 * N + M
        BY Sizes DEF MapOK
    <2> QED
        BY <1>1, <2>1, Zenon
<1> QED
    BY <1>4, <1>5, <1>6, <1>7, Zenon

-----------------------------------------------------------------------------
(* The text goes on.                                                       *)

\* G goes on where H ends.
GoesOn(H, G) == Len(H) <= Len(G) /\ \A i \in 1 .. Len(H) : G[i] = H[i]

\* Places in a text are the same in what follows it.
LEMMA SameGoesOn ==
    ASSUME NEW H \in Seq(Token), NEW G \in Seq(Token), GoesOn(H, G), NEW a \in Nat, NEW b \in Nat, NEW n \in Nat,
           a + n <= Len(H), b + n <= Len(H)
    PROVE  Same(G, a, b, n) <=> Same(H, a, b, n)
<1>1. \A i \in 1 .. n : G[a + i] = H[a + i] /\ G[b + i] = H[b + i]
    <2> TAKE i \in 1 .. n
    <2>1. a + i \in 1 .. Len(H) /\ b + i \in 1 .. Len(H)
        OBVIOUS
    <2> QED
        BY <2>1, Zenon DEF GoesOn
<1> QED
    BY <1>1, Zenon DEF Same

\* What reaches its value in a text does so later.
LEMMA ReachesOn ==
    ASSUME NEW H \in Seq(Token), NEW G \in Seq(Token), GoesOn(H, G), NEW j \in Nat, Reaches(H, j)
    PROVE  Reaches(G, j)
BY Sizes DEF GoesOn, Reaches

\* A value in use, with the occurrence before it.
LEMMA LiveOccurs ==
    ASSUME NEW H, NEW at, NEW values \in Values, Following(H, at, values), NEW v \in Live(values)
    PROVE  /\ values[v].idx \in Nat /\ values[v].idx - N \in Nat /\ Reaches(H, values[v].idx - N)
           /\ Same(H, values[v].idx - N, at, N) /\ values[v].num >= 1 /\ values[v].idx >= N
<1>1. v \in 1 .. MaxValues /\ Follows(H, at, values[v])
    BY Zenon DEF Following, Live
<1>2. values[v].idx \in Nat
    BY <1>1 DEF Values, Value
<1> QED
    BY <1>1, <1>2, Sizes DEF Follows

\* The keys are in order in what follows the text.
LEMMA KeysGoOn ==
    ASSUME NEW H \in Seq(Token), NEW G \in Seq(Token), GoesOn(H, G), NEW ks, KeysOK(H, ks)
    PROVE  KeysOK(G, ks)
<1>1. ASSUME NEW i \in DOMAIN ks
      PROVE  /\ ks[i] \in Key /\ ks[i].keyIdx \in Nat /\ ks[i].statIdx \in Nat /\ ks[i].values \in Values
             /\ KeyOK(H, ks[i]) /\ ks[i].keyIdx + N <= Len(H) /\ ks[i].keyIdx + N + M + 1 <= Len(H)
    <2>1. ks[i] \in Key /\ KeyOK(H, ks[i])
        BY DEF KeysOK
    <2> QED
        BY <2>1, Sizes DEF Key, KeyOK, Reaches
<1>2. ASSUME NEW i \in DOMAIN ks
      PROVE  Following(G, ks[i].keyIdx, ks[i].values)
    <2>1. PICK values \in Values, at \in Nat : values = ks[i].values /\ at = ks[i].keyIdx
        BY <1>1, Zenon
    <2>2. Following(H, at, values) /\ at + N <= Len(H) /\ N \in Nat /\ M \in Nat
        BY <1>1, <2>1, Sizes, Zenon DEF KeyOK
    <2>3. ASSUME NEW v \in Live(values)
          PROVE  Follows(G, at, values[v])
        <3>1. PICK idx \in Nat, j \in Nat : idx = values[v].idx /\ j = values[v].idx - N
            BY <2>2, LiveOccurs, Zenon
        <3>2. Reaches(H, j) /\ Same(H, j, at, N) /\ idx >= N /\ values[v].num >= 1
            BY <2>2, <3>1, LiveOccurs, Zenon
        <3>3. j + N <= Len(H)
            BY <3>2, Sizes DEF Reaches
        <3>4. Same(G, j, at, N)
            BY <2>2, <3>2, <3>3, SameGoesOn, Zenon
        <3>5. Reaches(G, j)
            BY <3>2, ReachesOn, Zenon
        <3> QED
            BY <3>1, <3>2, <3>4, <3>5, Zenon DEF Follows
    <2>4. ASSUME NEW v \in Live(values), NEW w \in Live(values), v # w
          PROVE  ~Same(G, values[v].idx, values[w].idx, M)
        <3>1. PICK a \in Nat : a = values[v].idx /\ a + M <= Len(H)
            BY <2>2, LiveInside, Zenon
        <3>2. PICK b \in Nat : b = values[w].idx /\ b + M <= Len(H)
            BY <2>2, LiveInside, Zenon
        <3>3. ~Same(H, a, b, M)
            BY <2>2, <2>4, <3>1, <3>2, Zenon DEF Following
        <3>4. Same(G, a, b, M) <=> Same(H, a, b, M)
            BY <2>2, <3>1, <3>2, SameGoesOn, Zenon
        <3> QED
            BY <3>1, <3>2, <3>3, <3>4, Zenon
    <2>5. Following(G, at, values)
        BY <2>2, <2>3, <2>4, Zenon DEF Following
    <2> QED
        BY <2>1, <2>5, Zenon
<1>3. ASSUME NEW i \in DOMAIN ks
      PROVE  KeyOK(G, ks[i])
    <2>1. Reaches(G, ks[i].keyIdx) /\ (ks[i].statIdx # 0 => Reaches(G, ks[i].statIdx))
        BY <1>1, ReachesOn, Zenon DEF KeyOK
    <2> QED
        BY <1>1, <1>2, <2>1, Zenon DEF KeyOK
<1>4. ASSUME NEW i \in DOMAIN ks, NEW j \in DOMAIN ks, i # j
      PROVE  ~Same(G, ks[i].keyIdx, ks[j].keyIdx, N)
    <2>1. ~Same(H, ks[i].keyIdx, ks[j].keyIdx, N)
        BY <1>4, Zenon DEF KeysOK
    <2>2. N \in Nat
        BY Sizes
    <2>3. PICK a \in Nat, b \in Nat : a = ks[i].keyIdx /\ b = ks[j].keyIdx /\ a + N <= Len(H) /\ b + N <= Len(H)
        BY <1>1, Zenon
    <2>4. Same(G, a, b, N) <=> Same(H, a, b, N)
        BY <2>2, <2>3, SameGoesOn, Zenon
    <2> QED
        BY <2>1, <2>3, <2>4, Zenon
<1> QED
    BY <1>3, <1>4, Zenon DEF KeysOK

\* So are the places by hash.
LEMMA PlacesGoOn ==
    ASSUME NEW H \in Seq(Token), NEW G \in Seq(Token), GoesOn(H, G), NEW km, NEW ml, PlacesOK(H, km, ml)
    PROVE  PlacesOK(G, km, ml)
<1>1. \A b \in Buckets : km[b] \in Nat
    BY DEF PlacesOK
<1> QED
    BY <1>1, ReachesOn, Zenon DEF PlacesOK

-----------------------------------------------------------------------------
(* What is accepted of a draft.                                            *)

\* ks with value v of the i-th key cut to n.
Shortened(ks, i, v, n) == [ks EXCEPT ![i].values[v].accepted = n]

\* A value in use may be shortened.
LEMMA ShortenedOK ==
    ASSUME NEW H, NEW ks, KeysOK(H, ks), NEW i \in DOMAIN ks, NEW v \in Live(ks[i].values), NEW n \in 0 .. M
    PROVE  /\ KeysOK(H, Shortened(ks, i, v, n))
           /\ DOMAIN Shortened(ks, i, v, n) = DOMAIN ks
           /\ \A j \in DOMAIN ks : \A w \in 1 .. MaxValues :
                 Shortened(ks, i, v, n)[j].values[w].accepted =
                    IF j = i /\ w = v THEN n ELSE ks[j].values[w].accepted
<1>1. ks \in Seq(Key) /\ ks[i] \in Key /\ KeyOK(H, ks[i]) /\ i \in 1 .. Len(ks) /\ v \in 1 .. MaxValues
    BY DEF KeysOK, Live
<1>2. PICK values \in Values : values = ks[i].values
    BY <1>1, Zenon DEF Key
<1>3. values[v] \in Value /\ v \in Live(values)
    BY <1>1, <1>2 DEF Values
<1> DEFINE val == [values[v] EXCEPT !.accepted = n]
           vals == [values EXCEPT ![v] = val]
           k == [ks[i] EXCEPT !.values = vals]
           new == [ks EXCEPT ![i] = k]
<1>4. Shortened(ks, i, v, n) = new
    BY <1>2, Zenon DEF Shortened
<1>5. val \in Value /\ val.idx = values[v].idx /\ val.num = values[v].num /\ val.accepted = n
    BY <1>3 DEF Value
<1> HIDE DEF val
<1>6. vals \in Values /\ vals[v] = val /\ \A w \in 1 .. MaxValues : w # v => vals[w] = values[w]
    BY <1>1, <1>5, Zenon DEF Values
<1> HIDE DEF vals
<1>7. /\ k \in Key /\ k.keyIdx = ks[i].keyIdx /\ k.statIdx = ks[i].statIdx /\ k.keyNum = ks[i].keyNum
      /\ k.values = vals
    BY <1>1, <1>6 DEF Key
<1> HIDE DEF k
<1>8. /\ new \in Seq(Key) /\ DOMAIN new = DOMAIN ks
      /\ new[i] = k /\ \A j \in DOMAIN ks : j # i => new[j] = ks[j]
    <2>1. new \in Seq(Key) /\ Len(new) = Len(ks) /\ \A j \in 1 .. Len(ks) : new[j] = IF j = i THEN k ELSE ks[j]
        BY <1>1, <1>7, ExceptSeq
    <2> HIDE DEF new
    <2> QED
        BY <1>1, <2>1
<1> HIDE DEF new
<1>9. \A w \in 1 .. MaxValues : /\ vals[w].idx = values[w].idx /\ vals[w].num = values[w].num
                                /\ w # v => vals[w].accepted = values[w].accepted
    BY <1>5, <1>6, Zenon
<1>10. Live(vals) = Live(values) /\ \A w \in Live(values) : w \in 1 .. MaxValues
    BY <1>9, Zenon DEF Live
<1>11. Following(H, k.keyIdx, vals)
    <2>1. Following(H, k.keyIdx, values)
        BY <1>1, <1>2, <1>7, Zenon DEF KeyOK
    <2>2. \A w \in Live(vals) : Follows(H, k.keyIdx, vals[w])
        <3> SUFFICES ASSUME NEW w \in Live(values)
                     PROVE  Follows(H, k.keyIdx, vals[w])
            BY <1>10, Zenon
        <3>1. Follows(H, k.keyIdx, values[w]) /\ w \in 1 .. MaxValues
            BY <1>10, <2>1, Zenon DEF Following
        <3>2. vals[w].idx = values[w].idx /\ vals[w].num = values[w].num
            BY <1>9, <3>1, Zenon
        <3> QED
            BY <3>1, <3>2, Zenon DEF Follows
    <2>3. \A w \in (1 .. MaxValues) \ Live(vals) : vals[w].num = 0 /\ vals[w].accepted = M
        BY <1>3, <1>9, <1>10, <2>1, Zenon DEF Following
    <2>4. \A w \in Live(vals) : 1 .. w \subseteq Live(vals)
        BY <1>10, <2>1, Zenon DEF Following
    <2>5. \A w, u \in Live(vals) : w # u => ~Same(H, vals[w].idx, vals[u].idx, M)
        BY <1>9, <1>10, <2>1, Zenon DEF Following
    <2> QED
        BY <2>2, <2>3, <2>4, <2>5, Zenon DEF Following
<1>12. KeyOK(H, k)
    BY <1>1, <1>2, <1>7, <1>10, <1>11, Zenon DEF KeyOK
<1>13. \A j \in DOMAIN ks : new[j].keyIdx = ks[j].keyIdx /\ KeyOK(H, new[j])
    BY <1>7, <1>8, <1>12, Zenon DEF KeysOK
<1>14. KeysOK(H, new)
    BY <1>8, <1>13, Zenon DEF KeysOK
<1>15. \A j \in DOMAIN ks : \A w \in 1 .. MaxValues :
          new[j].values[w].accepted = IF j = i /\ w = v THEN n ELSE ks[j].values[w].accepted
    BY <1>2, <1>5, <1>6, <1>7, <1>8, <1>9, ZenonT(60)
<1> QED
    BY <1>4, <1>8, <1>14, <1>15, Zenon

\* No value of ks is longer than it was.
NotLonger(ks) ==
    \A i \in DOMAIN keys : \A v \in 1 .. MaxValues : ks[i].values[v].accepted <= keys[i].values[v].accepted

\* Keys that are kept are no longer.
LEMMA KeptNotLonger ==
    ASSUME NEW H, KeysOK(H, keys), NEW ks, Kept(keys, ks)
    PROVE  NotLonger(ks)
<1> SUFFICES ASSUME NEW i \in DOMAIN keys, NEW w \in 1 .. MaxValues
             PROVE  ks[i].values[w].accepted <= keys[i].values[w].accepted
    BY Zenon DEF NotLonger
<1>1. PICK values \in Values : values = keys[i].values
    <2>1. keys[i] \in Key
        BY DEF KeysOK
    <2> QED
        BY <2>1, Zenon DEF Key
<1>2. values[w] \in Value
    BY <1>1 DEF Values
<1>3. PICK old \in Nat : old = values[w].accepted
    BY <1>2 DEF Value
<1>4. ks[i].values[w].accepted = old /\ keys[i].values[w].accepted = old
    BY <1>1, <1>3, Zenon DEF Kept
<1>5. old <= old
    OBVIOUS
<1> QED
    BY <1>4, <1>5, Zenon

\* What is accepted of a draft keeps the keys in order, and makes no value longer.
LEMMA AcceptedOK ==
    ASSUME NEW H, NEW t, NEW map, Looked(H, t, map), KeysOK(H, keys), NEW n \in Nat, n <= Len(map.out)
    PROVE  KeysOK(H, Accepted(map, n)) /\ NotLonger(Accepted(map, n)) /\ DOMAIN Accepted(map, n) = DOMAIN map.keys
<1>1. KeysOK(H, map.keys) /\ Kept(keys, map.keys)
    BY DEF Looked
<1>2. ASSUME NEW i \in DOMAIN keys, NEW v \in 1 .. MaxValues
      PROVE  /\ keys[i].values[v].accepted \in Nat /\ i \in DOMAIN map.keys
             /\ map.keys[i].values[v].accepted = keys[i].values[v].accepted
    <2>1. keys[i] \in Key
        BY DEF KeysOK
    <2>2. keys[i].values \in Values
        BY <2>1, Zenon DEF Key
    <2>3. keys[i].values[v] \in Value
        BY <2>2 DEF Values
    <2>4. keys[i].values[v].accepted \in Nat
        BY <2>3 DEF Value
    <2> QED
        BY <1>1, <2>4, Zenon DEF Kept
<1>3. CASE map.last.created
    <2>1. PICK k, v : k = map.last.key /\ v = map.last.value
        BY Zenon
    <2>2. /\ k \in DOMAIN map.keys /\ v \in Live(map.keys[k].values)
          /\ Len(map.out) <= map.keys[k].values[v].accepted
        BY <1>3, <2>1, Zenon DEF Looked, LastOK
    <2>3. n \in 0 .. M
        BY Sizes DEF Looked, DraftOK
    <2>0. PICK ks : ks = map.keys
        BY Zenon
    <2> DEFINE new == Shortened(ks, k, v, n)
    <2>4. Accepted(map, n) = new
        BY <1>3, <2>0, <2>1, Zenon DEF Accepted, Shortened
    <2>5. /\ KeysOK(H, new) /\ DOMAIN new = DOMAIN map.keys
          /\ \A j \in DOMAIN map.keys : \A w \in 1 .. MaxValues :
                new[j].values[w].accepted = IF j = k /\ w = v THEN n ELSE map.keys[j].values[w].accepted
        <3>1. KeysOK(H, ks) /\ k \in DOMAIN ks /\ v \in Live(ks[k].values)
            BY <1>1, <2>0, <2>2, Zenon
        <3>2. /\ KeysOK(H, new) /\ DOMAIN new = DOMAIN ks
              /\ \A j \in DOMAIN ks : \A w \in 1 .. MaxValues :
                    new[j].values[w].accepted = IF j = k /\ w = v THEN n ELSE ks[j].values[w].accepted
            BY ONLY <2>3, <3>1, ShortenedOK, SMTT(30)
        <3> QED
            BY <2>0, <3>2, Zenon
    <2> HIDE DEF new
    <2>6. NotLonger(new)
        <3> SUFFICES ASSUME NEW i \in DOMAIN keys, NEW w \in 1 .. MaxValues
                     PROVE  new[i].values[w].accepted <= keys[i].values[w].accepted
            BY Zenon DEF NotLonger
        <3>1. PICK old \in Nat : old = keys[i].values[w].accepted /\ map.keys[i].values[w].accepted = old
            BY <1>2, Zenon
        <3>2. new[i].values[w].accepted = IF i = k /\ w = v THEN n ELSE old
            BY <1>2, <2>5, <3>1, Zenon
        <3>3. i = k /\ w = v => Len(map.out) <= old
            BY <2>2, <3>1, Zenon
        <3>4. Len(map.out) \in Nat
            BY DEF Looked, DraftOK
        <3>5. (IF i = k /\ w = v THEN n ELSE old) <= old
            BY <3>3, <3>4
        <3> QED
            BY <3>1, <3>2, <3>5, Zenon
    <2> QED
        BY <2>4, <2>5, <2>6, Zenon
<1>4. CASE ~map.last.created
    <2>1. Accepted(map, n) = map.keys
        BY <1>4, Zenon DEF Accepted
    <2>2. NotLonger(map.keys)
        BY <1>1, KeptNotLonger, Zenon
    <2> QED
        BY <1>1, <2>1, <2>2, Zenon
<1> QED
    BY <1>3, <1>4

-----------------------------------------------------------------------------
(* The text as a sequence.                                                 *)

\* The first n elements.
Begin(s, n) == SubSeq(s, 1, n)

\* What they are.
LEMMA BeginOf ==
    ASSUME NEW S, NEW s \in Seq(S), NEW n \in Nat, n <= Len(s)
    PROVE  Begin(s, n) \in Seq(S) /\ Len(Begin(s, n)) = n /\ \A i \in 1 .. n : Begin(s, n)[i] = s[i]
<1>1. 0 \in Nat /\ 0 + n <= Len(s) /\ 0 + 1 = 1 /\ 0 + n = n
    OBVIOUS
<1>2. /\ SubSeq(s, 0 + 1, 0 + n) \in Seq(S) /\ Len(SubSeq(s, 0 + 1, 0 + n)) = n
      /\ \A i \in 1 .. n : SubSeq(s, 0 + 1, 0 + n)[i] = s[0 + i]
    BY ONLY <1>1, n \in Nat, s \in Seq(S), Section, SMT
<1>3. \A i \in 1 .. n : 0 + i = i
    OBVIOUS
<1> QED
    BY <1>1, <1>2, <1>3, Zenon DEF Begin

\* The front of a text does not depend on what is behind it.
LEMMA BeginOfLonger ==
    ASSUME NEW S, NEW s \in Seq(S), NEW u \in Seq(S), NEW n \in Nat, n <= Len(s)
    PROVE  Begin(s \o u, n) = Begin(s, n)
<1>1. PICK w \in Seq(S) : w = s \o u /\ n <= Len(w) /\ \A i \in 1 .. n : w[i] = s[i]
    <2>1. s \o u \in Seq(S) /\ n <= Len(s \o u) /\ \A i \in 1 .. n : (s \o u)[i] = s[i]
        OBVIOUS
    <2> QED
        BY <2>1, Zenon
<1>2. PICK x \in Seq(S) : x = Begin(w, n) /\ Len(x) = n /\ \A i \in 1 .. n : x[i] = w[i]
    <2>1. Begin(w, n) \in Seq(S) /\ Len(Begin(w, n)) = n /\ \A i \in 1 .. n : Begin(w, n)[i] = w[i]
        BY <1>1, BeginOf, Zenon
    <2> QED
        BY <2>1, Zenon
<1>3. PICK y \in Seq(S) : y = Begin(s, n) /\ Len(y) = n /\ \A i \in 1 .. n : y[i] = s[i]
    <2>1. Begin(s, n) \in Seq(S) /\ Len(Begin(s, n)) = n /\ \A i \in 1 .. n : Begin(s, n)[i] = s[i]
        BY BeginOf, Zenon
    <2> QED
        BY <2>1, Zenon
<1>4. x = y
    <2>1. Len(x) = Len(y) /\ \A i \in 1 .. Len(x) : x[i] = y[i]
        BY <1>1, <1>2, <1>3
    <2> QED
        BY <2>1, SeqEqual, Zenon
<1> QED
    BY <1>1, <1>2, <1>3, <1>4, Zenon

\* The front of the front.
LEMMA BeginOfBegin ==
    ASSUME NEW S, NEW s \in Seq(S), NEW m \in Nat, m <= Len(s), NEW n \in Nat, n <= m
    PROVE  Begin(Begin(s, m), n) = Begin(s, n)
<1>0. n <= Len(s)
    OBVIOUS
<1>1. PICK w \in Seq(S) : w = Begin(s, m) /\ Len(w) = m /\ \A i \in 1 .. m : w[i] = s[i]
    <2>1. Begin(s, m) \in Seq(S) /\ Len(Begin(s, m)) = m /\ \A i \in 1 .. m : Begin(s, m)[i] = s[i]
        BY BeginOf, Zenon
    <2> QED
        BY <2>1, Zenon
<1>2. PICK x \in Seq(S) : x = Begin(w, n) /\ Len(x) = n /\ \A i \in 1 .. n : x[i] = w[i]
    <2>1. Begin(w, n) \in Seq(S) /\ Len(Begin(w, n)) = n /\ \A i \in 1 .. n : Begin(w, n)[i] = w[i]
        BY <1>1, BeginOf, Zenon
    <2> QED
        BY <2>1, Zenon
<1>3. PICK y \in Seq(S) : y = Begin(s, n) /\ Len(y) = n /\ \A i \in 1 .. n : y[i] = s[i]
    <2>1. Begin(s, n) \in Seq(S) /\ Len(Begin(s, n)) = n /\ \A i \in 1 .. n : Begin(s, n)[i] = s[i]
        BY <1>0, BeginOf, Zenon
    <2> QED
        BY <2>1, Zenon
<1>4. x = y
    <2>1. Len(x) = Len(y) /\ \A i \in 1 .. Len(x) : x[i] = y[i]
        BY <1>1, <1>2, <1>3
    <2> QED
        BY <2>1, SeqEqual, Zenon
<1> QED
    BY <1>1, <1>2, <1>3, <1>4, Zenon

\* A text and the front of what is behind it.
LEMMA BeginOfBoth ==
    ASSUME NEW S, NEW s \in Seq(S), NEW d \in Seq(S), NEW k \in Nat, k <= Len(d)
    PROVE  Begin(s \o d, Len(s) + k) = s \o Begin(d, k)
<1>1. PICK w \in Seq(S), n \in Nat : w = s \o d /\ n = Len(s) + k /\ n <= Len(w)
    <2>1. s \o d \in Seq(S) /\ Len(s) + k \in Nat /\ Len(s) + k <= Len(s \o d)
        OBVIOUS
    <2> QED
        BY <2>1, Zenon
<1>2. PICK x \in Seq(S) : x = Begin(w, n) /\ Len(x) = n /\ \A i \in 1 .. n : x[i] = w[i]
    <2>1. Begin(w, n) \in Seq(S) /\ Len(Begin(w, n)) = n /\ \A i \in 1 .. n : Begin(w, n)[i] = w[i]
        BY <1>1, BeginOf, Zenon
    <2> QED
        BY <2>1, Zenon
<1>3. PICK f \in Seq(S) : f = Begin(d, k) /\ Len(f) = k /\ \A i \in 1 .. k : f[i] = d[i]
    <2>1. Begin(d, k) \in Seq(S) /\ Len(Begin(d, k)) = k /\ \A i \in 1 .. k : Begin(d, k)[i] = d[i]
        BY BeginOf, Zenon
    <2> QED
        BY <2>1, Zenon
<1>4. PICK y \in Seq(S) : y = s \o f /\ Len(y) = n
    <2>0. n = Len(s) + k /\ Len(f) = k
        BY <1>1, <1>3, Zenon
    <2>1. s \o f \in Seq(S) /\ Len(s \o f) = n
        BY <2>0
    <2> QED
        BY <2>1, Zenon
<1>5. ASSUME NEW i \in 1 .. n
      PROVE  x[i] = y[i]
    <2>1. CASE i <= Len(s)
        BY <1>1, <1>2, <1>4, <2>1
    <2>2. CASE i > Len(s)
        <3>0. n = Len(s) + k
            BY <1>1, Zenon
        <3>1. PICK j \in 1 .. k : j = i - Len(s)
            <4>1. i - Len(s) \in 1 .. k
                BY <2>2, <3>0
            <4> QED
                BY <4>1, Zenon
        <3>2. w[i] = d[j]
            BY <1>1, <2>2, <3>1
        <3>3. y[i] = f[j]
            BY <1>3, <1>4, <1>1, <2>2, <3>1
        <3> QED
            BY <1>2, <1>3, <3>2, <3>3
    <2> QED
        BY <1>1, <2>1, <2>2
<1>6. x = y
    BY <1>2, <1>4, <1>5, SeqEqual
<1> QED
    BY <1>1, <1>2, <1>3, <1>4, <1>6, Zenon

\* Three texts in a row.
LEMMA InARow ==
    ASSUME NEW x \in Seq(Token), NEW y \in Seq(Token), NEW z \in Seq(Token)
    PROVE  (x \o y) \o z = x \o (y \o z)
BY ConcatAssociative

\* One token more.
LEMMA OneMore ==
    ASSUME NEW x \in Seq(Token), NEW b \in Token
    PROVE  /\ x \o <<b>> = Append(x, b) /\ x \o <<b>> \in Seq(Token) /\ Len(x \o <<b>>) = Len(x) + 1
           /\ \A i \in 1 .. Len(x) : (x \o <<b>>)[i] = x[i]
           /\ (x \o <<b>>)[Len(x) + 1] = b
OBVIOUS

\* d is n tokens the target agrees with behind text, and last the one it goes on with.
Greedily(text, d, last0) ==
    /\ \A i \in 1 .. Len(d) : d[i] = Greedy(target, text \o Begin(d, i - 1))
    /\ last0 = Greedy(target, text \o d)

\* Tokens the target agrees with go on with the greedy text.
LEMMA SpecGoesOn ==
    ASSUME SpecExact, prompt \in Seq(Token), spec \in Seq(Token), history \in Seq(Token), idLast \in Token,
           NEW d \in Seq(Token), NEW b \in Token, Greedily(Append(history, idLast), d, b)
    PROVE  /\ prompt \o (spec \o d \o <<b>>) = Append(Append(history, idLast) \o d, b)
           /\ \A i \in DOMAIN (spec \o d \o <<b>>) :
                 (spec \o d \o <<b>>)[i] = Greedy(target, prompt \o Begin(spec \o d \o <<b>>, i - 1))
<1> DEFINE one == <<b>>
<1>0. one \in Seq(Token) /\ Len(one) = 1 /\ one[1] = b
    OBVIOUS
<1>1. PICK text \in Seq(Token) : text = Append(history, idLast) /\ text = prompt \o spec
    <2>1. Append(history, idLast) \in Seq(Token)
        OBVIOUS
    <2> QED
        BY <2>1, Zenon DEF SpecExact
<1>2. PICK both \in Seq(Token) : both = spec \o d /\ Len(both) = Len(spec) + Len(d)
    <2>1. spec \o d \in Seq(Token) /\ Len(spec \o d) = Len(spec) + Len(d)
        OBVIOUS
    <2> QED
        BY <2>1, Zenon
<1>3. prompt \o both = text \o d
    <2>1. (prompt \o spec) \o d = prompt \o (spec \o d)
        BY ONLY prompt \in Seq(Token), spec \in Seq(Token), d \in Seq(Token), InARow, ZenonT(30)
    <2> QED
        BY <1>1, <1>2, <2>1, Zenon
<1> HIDE DEF one
<1>4. prompt \o (both \o one) = (text \o d) \o one
    <2>1. PICK y \in Seq(Token) : y = one
        BY <1>0, Zenon
    <2>2. (prompt \o both) \o y = prompt \o (both \o y)
        BY ONLY both \in Seq(Token), y \in Seq(Token), prompt \in Seq(Token), InARow, Zenon
    <2> QED
        BY <1>3, <2>1, <2>2, Zenon
<1>5. (text \o d) \o one = Append(text \o d, b)
    <2>1. PICK x \in Seq(Token) : x = text \o d
        <3>1. text \o d \in Seq(Token)
            OBVIOUS
        <3> QED
            BY <3>1, Zenon
    <2>2. x \o <<b>> = Append(x, b)
        OBVIOUS
    <2> QED
        BY <2>1, <2>2, Zenon DEF one
<1>6. PICK all \in Seq(Token), m \in Nat, n \in Nat :
          all = both \o one /\ m = Len(spec) /\ n = Len(d) /\ Len(all) = m + n + 1
    <2>1. both \o one \in Seq(Token) /\ Len(spec) \in Nat /\ Len(d) \in Nat
          /\ Len(both \o one) = Len(spec) + Len(d) + 1
        <3>1. both \o one \in Seq(Token) /\ Len(both \o one) = Len(both) + 1
            BY <1>2, OneMore, Zenon DEF one
        <3>2. Len(both \o one) = Len(spec) + Len(d) + 1
            BY <1>2, <3>1, Zenon
        <3>3. Len(spec) \in Nat /\ Len(d) \in Nat
            OBVIOUS
        <3> QED
            BY <3>1, <3>2, <3>3, Zenon
    <2> QED
        BY <2>1, Zenon
<1>7. /\ \A i \in 1 .. m + n : all[i] = both[i]
      /\ all[m + n + 1] = b
    BY <1>0, <1>2, <1>6
<1>8. /\ \A i \in 1 .. m : both[i] = spec[i]
      /\ \A k \in 1 .. n : both[m + k] = d[k]
    BY <1>2, <1>6, Behind
<1>9. \A k \in Nat : k <= m => Begin(all, k) = Begin(spec, k)
    <2> TAKE k \in Nat
    <2> HAVE k <= m
    <2>1. k <= Len(both) /\ k <= Len(spec)
        BY <1>2, <1>6
    <2>2. Begin(all, k) = Begin(both, k)
        BY <1>0, <1>6, <2>1, BeginOfLonger, Zenon
    <2>3. Begin(both, k) = Begin(spec, k)
        BY <1>2, <2>1, BeginOfLonger, Zenon
    <2> QED
        BY <2>2, <2>3
<1>10. \A k \in Nat : k <= n => Begin(all, m + k) = spec \o Begin(d, k)
    <2> TAKE k \in Nat
    <2> HAVE k <= n
    <2>1. m + k <= Len(both) /\ m + k \in Nat /\ k <= Len(d)
        BY <1>2, <1>6
    <2>2. Begin(all, m + k) = Begin(both, m + k)
        BY <1>0, <1>6, <2>1, BeginOfLonger, Zenon
    <2>3. Begin(both, m + k) = spec \o Begin(d, k)
        BY <1>2, <1>6, <2>1, BeginOfBoth, ZenonT(30)
    <2> QED
        BY <2>2, <2>3, Zenon
<1>11. \A k \in Nat : k <= n => prompt \o Begin(all, m + k) = text \o Begin(d, k)
    <2> TAKE k \in Nat
    <2> HAVE k <= n
    <2>1. Begin(d, k) \in Seq(Token)
        BY <1>6, BeginOf, Zenon
    <2>2. PICK y \in Seq(Token) : y = Begin(d, k)
        BY <2>1, Zenon
    <2>3. (prompt \o spec) \o y = prompt \o (spec \o y)
        BY ONLY spec \in Seq(Token), y \in Seq(Token), prompt \in Seq(Token), InARow, ZenonT(30)
    <2> QED
        BY <1>1, <1>10, <2>2, <2>3, Zenon
<1>12. ASSUME NEW i \in 1 .. m + n + 1
       PROVE  all[i] = Greedy(target, prompt \o Begin(all, i - 1))
    <2>1. CASE i <= m
        <3>1. i \in DOMAIN spec /\ i - 1 \in Nat /\ i - 1 <= m /\ i \in 1 .. m /\ i \in 1 .. m + n
            BY <1>6, <2>1
        <3>2. spec[i] = Greedy(target, prompt \o Begin(spec, i - 1))
            BY <3>1, Zenon DEF SpecExact, Begin
        <3> QED
            BY <1>7, <1>8, <1>9, <3>1, <3>2, Zenon
    <2>2. CASE i > m /\ i <= m + n
        <3>1. PICK k \in 1 .. n : i = m + k /\ k - 1 \in Nat /\ k - 1 <= n /\ i - 1 = m + (k - 1) /\ i \in 1 .. m + n
            <4>1. i - m \in 1 .. n
                BY <2>2
            <4>2. /\ i = m + (i - m) /\ (i - m) - 1 \in Nat /\ (i - m) - 1 <= n
                  /\ i - 1 = m + ((i - m) - 1) /\ i \in 1 .. m + n
                BY <2>2
            <4> QED
                BY <4>1, <4>2, Zenon
        <3>2. d[k] = Greedy(target, text \o Begin(d, k - 1))
            BY <1>1, <1>6, Zenon DEF Greedily
        <3>3. all[i] = d[k]
            BY <1>7, <1>8, <3>1, Zenon
        <3> QED
            BY <1>11, <3>1, <3>2, <3>3, Zenon
    <2>3. CASE i = m + n + 1
        <3>1. i - 1 = m + n /\ n <= n
            BY <2>3
        <3>2. Begin(d, n) = d
            BY <1>6, SubSeqFull, Zenon DEF Begin
        <3>3. b = Greedy(target, text \o d)
            BY <1>1, Zenon DEF Greedily
        <3> QED
            BY <1>7, <1>11, <2>3, <3>1, <3>2, <3>3, Zenon
    <2> QED
        BY <2>1, <2>2, <2>3
<1>13. DOMAIN all = 1 .. m + n + 1
    BY <1>6
<1>14. spec \o d \o <<b>> = all
    BY <1>2, <1>6, Zenon DEF one
<1> QED
    BY <1>1, <1>2, <1>4, <1>5, <1>6, <1>12, <1>13, <1>14, Zenon

\* What the target agrees with of a draft is a front of it that is greedy.
LEMMA AgreedTokens ==
    ASSUME NEW drafts \in Seq(Token)
    PROVE  /\ Agreed(drafts) \in Nat /\ Agreed(drafts) <= Len(drafts)
           /\ \A i \in 1 .. Agreed(drafts) :
                 drafts[i] = Greedy(target, Text \o Begin(drafts, i - 1))
<1> DEFINE S == {n \in 0 .. Len(drafts) :
                   \A i \in 1 .. n : Greedy(target, Text \o SubSeq(drafts, 1, i - 1)) = drafts[i]}
<1>1. Len(drafts) \in Nat
    OBVIOUS
<1>2. S \subseteq 0 .. Len(drafts)
    OBVIOUS
<1>3. 0 \in S
    <2>1. 0 \in 0 .. Len(drafts) /\ \A i \in 1 .. 0 : FALSE
        BY <1>1
    <2> QED
        BY <2>1, Zenon
<1>4. Max(S) \in S
    BY <1>1, <1>2, <1>3, MaxIn, Zenon
<1>5. Agreed(drafts) = Max(S)
    BY Zenon DEF Agreed
<1>6. /\ Agreed(drafts) \in 0 .. Len(drafts)
      /\ \A i \in 1 .. Agreed(drafts) :
            Greedy(target, Text \o SubSeq(drafts, 1, i - 1)) = drafts[i]
    BY <1>4, <1>5, Zenon
<1>7. \A n \in 0 .. Len(drafts) : n \in Nat /\ n <= Len(drafts)
    BY <1>1
<1> QED
    BY <1>6, <1>7, Zenon DEF Begin

-----------------------------------------------------------------------------
(* The invariant.                                                          *)

\* A text with these tokens at a has them as its n-gram.
LEMMA GramIs ==
    ASSUME NEW G \in Seq(Token), NEW a \in Nat, NEW w \in Seq(Token), a + Len(w) <= Len(G),
           \A i \in 1 .. Len(w) : G[a + i] = w[i]
    PROVE  Gram(G, a, Len(w)) = w
<1>1. PICK n \in Nat : n = Len(w) /\ a + n <= Len(G)
    <2>1. Len(w) \in Nat
        OBVIOUS
    <2> QED
        BY <2>1, Zenon
<1>2. /\ Gram(G, a, n) \in Seq(Token) /\ Len(Gram(G, a, n)) = n
      /\ \A i \in 1 .. n : Gram(G, a, n)[i] = G[a + i]
    <2>1. n \in Nat /\ a + n <= Len(G)
        BY <1>1, Zenon
    <2> QED
        BY ONLY G \in Seq(Token), a \in Nat, <2>1, Section, Zenon DEF Gram
<1>3. Len(Gram(G, a, n)) = Len(w) /\ \A i \in 1 .. Len(Gram(G, a, n)) : Gram(G, a, n)[i] = w[i]
    BY <1>1, <1>2, Zenon
<1>4. Gram(G, a, n) = w
    BY <1>2, <1>3, SeqEqual, Zenon
<1> QED
    BY <1>1, <1>4

\* out stands in G behind an occurrence of key at at, and key once more behind it.
StandsIn(G, at, out, key) ==
    /\ Gram(G, at, N) = key
    /\ Gram(G, at + N, Len(out)) = out
    /\ \E end \in at + N + Len(out) + 1 .. Len(G) : Gram(G, end - N, N) = key

\* A draft stands in whatever follows the text it was drafted for, and so does its
\* key, once where it was found and once at the end of that text.
LEMMA DraftStands ==
    ASSUME NEW H \in Seq(Token), NEW t \in Token, NEW map, DraftOK(H, map), map.key = KeyOf(H, t),
           NEW G \in Seq(Token), GoesOn(Append(H, t), G), map.out # << >>
    PROVE  StandsIn(G, map.at, map.out, map.key)
<1>1. IsAt(H, map.key, map.at) /\ Len(H) >= N
    BY DEF DraftOK
<1>2. PICK key \in Seq(Token) : key = map.key /\ Len(key) = N
    BY <1>1, Zenon DEF IsAt
<1>3. PICK at \in Nat : at = map.at /\ MatchAt(H, at, key) /\ at + N + M + 1 <= Len(H)
    BY <1>1, <1>2, Zenon DEF IsAt, Reaches
<1>4. PICK out \in Seq(Token) : out = map.out /\ Len(out) <= M /\ \A i \in 1 .. Len(out) : out[i] = H[at + N + i]
    BY <1>3, Zenon DEF DraftOK
<1>5. PICK len \in Nat : len = Len(H) /\ len >= N /\ len + 1 <= Len(G) /\ \A i \in 1 .. len : G[i] = H[i]
    <2>1. Len(H) \in Nat /\ Len(Append(H, t)) = Len(H) + 1 /\ \A i \in 1 .. Len(H) : Append(H, t)[i] = H[i]
        OBVIOUS
    <2>2. \A i \in 1 .. Len(H) : i \in 1 .. Len(Append(H, t))
        BY <2>1
    <2>3. Len(H) + 1 <= Len(G) /\ \A i \in 1 .. Len(H) : G[i] = H[i]
        BY <2>1, <2>2, Zenon DEF GoesOn
    <2> QED
        BY <1>1, <2>1, <2>3, Zenon
<1>6. N \in Nat /\ M \in Nat /\ Len(G) \in Nat /\ Len(out) \in Nat
    BY Sizes, <1>4
<1>7. PICK lo \in Nat, lg \in Nat : /\ lo = Len(out) /\ lo <= M /\ lg = Len(G) /\ len + 1 <= lg
                                    /\ at + N + M + 1 <= len
    BY <1>3, <1>4, <1>5, <1>6, Zenon
<1>8. lo <= M /\ len + 1 <= lg /\ at + N + M + 1 <= len /\ N \in Nat /\ M \in Nat
    BY <1>7, <1>6, Zenon
<1>9. Gram(G, at, N) = key
    <2>1. at + Len(key) <= Len(G)
        BY <1>2, <1>3, <1>5, <1>6, SMTT(30)
    <2>2. \A i \in 1 .. Len(key) : G[at + i] = key[i]
        <3> TAKE i \in 1 .. Len(key)
        <3>1. at + i \in 1 .. len
            BY <1>2, <1>3, <1>5, <1>6, SMTT(30)
        <3> QED
            BY <1>3, <1>5, <3>1, Zenon DEF MatchAt
    <2> QED
        BY <1>2, <2>1, <2>2, GramIs, Zenon
<1>10. Gram(G, at + N, Len(out)) = out
    <2>0. at + N \in Nat /\ at + N + lo <= lg /\ \A i \in 1 .. lo : at + N + i \in 1 .. len
        BY ONLY <1>8, at \in Nat, lo \in Nat, lg \in Nat, len \in Nat, SMT
    <2>1. at + N \in Nat /\ at + N + Len(out) <= Len(G)
        BY <1>7, <2>0, Zenon
    <2>2. \A i \in 1 .. Len(out) : G[at + N + i] = out[i]
        BY <1>7, <1>4, <1>5, <2>0, Zenon
    <2> QED
        BY <2>1, <2>2, GramIs, Zenon
<1>11. Gram(G, (len + 1) - N, N) = key
    <2>1. PICK a \in Nat : a = len + 1 - N /\ a + N <= Len(G) /\ a + N = len + 1
        <3>1. len + 1 - N \in Nat /\ (len + 1 - N) + N <= Len(G) /\ (len + 1 - N) + N = len + 1
            BY <1>5, <1>6
        <3> QED
            BY <3>1, Zenon
    <2>2. MatchAt(Append(H, t), a, key)
        BY <1>1, <1>2, <1>5, <2>1, KeyAtEnd, Zenon
    <2>3. \A i \in 1 .. Len(key) : G[a + i] = key[i]
        <3> TAKE i \in 1 .. Len(key)
        <3>1. Len(Append(H, t)) = len + 1
            BY <1>5
        <3>2. a + i \in 1 .. len + 1
            BY <1>2, <1>6, <2>1
        <3> QED
            BY <2>2, <3>1, <3>2, Zenon DEF GoesOn, MatchAt
    <2>4. a + Len(key) <= Len(G)
        BY <1>2, <2>1, Zenon
    <2>5. Gram(G, a, Len(key)) = key
        BY <2>3, <2>4, GramIs, Zenon
    <2>6. Gram(G, a, N) = key
        BY <1>2, <2>5, Zenon
    <2>7. a = (len + 1) - N
        BY <1>6, <2>1
    <2> QED
        BY <2>6, <2>7, Zenon
<1>12. len + 1 \in at + N + Len(out) + 1 .. Len(G)
    <2>1. len + 1 \in at + N + lo + 1 .. lg
        BY ONLY <1>8, at \in Nat, lo \in Nat, lg \in Nat, len \in Nat, SMT
    <2> QED
        BY <1>7, <2>1, Zenon
<1> QED
    BY <1>2, <1>3, <1>4, <1>9, <1>10, <1>11, <1>12, Zenon DEF StandsIn

\* The text the target has seen, and a map that keeps what is true of it.
Inv ==
    /\ target \in Targets /\ prompt \in Prompts /\ spec \in Seq(Token) /\ idLast \in Token
    /\ MapOK(history)
    /\ SpecExact /\ DraftRepeats
    /\ last.created => last.key \in DOMAIN keys /\ last.value \in 1 .. MaxValues

\* The target goes on with a token.
LEMMA NextToken ==
    ASSUME GreedyTyped, Inv, NEW d \in Seq(Token)
    PROVE  Greedy(target, Append(history, idLast) \o d) \in Token
<1>1. PICK both \in Seq(Token) : both = spec \o d
    <2>1. spec \o d \in Seq(Token)
        BY DEF Inv
    <2> QED
        BY <2>1, Zenon
<1>2. prompt \in Seq(Token) /\ spec \in Seq(Token)
    BY Zenon DEF Inv, MapOK
<1>3. (prompt \o spec) \o d = prompt \o (spec \o d)
    BY <1>2, InARow, Zenon
<1>4. Append(history, idLast) \o d = prompt \o both
    BY <1>1, <1>3, Zenon DEF Inv, SpecExact
<1> QED
    BY <1>1, <1>4, Zenon DEF GreedyTyped, Inv

\* A pass goes on from the history.
LEMMA TextIs ==
    ASSUME Inv
    PROVE  Text = Append(history, idLast)
<1>1. engine = history /\ pos = Len(history) /\ history \in Seq(Token)
    BY Zenon DEF Inv, SpecExact, MapOK
<1>2. SubSeq(history, 1, Len(history)) = history
    BY <1>1
<1> QED
    BY <1>1, <1>2, Zenon DEF Text

\* The engine accepts what the history gets.
LEMMA EngineIs ==
    ASSUME history \in Seq(Token), idLast \in Token, NEW drafts \in Seq(Token), NEW mm \in Nat, mm <= Len(drafts)
    PROVE  /\ history \o SubSeq(<<idLast>> \o drafts, 1, mm + 1) = Append(history, idLast) \o SubSeq(drafts, 1, mm)
           /\ Len(Append(history, idLast) \o SubSeq(drafts, 1, mm)) = Len(history) + mm + 1
<1>0. PICK E \in Seq(Token), t \in Token : E = history /\ t = idLast
    BY Zenon
<1>1. PICK rows \in Seq(Token) : /\ rows = <<t>> \o drafts /\ Len(rows) = Len(drafts) + 1 /\ rows[1] = t
                                 /\ \A i \in 1 .. mm : rows[i + 1] = drafts[i]
    <2>1. /\ <<t>> \o drafts \in Seq(Token) /\ Len(<<t>> \o drafts) = Len(drafts) + 1 /\ (<<t>> \o drafts)[1] = t
          /\ \A i \in 1 .. mm : (<<t>> \o drafts)[i + 1] = drafts[i]
        OBVIOUS
    <2> QED
        BY <2>1, Zenon
<1>2. PICK front \in Seq(Token) : /\ front = SubSeq(rows, 1, mm + 1) /\ Len(front) = mm + 1
                                  /\ \A i \in 1 .. mm + 1 : front[i] = rows[i]
    <2>1. /\ SubSeq(rows, 1, mm + 1) \in Seq(Token) /\ Len(SubSeq(rows, 1, mm + 1)) = mm + 1
          /\ \A i \in 1 .. mm + 1 : SubSeq(rows, 1, mm + 1)[i] = rows[i]
        BY <1>1
    <2> QED
        BY <2>1, Zenon
<1>3. PICK d \in Seq(Token) : d = SubSeq(drafts, 1, mm) /\ Len(d) = mm /\ \A i \in 1 .. mm : d[i] = drafts[i]
    <2>1. /\ SubSeq(drafts, 1, mm) \in Seq(Token) /\ Len(SubSeq(drafts, 1, mm)) = mm
          /\ \A i \in 1 .. mm : SubSeq(drafts, 1, mm)[i] = drafts[i]
        OBVIOUS
    <2> QED
        BY <2>1, Zenon
<1>4. front[1] = t /\ \A i \in 1 .. mm : front[i + 1] = d[i]
    <2>1. 1 \in 1 .. mm + 1 /\ \A i \in 1 .. mm : i + 1 \in 1 .. mm + 1
        OBVIOUS
    <2> QED
        BY <1>1, <1>2, <1>3, <2>1, Zenon
<1>5. PICK x \in Seq(Token) : /\ x = Append(E, t) /\ Len(x) = Len(E) + 1 /\ x[Len(E) + 1] = t
                              /\ \A i \in 1 .. Len(E) : x[i] = E[i]
    <2>1. /\ Append(E, t) \in Seq(Token) /\ Len(Append(E, t)) = Len(E) + 1 /\ Append(E, t)[Len(E) + 1] = t
          /\ \A i \in 1 .. Len(E) : Append(E, t)[i] = E[i]
        OBVIOUS
    <2> QED
        BY <2>1, Zenon
<1>6. PICK n \in Nat : n = Len(E)
    OBVIOUS
<1>7. PICK left \in Seq(Token), right \in Seq(Token) :
        /\ left = E \o front /\ Len(left) = n + mm + 1
        /\ right = x \o d /\ Len(right) = n + mm + 1
        /\ \A i \in 1 .. n + mm + 1 : left[i] = right[i]
    <2>1. /\ E \o front \in Seq(Token) /\ Len(E \o front) = n + mm + 1
          /\ \A i \in 1 .. n : (E \o front)[i] = E[i]
          /\ \A k \in 1 .. mm + 1 : (E \o front)[n + k] = front[k]
        <3>1. PICK m \in Nat : m = mm + 1
            OBVIOUS
        <3>2. /\ E \in Seq(Token) /\ front \in Seq(Token)
              /\ n \in Nat /\ n = Len(E) /\ m \in Nat /\ m = Len(front)
            BY <1>2, <1>6, <3>1, Zenon
        <3>3. n + m = n + mm + 1
            BY <3>1
        <3>4. /\ E \o front \in Seq(Token) /\ Len(E \o front) = n + m
              /\ \A i \in 1 .. n : (E \o front)[i] = E[i]
              /\ \A k \in 1 .. m : (E \o front)[n + k] = front[k]
            BY ONLY <3>2, Behind, SMTT(30)
        <3> QED
            BY ONLY <3>1, <3>3, <3>4, Zenon
    <2>2. /\ x \o d \in Seq(Token) /\ Len(x \o d) = n + mm + 1
          /\ \A i \in 1 .. n + 1 : (x \o d)[i] = x[i]
          /\ \A k \in 1 .. mm : (x \o d)[n + 1 + k] = d[k]
        <3>1. PICK m \in Nat : m = n + 1
            OBVIOUS
        <3>2. /\ x \in Seq(Token) /\ d \in Seq(Token)
              /\ m \in Nat /\ m = Len(x) /\ mm \in Nat /\ mm = Len(d)
            BY <1>5, <1>6, <1>3, <3>1, Zenon
        <3>3. m + mm = n + mm + 1
            BY <3>1
        <3>4. /\ x \o d \in Seq(Token) /\ Len(x \o d) = m + mm
              /\ \A i \in 1 .. m : (x \o d)[i] = x[i]
              /\ \A k \in 1 .. mm : (x \o d)[m + k] = d[k]
            BY ONLY <3>2, Behind, SMTT(30)
        <3> QED
            BY ONLY <3>1, <3>3, <3>4, Zenon
    <2>3. ASSUME NEW i \in 1 .. n + mm + 1
          PROVE  (E \o front)[i] = (x \o d)[i]
        <3>1. CASE i \in 1 .. n
            <4>1. i \in 1 .. n + 1
                BY <3>1
            <4> QED
                BY <1>5, <1>6, <2>1, <2>2, <3>1, <4>1, Zenon
        <3>2. CASE i = n + 1
            <4>1. n + 1 \in 1 .. n + 1 /\ 1 \in 1 .. mm + 1
                OBVIOUS
            <4> QED
                BY <1>5, <1>6, <1>4, <2>1, <2>2, <3>2, <4>1, Zenon
        <3>3. CASE i \notin 1 .. n /\ i # n + 1
            <4>1. PICK k \in 1 .. mm : i = n + 1 + k /\ i = n + (k + 1) /\ k + 1 \in 1 .. mm + 1
                <5>1. /\ i - n - 1 \in 1 .. mm /\ i = n + 1 + (i - n - 1)
                      /\ i = n + ((i - n - 1) + 1) /\ (i - n - 1) + 1 \in 1 .. mm + 1
                    BY <3>3
                <5> QED
                    BY <5>1, Zenon
            <4>2. (E \o front)[i] = front[k + 1]
                BY ONLY <2>1, <4>1, Zenon
            <4>3. (x \o d)[i] = d[k]
                BY ONLY <2>2, <4>1, Zenon
            <4> QED
                BY ONLY <1>4, <4>2, <4>3, Zenon
        <3> QED
            BY <3>1, <3>2, <3>3, Zenon
    <2> QED
        BY <2>1, <2>2, <2>3, Zenon
<1>8. Len(left) = Len(right)
    BY <1>7, Zenon
<1>9. left = right
    BY ONLY left \in Seq(Token), right \in Seq(Token), <1>7, <1>8, SeqEqual, Zenon
<1> QED
    BY <1>0, <1>1, <1>2, <1>3, <1>5, <1>6, <1>7, <1>9, Zenon

\* A round with any drafts, from the map or not.
LEMMA VerifyKeeps ==
    ASSUME GreedyTyped, Inv, NEW map, Looked(history, idLast, map), NEW drafts \in Seq(Token),
           NEW fromMap \in BOOLEAN, fromMap => Len(drafts) <= Len(map.out), Verify(map, drafts, fromMap)
    PROVE  Inv' /\ NotLonger(keys')
<1>0. Text = Append(history, idLast)
    BY TextIs
<1>1. PICK mm \in Nat : /\ mm = Agreed(drafts) /\ mm <= Len(drafts)
                        /\ \A i \in 1 .. mm :
                              drafts[i] = Greedy(target, Append(history, idLast) \o Begin(drafts, i - 1))
    <2>1. /\ Agreed(drafts) \in Nat /\ Agreed(drafts) <= Len(drafts)
          /\ \A i \in 1 .. Agreed(drafts) :
                drafts[i] = Greedy(target, Append(history, idLast) \o Begin(drafts, i - 1))
        BY <1>0, AgreedTokens
    <2> QED
        BY <2>1, Zenon
<1>2. PICK d \in Seq(Token) : d = Begin(drafts, mm) /\ Len(d) = mm /\ \A i \in 1 .. mm : d[i] = drafts[i]
    <2>1. /\ Begin(drafts, mm) \in Seq(Token) /\ Len(Begin(drafts, mm)) = mm
          /\ \A i \in 1 .. mm : Begin(drafts, mm)[i] = drafts[i]
        BY <1>1, BeginOf, Zenon
    <2> QED
        BY <2>1, Zenon
<1>3. PICK text \in Seq(Token) : text = Append(history, idLast) /\ Len(text) = Len(history) + 1
                                 /\ \A i \in 1 .. Len(history) : text[i] = history[i]
    <2>1. history \in Seq(Token) /\ idLast \in Token
        BY Zenon DEF Inv, MapOK
    <2>2. /\ Append(history, idLast) \in Seq(Token) /\ Len(Append(history, idLast)) = Len(history) + 1
          /\ \A i \in 1 .. Len(history) : Append(history, idLast)[i] = history[i]
        BY <2>1
    <2> QED
        BY <2>2, Zenon
<1>4. PICK b \in Token : b = Greedy(target, text \o d)
    BY <1>3, NextToken, Zenon
<1>5. PICK G \in Seq(Token) : G = text \o d /\ GoesOn(text, G) /\ GoesOn(history, G)
    <2>1. text \o d \in Seq(Token) /\ Len(text) <= Len(text \o d) /\ \A i \in 1 .. Len(text) : (text \o d)[i] = text[i]
        OBVIOUS
    <2>2. Len(history) \in Nat /\ Len(text \o d) \in Nat /\ Len(text) \in Nat
        BY <2>1 DEF Inv, MapOK
    <2>3. Len(history) <= Len(text \o d) /\ \A i \in 1 .. Len(history) : i \in 1 .. Len(text)
        BY <1>3, <2>1, <2>2
    <2> QED
        BY <1>3, <2>1, <2>3, Zenon DEF GoesOn
<1>6. /\ history' = G /\ spec' = spec \o d \o <<b>> /\ idLast' = b
      /\ engine' = EngineAfter(drafts, mm) /\ pos' = pos + mm + 1
      /\ keys' = IF fromMap THEN Accepted(map, mm) ELSE map.keys
      /\ keyMap' = map.keyMap /\ mapLast' = map.mapLast /\ last' = map.last
      /\ looked' = [key |-> map.key, at |-> map.at, out |-> map.out]
      /\ target' = target /\ prompt' = prompt
    BY <1>0, <1>1, <1>2, <1>3, <1>4, <1>5, Zenon DEF Verify, HistoryAfter, KeysAfter, Begin
<1>7. /\ KeysOK(history, keys) /\ history \in Seq(Token) /\ idLast \in Token
      /\ prompt \in Seq(Token) /\ spec \in Seq(Token)
    BY Zenon DEF Inv, MapOK
<1>8. Greedily(text, d, b)
    <2>1. \A i \in 1 .. mm : Begin(d, i - 1) = Begin(drafts, i - 1)
        <3> TAKE i \in 1 .. mm
        <3>1. i - 1 \in Nat /\ i - 1 <= mm
            OBVIOUS
        <3> QED
            BY <1>1, <1>2, <3>1, BeginOfBegin, ZenonT(30)
    <2> QED
        BY <1>1, <1>2, <1>3, <1>4, <2>1, ZenonT(30) DEF Greedily
<1>9. KeysOK(history, keys') /\ NotLonger(keys') /\ DOMAIN keys' = DOMAIN map.keys
    <2>1. CASE fromMap
        <3>1. mm <= Len(map.out)
            <4>1. Len(drafts) \in Nat /\ Len(map.out) \in Nat
                BY DEF Looked, DraftOK
            <4> QED
                BY <1>1, <2>1, <4>1
        <3>2. KeysOK(history, Accepted(map, mm)) /\ NotLonger(Accepted(map, mm))
              /\ DOMAIN Accepted(map, mm) = DOMAIN map.keys
            BY <1>7, <3>1, AcceptedOK, Zenon
        <3> QED
            BY <1>6, <2>1, <3>2, Zenon
    <2>2. CASE ~fromMap
        <3>1. NotLonger(map.keys)
            BY <1>7, KeptNotLonger, Zenon DEF Looked
        <3> QED
            BY <1>6, <2>2, <3>1, Zenon DEF Looked
    <2> QED
        BY <2>1, <2>2
<1>10. MapOK(history)'
    <2>1. KeysOK(G, keys')
        BY <1>5, <1>7, <1>9, KeysGoOn, Zenon
    <2>2. PlacesOK(G, map.keyMap, map.mapLast)
        BY <1>5, <1>7, PlacesGoOn, Zenon DEF Looked
    <2>3. Len(prompt) <= Len(G)
        <3>1. Len(prompt) \in Nat /\ Len(history) \in Nat /\ Len(G) \in Nat
            BY <1>7
        <3> QED
            BY <3>1, <1>5 DEF Inv, MapOK, GoesOn
    <2> QED
        BY <1>6, <1>7, <2>1, <2>2, <2>3, Zenon DEF MapOK
<1>11. SpecExact'
    <2>1. SpecExact /\ Greedily(Append(history, idLast), d, b)
        BY <1>3, <1>8, Zenon DEF Inv
    <2>2. PICK sp : sp = spec \o d \o <<b>>
        BY Zenon
    <2>3. /\ prompt \o sp = Append(G, b)
          /\ \A i \in DOMAIN sp : sp[i] = Greedy(target, prompt \o Begin(sp, i - 1))
        <3>1. /\ prompt \o (spec \o d \o <<b>>) = Append(Append(history, idLast) \o d, b)
              /\ \A i \in DOMAIN (spec \o d \o <<b>>) :
                    (spec \o d \o <<b>>)[i] = Greedy(target, prompt \o Begin(spec \o d \o <<b>>, i - 1))
            BY <1>7, <2>1, SpecGoesOn, Zenon
        <3> QED
            BY <1>3, <1>5, <2>2, <3>1, Zenon
    <2>4. spec' = sp
        BY <1>6, <2>2, Zenon
    <2>5. engine = history /\ pos = Len(history)
        BY <2>1, Zenon DEF SpecExact
    <2>6. EngineAfter(drafts, mm) = G /\ Len(G) = pos + mm + 1
        <3>1. /\ history \o SubSeq(<<idLast>> \o drafts, 1, mm + 1) = Append(history, idLast) \o SubSeq(drafts, 1, mm)
              /\ Len(Append(history, idLast) \o SubSeq(drafts, 1, mm)) = Len(history) + mm + 1
            BY <1>1, <1>7, EngineIs, Zenon
        <3> QED
            BY <1>2, <1>3, <1>5, <2>5, <3>1, Zenon DEF EngineAfter, Begin
    <2>7. engine' = history' /\ pos' = Len(history)'
        BY <1>6, <2>6, Zenon
    <2> QED
        BY <1>6, <2>3, <2>4, <2>7, Zenon DEF SpecExact, Begin
<1>12. DraftRepeats'
    <2>1. looked'.key = map.key /\ looked'.at = map.at /\ looked'.out = map.out
        BY <1>6
    <2>2. ASSUME map.out # << >>
          PROVE  StandsIn(G, map.at, map.out, map.key)
        <3>1. DraftOK(history, map) /\ map.key = KeyOf(history, idLast) /\ GoesOn(Append(history, idLast), G)
            BY <1>3, <1>5, Zenon DEF Looked
        <3> QED
            BY <1>7, <2>2, <3>1, DraftStands, Zenon
    <2> QED
        BY <1>6, <2>1, <2>2, Zenon DEF DraftRepeats, StandsIn
<1>13. last'.created => last'.key \in DOMAIN keys' /\ last'.value \in 1 .. MaxValues
    BY <1>6, <1>9, Zenon DEF Looked, LastOK, Live
<1>14. target' \in Targets /\ prompt' \in Prompts /\ spec' \in Seq(Token) /\ idLast' \in Token
    <2>1. spec \o d \o <<b>> \in Seq(Token)
        BY <1>7
    <2> QED
        BY <1>6, <2>1, Zenon DEF Inv
<1> QED
    BY <1>9, <1>10, <1>11, <1>12, <1>13, <1>14, Zenon DEF Inv

\* At the start the map is empty and the text is the prompt.
LEMMA InitInv ==
    ASSUME GreedyTyped, Init
    PROVE  Inv
<1>1. prompt \in Seq(Token) /\ target \in Targets /\ prompt \in Prompts /\ history = prompt
    BY LookupAssumption DEF Init
<1>2. << >> \in Seq(Token) /\ prompt \o << >> = prompt
    BY <1>1
<1>3. idLast \in Token
    <2>1. Greedy(target, prompt \o << >>) \in Token
        BY <1>1, <1>2, Zenon DEF GreedyTyped
    <2> QED
        BY <1>2, <2>1, Zenon DEF Init
<1>4. spec = <<idLast>> /\ spec \in Seq(Token)
    BY <1>3 DEF Init
<1>5. MapOK(history)
    <2>1. keys = << >> /\ keys \in Seq(Key) /\ DOMAIN keys = {}
        BY DEF Init
    <2>2. KeysOK(history, keys)
        BY <2>1, Zenon DEF KeysOK
    <2>3. 0 \in Nat
        OBVIOUS
    <2>4. PlacesOK(history, keyMap, mapLast)
        BY <2>3, Zenon DEF PlacesOK, Init
    <2>5. Len(prompt) <= Len(history)
        BY <1>1
    <2> QED
        BY <1>1, <2>2, <2>4, <2>5, Zenon DEF MapOK
<1>6. SpecExact
    <2>1. prompt \o spec = Append(history, idLast)
        BY <1>1, <1>3, <1>4
    <2>2. ASSUME NEW i \in DOMAIN spec
          PROVE  spec[i] = Greedy(target, prompt \o SubSeq(spec, 1, i - 1))
        <3>1. i = 1 /\ spec[i] = idLast
            BY <1>4
        <3>2. SubSeq(spec, 1, i - 1) = << >>
            BY <1>4, <3>1
        <3> QED
            BY <1>2, <3>1, <3>2, Zenon DEF Init
    <2>3. engine = history /\ pos = Len(history)
        BY <1>1 DEF Init
    <2> QED
        BY <2>1, <2>2, <2>3, Zenon DEF SpecExact
<1>7. DraftRepeats
    BY DEF DraftRepeats, Init
<1>8. last.created = FALSE
    BY DEF Init
<1> QED
    BY <1>1, <1>3, <1>4, <1>5, <1>6, <1>7, <1>8, Zenon DEF Inv

\* A round keeps the invariant and makes no value longer.
LEMMA NextKeeps ==
    ASSUME GreedyTyped, Inv, Next
    PROVE  Inv' /\ NotLonger(keys')
<1>1. PICK map : map = Lookup(history, idLast) /\ Looked(history, idLast, map)
    <2>1. MapOK(history) /\ idLast \in Token
        BY Zenon DEF Inv
    <2>2. Looked(history, idLast, Lookup(history, idLast))
        BY <2>1, LookupOK, Zenon
    <2> QED
        BY <2>2, Zenon
<1>2. CASE RoundOfMap
    <2>1. map.out # << >> /\ Verify(map, SubSeq(map.out, 1, Min({NDraft, Len(map.out)})), TRUE)
        BY <1>1, <1>2, Zenon DEF RoundOfMap
    <2>2. map.out \in Seq(Token) /\ Len(map.out) \in Nat
        BY <1>1 DEF Looked, DraftOK
    <2>3. PICK n \in Nat : n = Min({NDraft, Len(map.out)}) /\ n <= Len(map.out)
        <3>1. Min({NDraft, Len(map.out)}) = IF NDraft <= Len(map.out) THEN NDraft ELSE Len(map.out)
            BY <2>2, Sizes DEF Min
        <3>2. Min({NDraft, Len(map.out)}) \in Nat /\ Min({NDraft, Len(map.out)}) <= Len(map.out)
            BY <2>2, <3>1, Sizes
        <3> QED
            BY <3>2, Zenon
    <2>4. PICK drafts \in Seq(Token) : drafts = Begin(map.out, n) /\ Len(drafts) = n
        <3>1. Begin(map.out, n) \in Seq(Token) /\ Len(Begin(map.out, n)) = n
            BY <2>2, <2>3, BeginOf, Zenon
        <3> QED
            BY <3>1, Zenon
    <2>5. Verify(map, drafts, TRUE) /\ TRUE \in BOOLEAN /\ Len(drafts) <= Len(map.out)
        BY <2>1, <2>3, <2>4, Zenon DEF Begin
    <2> QED
        BY <1>1, <2>5, VerifyKeeps, Zenon
<1>3. CASE RoundOfModel
    <2>1. PICK drafts \in [1 .. NDraft -> Token] : Verify(map, drafts, FALSE)
        BY <1>1, <1>3, Zenon DEF RoundOfModel
    <2>2. drafts \in Seq(Token) /\ FALSE \in BOOLEAN
        BY Sizes
    <2> QED
        BY <1>1, <2>1, <2>2, VerifyKeeps, Zenon
<1> QED
    BY <1>2, <1>3 DEF Next

\* The steps that change nothing keep it too.
LEMMA StutterKeeps ==
    ASSUME Inv, UNCHANGED vars
    PROVE  Inv' /\ NotLonger(keys')
<1>1. /\ target' = target /\ prompt' = prompt /\ spec' = spec /\ history' = history /\ idLast' = idLast
      /\ engine' = engine /\ pos' = pos
      /\ keyMap' = keyMap /\ mapLast' = mapLast /\ keys' = keys /\ last' = last /\ looked' = looked
    BY DEF vars, mapVars
<1>2. MapOK(history)'
    BY <1>1, Zenon DEF Inv, MapOK
<1>3. SpecExact'
    BY <1>1, Zenon DEF Inv, SpecExact
<1>4. DraftRepeats'
    BY <1>1, Zenon DEF Inv, DraftRepeats
<1>5. NotLonger(keys')
    <2>1. Kept(keys, keys')
        BY <1>1, Zenon DEF Kept
    <2> QED
        BY <2>1, KeptNotLonger, Zenon DEF Inv, MapOK
<1> QED
    BY <1>1, <1>2, <1>3, <1>4, <1>5, Zenon DEF Inv

\* Inv holds always.
THEOREM MapFollowsTheText == ASSUME GreedyTyped PROVE Spec => []Inv
<1>1. Init => Inv
    BY InitInv
<1>2. Inv /\ [Next]_vars => Inv'
    BY NextKeeps, StutterKeeps
<1> QED
    BY <1>1, <1>2, PTL DEF Spec

-----------------------------------------------------------------------------
(* What follows from it.                                                   *)

\* The types of what the loop and the map keep.
THEOREM TypeCorrect == ASSUME GreedyTyped PROVE Spec => []TypeOK
<1>1. Inv => TypeOK
    <2> SUFFICES ASSUME Inv
                 PROVE  TypeOK
        OBVIOUS
    <2>1. history \in Seq(Token) /\ Len(history) \in Nat /\ KeysOK(history, keys) /\ PlacesOK(history, keyMap, mapLast)
        BY DEF Inv, MapOK
    <2>2. \A j \in Nat : j = 0 \/ Reaches(history, j) => j \in 0 .. Len(history)
        BY <2>1, Sizes DEF Reaches
    <2>3. keyMap \in [Buckets -> 0 .. Len(history)] /\ mapLast \in 0 .. Len(history)
        <3>1. \A b \in Buckets : keyMap[b] \in 0 .. Len(history)
            BY <2>1, <2>2, Zenon DEF PlacesOK
        <3> QED
            BY <2>1, <2>2, <3>1, Zenon DEF PlacesOK
    <2>4. ASSUME NEW i \in DOMAIN keys
          PROVE  /\ keys[i].keyIdx \in 1 .. Len(history)
                 /\ keys[i].statIdx \in 0 .. Len(history)
                 /\ keys[i].keyNum \in 1 .. MaxCount
                 /\ keys[i].values \in
                       [1 .. MaxValues -> [idx : 0 .. Len(history), num : 0 .. MaxCount, accepted : 0 .. M]]
        <3>1. keys[i] \in Key /\ KeyOK(history, keys[i])
            BY <2>1 DEF KeysOK
        <3>2. PICK values \in Values : values = keys[i].values /\ Following(history, keys[i].keyIdx, values)
            BY <3>1, Zenon DEF Key, KeyOK
        <3>3. ASSUME NEW v \in 1 .. MaxValues
              PROVE  values[v] \in [idx : 0 .. Len(history), num : 0 .. MaxCount, accepted : 0 .. M]
            <4>1. values[v] \in Value
                BY DEF Values
            <4>2. values[v].idx \in 0 .. Len(history)
                <5>1. CASE v \in Live(values)
                    <6>1. values[v].idx \in Nat /\ values[v].idx + M <= Len(history)
                        BY <2>1, <3>2, <5>1, LiveInside, Zenon
                    <6> QED
                        BY <2>1, <6>1, Sizes
                <5>2. CASE v \notin Live(values)
                    BY <2>1, <5>2 DEF Live
                <5> QED
                    BY <5>1, <5>2
            <4> QED
                BY <4>1, <4>2 DEF Value
        <3>4. values \in [1 .. MaxValues -> [idx : 0 .. Len(history), num : 0 .. MaxCount, accepted : 0 .. M]]
            BY <3>3, Zenon DEF Values
        <3>5. keys[i].keyIdx \in 1 .. Len(history) /\ keys[i].statIdx \in 0 .. Len(history)
            BY <2>1, <3>1, Sizes DEF Key, KeyOK, Reaches
        <3>6. keys[i].keyNum \in 1 .. MaxCount
            BY <3>1, Sizes DEF Key, KeyOK
        <3> QED
            BY <3>2, <3>4, <3>5, <3>6, Zenon
    <2>5. {spec, history, engine} \subseteq Seq(Token) /\ pos \in Nat
        <3>1. engine = history /\ pos = Len(history) /\ spec \in Seq(Token)
            BY Zenon DEF Inv, SpecExact
        <3> QED
            BY <2>1, <3>1
    <2> QED
        BY <2>1, <2>3, <2>4, <2>5, Zenon DEF TypeOK, Inv
<1> QED
    BY <1>1, MapFollowsTheText, PTL

\* Whoever drafts, the tokens are those of plain greedy decoding, and the history,
\* the engine's text and the position of the next pass stay in step.
THEOREM LookupIsExact == ASSUME GreedyTyped PROVE Spec => []SpecExact
<1>1. Inv => SpecExact
    BY DEF Inv
<1> QED
    BY <1>1, MapFollowsTheText, PTL

\* A draft of the map is what followed an earlier occurrence of its key.
THEOREM DraftsRepeatTheText == ASSUME GreedyTyped PROVE Spec => []DraftRepeats
<1>1. Inv => DraftRepeats
    BY DEF Inv
<1> QED
    BY <1>1, MapFollowsTheText, PTL

\* The keys are different, and so are the values of a key, each behind an occurrence of it.
THEOREM ValuesFollowKeys == ASSUME GreedyTyped PROVE Spec => []ValuesFollowTheirKey
<1>1. Inv => ValuesFollowTheirKey
    <2> SUFFICES ASSUME Inv, NEW i \in DOMAIN keys
                 PROVE  /\ \A j \in DOMAIN keys \ {i} :
                              Gram(history, keys[i].keyIdx, N) # Gram(history, keys[j].keyIdx, N)
                        /\ \A v \in {u \in 1 .. MaxValues : keys[i].values[u].idx # 0} :
                              /\ keys[i].values[v].idx + M <= Len(history)
                              /\ Gram(history, keys[i].values[v].idx - N, N) = Gram(history, keys[i].keyIdx, N)
                              /\ \A w \in {u \in 1 .. MaxValues : keys[i].values[u].idx # 0} \ {v} :
                                    Gram(history, keys[i].values[w].idx, M) # Gram(history, keys[i].values[v].idx, M)
        BY Zenon DEF ValuesFollowTheirKey
    <2>1. history \in Seq(Token) /\ Len(history) \in Nat /\ KeysOK(history, keys) /\ N \in Nat /\ M \in Nat
        BY Sizes DEF Inv, MapOK
    <2>2. \A j \in DOMAIN keys : keys[j] \in Key /\ KeyOK(history, keys[j])
        BY <2>1 DEF KeysOK
    <2>3. \A j \in DOMAIN keys : keys[j].keyIdx \in Nat /\ keys[j].keyIdx + N <= Len(history)
        BY <2>1, <2>2, Sizes, SMTT(30) DEF Key, KeyOK, Reaches
    <2>4. ASSUME NEW j \in DOMAIN keys \ {i}
          PROVE  Gram(history, keys[i].keyIdx, N) # Gram(history, keys[j].keyIdx, N)
        <3>1. PICK a \in Nat, b \in Nat : a = keys[i].keyIdx /\ b = keys[j].keyIdx
                                          /\ a + N <= Len(history) /\ b + N <= Len(history)
            BY <2>3, Zenon
        <3>2. ~Same(history, a, b, N)
            BY <2>1, <3>1, Zenon DEF KeysOK
        <3>3. Gram(history, a, N) = Gram(history, b, N) <=> Same(history, a, b, N)
            BY <2>1, <3>1, GramSame, SMTT(30)
        <3> QED
            BY <3>1, <3>2, <3>3, Zenon
    <2>5. PICK values \in Values : values = keys[i].values /\ Following(history, keys[i].keyIdx, values)
        BY <2>2, Zenon DEF Key, KeyOK
    <2>6. {u \in 1 .. MaxValues : keys[i].values[u].idx # 0} = Live(values)
        BY <2>5, Zenon DEF Live
    <2>7. ASSUME NEW v \in Live(values)
          PROVE  /\ values[v].idx + M <= Len(history)
                 /\ Gram(history, values[v].idx - N, N) = Gram(history, keys[i].keyIdx, N)
        <3>1. PICK at \in Nat : at = keys[i].keyIdx /\ at + N <= Len(history) /\ Following(history, at, values)
            BY <2>3, <2>5, Zenon
        <3>2. PICK idx \in Nat : idx = values[v].idx /\ idx + M <= Len(history)
            BY <2>1, <3>1, LiveInside, Zenon
        <3>3. PICK j \in Nat : j = values[v].idx - N /\ Reaches(history, j) /\ Same(history, j, at, N)
            BY <3>1, LiveOccurs, Zenon
        <3>4. j + N <= Len(history)
            BY <2>1, <3>3, Sizes DEF Reaches
        <3>5. Gram(history, j, N) = Gram(history, at, N) <=> Same(history, j, at, N)
            BY <2>1, <3>1, <3>4, GramSame, SMTT(30)
        <3> QED
            BY <3>1, <3>2, <3>3, <3>5, Zenon
    <2>8. ASSUME NEW v \in Live(values), NEW w \in Live(values) \ {v}
          PROVE  Gram(history, values[w].idx, M) # Gram(history, values[v].idx, M)
        <3>1. PICK a \in Nat : a = values[w].idx /\ a + M <= Len(history)
            BY <2>1, <2>5, LiveInside, Zenon
        <3>2. PICK b \in Nat : b = values[v].idx /\ b + M <= Len(history)
            BY <2>1, <2>5, LiveInside, Zenon
        <3>3. ~Same(history, a, b, M)
            BY <2>5, <3>1, <3>2, Zenon DEF Following
        <3>4. Gram(history, a, M) = Gram(history, b, M) <=> Same(history, a, b, M)
            BY <2>1, <3>1, <3>2, GramSame, SMTT(30)
        <3> QED
            BY <3>1, <3>2, <3>3, <3>4, Zenon
    <2> QED
        BY <2>4, <2>5, <2>6, <2>7, <2>8, Zenon
<1> QED
    BY <1>1, MapFollowsTheText, PTL

\* A value that was cut short never drafts more again.
THEOREM ValuesNeverGrow == ASSUME GreedyTyped PROVE Spec => NeverLonger
<1>1. Inv /\ [Next]_vars => [\A i \in DOMAIN keys : \A v \in 1 .. MaxValues :
                               keys'[i].values[v].accepted <= keys[i].values[v].accepted]_vars
    BY NextKeeps, Zenon DEF NotLonger
<1> QED
    BY <1>1, MapFollowsTheText, PTL DEF Spec, NeverLonger
=============================================================================
