-------------------------- MODULE SlotEngineProofs --------------------------
(***************************************************************************)
(* Proofs about SlotEngine, for any number of slots, positions, rows,      *)
(* drafts and positions of a pooled block.                                 *)
(*                                                                         *)
(* CachesBelong says nothing of a pass that waits for accept, so it is not *)
(* inductive: EngineInv speaks of the sequence a slot holds, its committed *)
(* tokens and the rows that wait.  The caches belong to that sequence, and *)
(* what accept keeps is a prefix of it.                                    *)
(***************************************************************************)
EXTENDS SlotEngine, SequenceTheorems, TLAPS

-----------------------------------------------------------------------------
(* Sequences and blocks.                                                   *)

LEMMA TakeProperties ==
    ASSUME NEW S, NEW w \in Seq(S), NEW n \in 0 .. Len(w)
    PROVE  /\ Take(w, n) \in Seq(S)
           /\ Len(Take(w, n)) = n
           /\ \A i \in 1 .. n : Take(w, n)[i] = w[i]
           /\ \A k \in 0 .. n : Take(Take(w, n), k) = Take(w, k)
           /\ Take(w, Len(w)) = w
<1>1. \A k \in 0 .. Len(w) :
          Take(w, k) \in Seq(S) /\ Len(Take(w, k)) = k /\ \A i \in 1 .. k : Take(w, k)[i] = w[i]
    BY SubSeqProperties, ElementOfSeq DEF Take
<1>2. ASSUME NEW k \in 0 .. n
      PROVE  Take(Take(w, n), k) = Take(w, k)
    <2>1. \A i \in 1 .. k : Take(w, n)[i] \in S
        BY <1>1, ElementOfSeq
    <2>2. Take(Take(w, n), k) \in Seq(S) /\ Len(Take(Take(w, n), k)) = k
          /\ \A i \in 1 .. k : Take(Take(w, n), k)[i] = Take(w, n)[i]
        BY <2>1, SubSeqProperties DEF Take
    <2> QED
        BY <1>1, <2>2, SeqEqual, SMTT(40)
<1>3. Take(w, Len(w)) = w
    BY <1>1, SeqEqual
<1> QED
    BY <1>1, <1>2, <1>3

\* A view of a row is what the slot holds up to that row.
LEMMA TakeOfConcat ==
    ASSUME NEW S, NEW u \in Seq(S), NEW v \in Seq(S)
    PROVE  /\ u \o v \in Seq(S)
           /\ Len(u \o v) = Len(u) + Len(v)
           /\ \A k \in 0 .. Len(u) : Take(u \o v, k) = Take(u, k)
           /\ \A n \in 0 .. Len(v) : u \o Take(v, n) = Take(u \o v, Len(u) + n)
<1>1. Len(u) \in Nat /\ Len(v) \in Nat
    BY LenProperties
<1> DEFINE w == u \o v
<1>2. w \in Seq(S) /\ Len(w) = Len(u) + Len(v)
      /\ \A i \in 1 .. Len(u) + Len(v) : w[i] = IF i <= Len(u) THEN u[i] ELSE v[i - Len(u)]
    BY ConcatProperties
<1> HIDE DEF w
<1>3. ASSUME NEW k \in 0 .. Len(u)
      PROVE  Take(w, k) = Take(u, k)
    <2>1. Take(u, k) \in Seq(S) /\ Len(Take(u, k)) = k /\ \A i \in 1 .. k : Take(u, k)[i] = u[i]
        BY TakeProperties
    <2>2. k \in 0 .. Len(w)
        BY <1>1, <1>2
    <2>3. Take(w, k) \in Seq(S) /\ Len(Take(w, k)) = k /\ \A i \in 1 .. k : Take(w, k)[i] = w[i]
        BY <1>2, <2>2, TakeProperties
    <2>4. \A i \in 1 .. k : Take(w, k)[i] = Take(u, k)[i]
        BY <1>1, <1>2, <2>1, <2>3
    <2> QED
        BY <2>1, <2>3, <2>4, SeqEqual
<1>4. ASSUME NEW n \in 0 .. Len(v)
      PROVE  u \o Take(v, n) = Take(w, Len(u) + n)
    <2> DEFINE t == Take(v, n)
    <2>1. t \in Seq(S) /\ Len(t) = n /\ \A i \in 1 .. n : t[i] = v[i]
        BY TakeProperties
    <2> HIDE DEF t
    <2>2. u \o t \in Seq(S) /\ Len(u \o t) = Len(u) + n
          /\ \A i \in 1 .. Len(u) + n : (u \o t)[i] = IF i <= Len(u) THEN u[i] ELSE t[i - Len(u)]
        BY <2>1, ConcatProperties
    <2>3. Len(u) + n \in 0 .. Len(w)
        BY <1>1, <1>2
    <2>4. Take(w, Len(u) + n) \in Seq(S) /\ Len(Take(w, Len(u) + n)) = Len(u) + n
          /\ \A i \in 1 .. Len(u) + n : Take(w, Len(u) + n)[i] = w[i]
        BY <1>2, <2>3, TakeProperties
    <2>5. \A i \in 1 .. Len(u) + n : (u \o t)[i] = Take(w, Len(u) + n)[i]
        BY <1>1, <1>2, <2>1, <2>2, <2>4, SMTT(40)
    <2>6. u \o t = Take(w, Len(u) + n)
        BY <2>2, <2>4, <2>5, SeqEqual
    <2> QED
        BY <2>6 DEF t
<1> QED
    BY <1>2, <1>3, <1>4 DEF w

\* Of the n-gram history only the last two tokens matter.
LEMMA LastTwoOfConcat ==
    ASSUME NEW S, NEW u \in Seq(S), NEW v \in Seq(S)
    PROVE  /\ LastTwo(u) \in Seq(S) /\ Len(LastTwo(u)) <= 2
           /\ LastTwo(LastTwo(u) \o v) = LastTwo(u \o v)
<1>1. \A w \in Seq(S) : Len(w) \in Nat
    BY LenProperties
<1>2. ASSUME NEW w \in Seq(S)
      PROVE  /\ LastTwo(w) \in Seq(S)
             /\ Len(LastTwo(w)) = IF Len(w) <= 2 THEN Len(w) ELSE 2
             /\ \A i \in 1 .. Len(LastTwo(w)) : LastTwo(w)[i] = w[Len(w) - Len(LastTwo(w)) + i]
    <2>1. CASE Len(w) <= 2
        BY <1>1, <2>1 DEF LastTwo
    <2>2. CASE Len(w) > 2
        <3>1. \A i \in Len(w) - 1 .. Len(w) : w[i] \in S
            BY <1>1, <2>2, ElementOfSeq
        <3>2. Len(w) - 1 \in Int /\ Len(w) \in Int /\ Len(w) - 1 <= Len(w) /\ Len(w) - (Len(w) - 1) + 1 = 2
            BY <1>1
        <3>a. PICK l : l = SubSeq(w, Len(w) - 1, Len(w))
            OBVIOUS
        <3>3. l \in Seq(S) /\ Len(l) = 2 /\ \A i \in 1 .. 2 : l[i] = w[Len(w) - 1 + i - 1]
            BY <3>1, <3>2, <3>a, SubSeqProperties
        <3>4. LastTwo(w) = l
            BY <1>1, <2>2, <3>a DEF LastTwo
        <3>5. \A i \in 1 .. 2 : Len(w) - 1 + i - 1 = Len(w) - 2 + i
            BY <1>1
        <3>6. \A i \in 1 .. 2 : l[i] = w[Len(w) - 2 + i]
            BY <3>3, <3>5
        <3>7. Len(w) - Len(l) = Len(w) - 2 /\ Len(l) = IF Len(w) <= 2 THEN Len(w) ELSE 2
            BY <1>1, <2>2, <3>3
        <3>8. \A i \in 1 .. Len(l) : l[i] = w[Len(w) - Len(l) + i]
            BY <3>3, <3>6, <3>7
        <3> QED
            BY <3>3, <3>4, <3>7, <3>8
    <2> QED
        BY <1>1, <2>1, <2>2
<1>a. PICK l : l = LastTwo(u)
    OBVIOUS
<1>b. PICK x : x = u \o v
    OBVIOUS
<1>c. PICK y : y = l \o v
    OBVIOUS
<1>3. /\ l \in Seq(S) /\ Len(l) = IF Len(u) <= 2 THEN Len(u) ELSE 2
      /\ \A i \in 1 .. Len(l) : l[i] = u[Len(u) - Len(l) + i]
    BY <1>2, <1>a
<1>4. Len(l) \in Nat /\ Len(u) \in Nat /\ Len(v) \in Nat /\ Len(l) <= Len(u)
    BY <1>1, <1>3
<1>5. x \in Seq(S) /\ Len(x) = Len(u) + Len(v)
      /\ \A i \in 1 .. Len(u) + Len(v) : x[i] = IF i <= Len(u) THEN u[i] ELSE v[i - Len(u)]
    BY <1>b, ConcatProperties
<1>6. y \in Seq(S) /\ Len(y) = Len(l) + Len(v)
      /\ \A i \in 1 .. Len(l) + Len(v) : y[i] = IF i <= Len(l) THEN l[i] ELSE v[i - Len(l)]
    BY <1>3, <1>c, ConcatProperties
<1>d. PICK n : n = Len(LastTwo(x))
    OBVIOUS
<1>7. LastTwo(x) \in Seq(S) /\ n = (IF Len(x) <= 2 THEN Len(x) ELSE 2)
      /\ \A i \in 1 .. n : LastTwo(x)[i] = x[Len(x) - n + i]
    BY <1>2, <1>5, <1>d
<1>8. LastTwo(y) \in Seq(S) /\ Len(LastTwo(y)) = (IF Len(y) <= 2 THEN Len(y) ELSE 2)
      /\ \A i \in 1 .. Len(LastTwo(y)) : LastTwo(y)[i] = y[Len(y) - Len(LastTwo(y)) + i]
    BY <1>2, <1>6
<1>9. n \in Nat /\ n = Len(LastTwo(y)) /\ n <= Len(y) /\ n <= Len(x)
    <2>1. Len(x) \in Nat /\ Len(y) \in Nat
        BY <1>5, <1>6, LenProperties
    <2>2. Len(x) <= 2 => Len(y) = Len(x)
        BY <1>3, <1>4, <1>5, <1>6
    <2>3. Len(x) > 2 => Len(y) >= 2
        BY <1>3, <1>4, <1>5, <1>6
    <2>4. n = (IF Len(x) <= 2 THEN Len(x) ELSE 2) /\ Len(LastTwo(y)) = (IF Len(y) <= 2 THEN Len(y) ELSE 2)
        BY <1>7, <1>8
    <2> QED
        BY <2>1, <2>2, <2>3, <2>4
<1>10. ASSUME NEW i \in 1 .. n
       PROVE  LastTwo(x)[i] = LastTwo(y)[i]
    <2>1. LastTwo(x)[i] = x[Len(x) - n + i] /\ LastTwo(y)[i] = y[Len(y) - n + i]
        BY <1>7, <1>8, <1>9
    <2>2. PICK j : j = Len(x) - n + i
        OBVIOUS
    <2>3. PICK k : k = Len(y) - n + i
        OBVIOUS
    <2>4. /\ j \in 1 .. Len(u) + Len(v) /\ k \in 1 .. Len(l) + Len(v)
          /\ j - Len(u) = k - Len(l)
          /\ j <= Len(u) <=> k <= Len(l)
        BY <1>4, <1>5, <1>6, <1>9, <2>2, <2>3
    <2>5. CASE k > Len(l)
        <3>1. x[j] = v[j - Len(u)] /\ y[k] = v[k - Len(l)]
            BY <2>4, <2>5, <1>4, <1>5, <1>6
        <3> QED
            BY <3>1, <2>1, <2>2, <2>3, <2>4
    <2>6. CASE k <= Len(l)
        <3>1. x[j] = u[j] /\ y[k] = l[k]
            BY <2>4, <2>6, <1>4, <1>5, <1>6
        <3>2. k \in 1 .. Len(l) /\ j = Len(u) - Len(l) + k
            BY <2>4, <2>6, <1>4
        <3> QED
            BY <3>1, <3>2, <2>1, <2>2, <2>3, <1>3
    <2> QED
        BY <2>4, <2>5, <2>6, <1>4
<1>11. LastTwo(x) = LastTwo(y)
    BY <1>7, <1>8, <1>9, <1>10, <1>d, SeqEqual
<1>12. l \in Seq(S) /\ Len(l) <= 2
    BY <1>3, <1>4
<1>13. LastTwo(LastTwo(u) \o v) = LastTwo(u \o v)
    BY <1>11, <1>a, <1>b, <1>c
<1> QED
    BY <1>12, <1>13, <1>a

\* Blocks of R positions: the complete ones below n, and below a smaller n.
LEMMA BlockBounds ==
    ASSUME NEW n \in Nat, R \in Nat \ {0}
    PROVE  /\ n \div R \in Nat
           /\ \A b \in 0 .. (n \div R) - 1 : R * b \in Nat /\ R * b + R <= n
           /\ \A m \in Nat : n <= m => n \div R <= m \div R
<1>1. \A m \in Nat : m \div R \in Int /\ m % R \in 0 .. R - 1 /\ m = R * (m \div R) + (m % R)
    OBVIOUS
<1>2. ASSUME NEW m \in Nat
      PROVE  m \div R >= 0
    OBVIOUS
<1>3. ASSUME NEW b \in 0 .. (n \div R) - 1
      PROVE  R * b \in Nat /\ R * b + R <= n
    <2>1. b + 1 <= n \div R /\ n \div R \in Nat
        BY <1>1, <1>2
    <2>2. R * (b + 1) <= R * (n \div R)
        BY <2>1
    <2>3. R * (b + 1) = R * b + R
        BY <2>1
    <2> QED
        BY <1>1, <2>2, <2>3
<1>4. ASSUME NEW m \in Nat, n <= m
      PROVE  n \div R <= m \div R
    <2>1. SUFFICES ASSUME n \div R >= m \div R + 1 PROVE FALSE
        BY <1>1
    <2>2. R * (n \div R) >= R * (m \div R + 1)
        BY <2>1, <1>1
    <2>3. R * (m \div R + 1) = R * (m \div R) + R
        BY <1>1
    <2> QED
        BY <2>2, <2>3, <1>1, <1>4
<1> QED
    BY <1>1, <1>2, <1>3, <1>4
-----------------------------------------------------------------------------
(* The invariant.                                                          *)

\* The sequence slot s holds: what it has committed and the rows that wait.
Held(s) == IF lT[s] = 0 THEN Committed(s) ELSE Committed(s) \o pend[s]

\* Keys k and pooled keys q are those of the sequence w.
OwnKeys(k, w) == \A p \in 0 .. Len(w) - 1 : k[p] = OwnKey(w, p)
OwnPools(q, w) == \A b \in 0 .. (Len(w) \div R) - 1 : q[b] = OwnPool(w, b)

\* The caches of slot s are those of what it holds; the spare buffers hold it
\* already, and its rows of the last pass can be replayed from the saved inputs.
Holds(s) ==
    /\ ple[s][cur[s]] = Committed(s)
    /\ hist[s] = LastTwo(Committed(s))
    /\ Len(Held(s)) <= MaxCtx
    /\ OwnKeys(kc[s], Held(s))
    /\ OwnPools(pooled[s], Held(s))
    /\ lT[s] > 0 =>
          /\ Len(pend[s]) = lT[s]
          /\ rec[s][Spare(s)] = Held(s)
          /\ ple[s][Spare(s)] = Held(s)
          /\ lr0[s] + lT[s] <= MaxRows
          /\ \A i \in 1 .. lT[s] : saved[lr0[s] + i - 1] = <<pend[s][i]>>

EngineInv == TypeOK /\ (\A s \in Slots : Holds(s)) /\ LogitsExact

-----------------------------------------------------------------------------
(* What a pass writes.                                                     *)

\* The keys of a sequence are those of every prefix of it.
LEMMA PrefixOwns ==
    ASSUME NEW w \in Seq(Token), NEW n \in 0 .. Len(w), R \in Nat \ {0}
    PROVE  /\ \A p \in 0 .. n - 1 : OwnKey(Take(w, n), p) = OwnKey(w, p)
           /\ \A b \in 0 .. (n \div R) - 1 : OwnPool(Take(w, n), b) = OwnPool(w, b)
           /\ n \div R <= Len(w) \div R
<1>1. Len(w) \in Nat /\ n \in Nat /\ n <= Len(w)
    BY LenProperties
<1>2. \A k \in 0 .. n : Take(Take(w, n), k) = Take(w, k)
    BY TakeProperties
<1>3. ASSUME NEW b \in 0 .. (n \div R) - 1
      PROVE  OwnPool(Take(w, n), b) = OwnPool(w, b)
    <2>1. R * b \in Nat /\ R * b + R <= n
        BY <1>1, BlockBounds
    <2>2. \A i \in 1 .. R : R * b + i \in 0 .. n
        BY <2>1, <1>1
    <2>3. \A i \in 1 .. R : Take(Take(w, n), R * b + i) = Take(w, R * b + i)
        BY <2>2, <1>2
    <2> QED
        BY <2>3 DEF OwnPool
<1>4. \A p \in 0 .. n - 1 : OwnKey(Take(w, n), p) = OwnKey(w, p)
    BY <1>1, <1>2 DEF OwnKey
<1> QED
    BY <1>1, <1>3, <1>4, BlockBounds

\* What is committed is a sequence, and what is held begins with it.
LEMMA HeldProperties ==
    ASSUME TypeOK, NEW s \in Slots
    PROVE  /\ Committed(s) \in Seq(Token) /\ Pos(s) \in Nat
           /\ pend[s] \in Seq(Token) /\ Held(s) \in Seq(Token)
           /\ cur[s] \in Buffers /\ Spare(s) \in Buffers /\ Spare(s) # cur[s]
           /\ Pos(s) <= Len(Held(s)) /\ Take(Held(s), Pos(s)) = Committed(s)
<1>1. Committed(s) \in Seq(Token) /\ pend[s] \in Seq(Token) /\ cur[s] \in Buffers /\ lT[s] \in Nat
    BY DEF TypeOK, Committed, Views, Buffers
<1>2. Pos(s) \in Nat /\ Len(pend[s]) \in Nat
    BY <1>1, LenProperties DEF Pos
<1>3. Spare(s) \in Buffers /\ Spare(s) # cur[s]
    BY <1>1 DEF Spare, Buffers
<1>4. Take(Committed(s), Pos(s)) = Committed(s)
    BY <1>1, <1>2, TakeProperties DEF Pos
<1>5. /\ Committed(s) \o pend[s] \in Seq(Token)
      /\ Len(Committed(s) \o pend[s]) = Pos(s) + Len(pend[s])
      /\ Take(Committed(s) \o pend[s], Pos(s)) = Take(Committed(s), Pos(s))
    BY <1>1, <1>2, TakeOfConcat DEF Pos
<1>6. Held(s) \in Seq(Token) /\ Pos(s) <= Len(Held(s)) /\ Take(Held(s), Pos(s)) = Committed(s)
    BY <1>1, <1>2, <1>4, <1>5 DEF Held, Pos
<1> QED
    BY <1>1, <1>2, <1>3, <1>6

\* The caches of a slot after rows toks belong to its sequence with toks, and no
\* row reads anything else, whatever the slots held before.
LEMMA PassWrites ==
    ASSUME TypeOK, NEW s \in Slots, Holds(s), lT[s] = 0,
           NEW toks \in Seq(Token), Pos(s) + Len(toks) <= MaxCtx
    PROVE  /\ KeysAfter(s, toks) \in [Positions -> Views]
           /\ PooledAfter(s, toks) \in [Blocks -> Seq(Views)]
           /\ OwnKeys(KeysAfter(s, toks), Committed(s) \o toks)
           /\ OwnPools(PooledAfter(s, toks), Committed(s) \o toks)
           /\ \A t \in 1 .. Len(toks) : ReadsOwn(s, toks, t)
<1>a. PICK c : c = Committed(s)
    OBVIOUS
<1>b. PICK w : w = c \o toks
    OBVIOUS
<1>c. PICK n : n = Len(c)
    OBVIOUS
<1>d. PICK m : m = Len(toks)
    OBVIOUS
<1>1. /\ c \in Seq(Token) /\ n \in Nat /\ n = Pos(s) /\ m \in Nat
      /\ w \in Seq(Token) /\ Len(w) = n + m /\ n + m <= MaxCtx
      /\ R \in Nat \ {0} /\ MaxCtx \in Nat /\ n + m \in Nat
    BY <1>a, <1>b, <1>c, <1>d, HeldProperties, TakeOfConcat, LenProperties, SlotEngineAssumption DEF Pos
<1>2. /\ \A k \in 0 .. n : Take(w, k) = Take(c, k)
      /\ \A t \in 0 .. m : View(s, toks, t) = Take(w, n + t)
    <2>0. c \in Seq(Token) /\ toks \in Seq(Token)
        BY <1>1
    <2>1. /\ \A k \in 0 .. Len(c) : Take(c \o toks, k) = Take(c, k)
          /\ \A t \in 0 .. Len(toks) : c \o Take(toks, t) = Take(c \o toks, Len(c) + t)
        BY <2>0, TakeOfConcat
    <2>2. \A t : View(s, toks, t) = c \o Take(toks, t)
        BY <1>a DEF View
    <2> QED
        BY <2>1, <2>2, <1>b, <1>c, <1>d
<1>3. /\ OwnKeys(kc[s], c) /\ OwnPools(pooled[s], c)
      /\ kc[s] \in [Positions -> Views] /\ pooled[s] \in [Blocks -> Seq(Views)]
    BY <1>a DEF Holds, Held, TypeOK
<1>4. ASSUME NEW p \in Positions
      PROVE  KeysAfter(s, toks)[p] \in Views /\ (p < n + m => KeysAfter(s, toks)[p] = OwnKey(w, p))
    <2>0. p \in Nat
        BY <1>1 DEF Positions
    <2>1. CASE p \in n .. n + m - 1
        <3>1. KeysAfter(s, toks)[p] = View(s, toks, p - n + 1)
            BY <2>1, <1>1, <1>d DEF KeysAfter
        <3>2. p - n + 1 \in 0 .. m /\ n + (p - n + 1) = p + 1 /\ p + 1 \in 0 .. Len(w)
            BY <2>0, <2>1, <1>1, SMTT(40)
        <3>3. KeysAfter(s, toks)[p] = Take(w, p + 1)
            BY <3>1, <3>2, <1>2
        <3> QED
            BY <3>2, <3>3, <1>1, TakeProperties DEF OwnKey, Views
    <2>2. CASE p \notin n .. n + m - 1
        <3>1. KeysAfter(s, toks)[p] = kc[s][p]
            BY <2>2, <1>1, <1>d DEF KeysAfter
        <3>2. ASSUME p < n + m
              PROVE  KeysAfter(s, toks)[p] = OwnKey(w, p)
            <4>1. p \in 0 .. n - 1 /\ p + 1 \in 0 .. n
                BY <3>2, <2>0, <2>2, <1>1
            <4> QED
                BY <4>1, <3>1, <1>2, <1>3, <1>c DEF OwnKeys, OwnKey
        <3> QED
            BY <3>1, <3>2, <1>3
    <2> QED
        BY <2>1, <2>2
<1>5. KeysAfter(s, toks) \in [Positions -> Views]
    BY <1>4 DEF KeysAfter
<1>6. \A p \in 0 .. n + m - 1 : KeysAfter(s, toks)[p] = OwnKey(w, p)
    BY <1>1, <1>4 DEF Positions
<1>e. R \in Nat \ {0} /\ MaxCtx \in Nat /\ n + m \in Nat /\ n \in Nat
    BY <1>1
<1>7. ASSUME NEW b \in Blocks
      PROVE  /\ PooledAfter(s, toks)[b] \in Seq(Views)
             /\ b < (n + m) \div R => PooledAfter(s, toks)[b] = OwnPool(w, b)
    <2>a. MaxCtx \div R \in Nat /\ \A x \in 0 .. (MaxCtx \div R) - 1 : R * x \in Nat /\ R * x + R <= MaxCtx
        BY <1>e, BlockBounds
    <2>0. b \in Nat /\ R * b \in Nat /\ R * b + R <= MaxCtx
        BY <2>a DEF Blocks
    <2>00. n \div R \in Nat /\ (n + m) \div R \in Nat
        BY <1>e, BlockBounds
    <2>1. CASE b \in n \div R .. ((n + m) \div R) - 1
        <3>1. PooledAfter(s, toks)[b] = [i \in 1 .. R |-> KeysAfter(s, toks)[R * b + i - 1]]
            BY <2>1, <1>1, <1>d DEF PooledAfter
        <3>2. R * b + R <= n + m
            <4>1. b \in 0 .. ((n + m) \div R) - 1
                BY <2>1, <2>0, <2>00
            <4> QED
                BY <4>1, <1>e, BlockBounds
        <3>3. \A i \in 1 .. R : /\ R * b + i - 1 \in 0 .. n + m - 1 /\ R * b + i - 1 \in Positions
                                /\ R * b + i - 1 + 1 = R * b + i
            <4>1. PICK rb : rb = R * b
                OBVIOUS
            <4>2. rb \in Nat /\ rb + R <= n + m /\ n + m <= MaxCtx
                BY <4>1, <3>2, <2>0, <1>1
            <4>3. \A i \in 1 .. R : /\ rb + i - 1 \in 0 .. n + m - 1 /\ rb + i - 1 \in Positions
                                    /\ rb + i - 1 + 1 = rb + i
                BY <4>2, <1>e, <1>1 DEF Positions
            <4> QED
                BY <4>1, <4>3
        <3>4. \A i \in 1 .. R : KeysAfter(s, toks)[R * b + i - 1] = Take(w, R * b + i)
            BY <3>3, <1>6 DEF OwnKey
        <3>5. PooledAfter(s, toks)[b] = OwnPool(w, b)
            BY <3>1, <3>4 DEF OwnPool
        <3>6. PooledAfter(s, toks)[b] \in [1 .. R -> Views]
            BY <3>1, <3>3, <1>5
        <3>7. PooledAfter(s, toks)[b] \in Seq(Views)
            <4>1. PICK z : z = PooledAfter(s, toks)[b]
                OBVIOUS
            <4>2. R \in Nat /\ z \in [1 .. R -> Views]
                BY <4>1, <3>6, <1>1
            <4>3. z \in Seq(Views)
                BY <4>2, IsASeq
            <4> QED
                BY <4>1, <4>3
        <3> QED
            BY <3>5, <3>7
    <2>2. CASE b \notin n \div R .. ((n + m) \div R) - 1
        <3>1. PooledAfter(s, toks)[b] = pooled[s][b]
            BY <2>2, <1>1, <1>d DEF PooledAfter
        <3>2. ASSUME b < (n + m) \div R
              PROVE  PooledAfter(s, toks)[b] = OwnPool(w, b)
            <4>1. b \in 0 .. (n \div R) - 1
                BY <3>2, <2>0, <2>00, <2>2
            <4>2. pooled[s][b] = OwnPool(c, b)
                BY <4>1, <1>3, <1>c DEF OwnPools
            <4>3. Take(w, n) = c
                BY <1>1, <1>2, <1>c, TakeProperties
            <4>4. n \in 0 .. Len(w)
                BY <1>1
            <4>5. OwnPool(Take(w, n), b) = OwnPool(w, b)
                BY <4>1, <4>4, <1>1, PrefixOwns
            <4> QED
                BY <3>1, <4>2, <4>3, <4>5
        <3> QED
            BY <3>1, <3>2, <1>3
    <2> QED
        BY <2>1, <2>2
<1>8. PooledAfter(s, toks) \in [Blocks -> Seq(Views)]
    BY <1>7 DEF PooledAfter
<1>9. \A b \in 0 .. ((n + m) \div R) - 1 : PooledAfter(s, toks)[b] = OwnPool(w, b)
    <2>1. (n + m) \div R \in Nat /\ (n + m) \div R <= MaxCtx \div R /\ MaxCtx \div R \in Nat
        BY <1>1, BlockBounds
    <2>2. \A b \in 0 .. ((n + m) \div R) - 1 : b \in Blocks /\ b < (n + m) \div R
        BY <2>1 DEF Blocks
    <2> QED
        BY <2>2, <1>7
<1>f. w \in Seq(Token) /\ Len(w) = n + m
    BY <1>1
<1>10. ASSUME NEW t \in 1 .. m
       PROVE  ReadsOwn(s, toks, t)
    <2>1. t \in 0 .. m /\ n + t \in 0 .. Len(w) /\ t - 1 \in 0 .. m /\ n + t \in Nat
        BY <1>1
    <2>2. PICK v : v = View(s, toks, t)
        OBVIOUS
    <2>3. v = Take(w, n + t) /\ Len(v) = n + t
        BY <2>1, <2>2, <1>1, <1>2, TakeProperties
    <2>4. AttendsOwn(s, toks, t)
        <3>1. \A p \in 0 .. n + t - 1 : OwnKey(v, p) = OwnKey(w, p)
            BY <2>1, <2>3, <1>e, <1>f, PrefixOwns
        <3>2. \A p \in 0 .. n + t - 1 : p \in 0 .. n + m - 1
            BY <1>1
        <3> QED
            <4>1. \A p \in 0 .. n + t - 1 : KeysAfter(s, toks)[p] = OwnKey(v, p)
                BY <3>1, <3>2, <1>6
            <4> QED
                BY <4>1, <2>1, <2>2, <2>3, <1>e DEF AttendsOwn
    <2>5. SelectsOwn(s, toks, t)
        <3>1. /\ \A b \in 0 .. ((n + t) \div R) - 1 : OwnPool(v, b) = OwnPool(w, b)
              /\ (n + t) \div R <= (n + m) \div R
            BY <2>1, <2>3, <1>e, <1>f, PrefixOwns
        <3>2. (n + t) \div R \in Nat /\ (n + m) \div R \in Nat
            BY <2>1, <1>e, BlockBounds
        <3>3. \A b \in 0 .. ((n + t) \div R) - 1 : b \in 0 .. ((n + m) \div R) - 1
            BY <3>1, <3>2
        <3> QED
            <4>1. \A b \in 0 .. ((n + t) \div R) - 1 : PooledAfter(s, toks)[b] = OwnPool(v, b)
                BY <3>1, <3>3, <1>9
            <4> QED
                BY <4>1, <2>2, <2>3 DEF SelectsOwn
    <2>6. HashesOwn(s, toks, t)
        <3>1. hist[s] = LastTwo(c)
            BY <1>a DEF Holds
        <3>2. Take(toks, t - 1) \in Seq(Token)
            BY <2>1, <1>d, TakeProperties
        <3>3. LastTwo(LastTwo(c) \o Take(toks, t - 1)) = LastTwo(c \o Take(toks, t - 1))
            BY <3>2, <1>1, LastTwoOfConcat
        <3> QED
            BY <3>1, <3>3, <1>a DEF HashesOwn
    <2>7. ConvolvesOwn(s)
        BY DEF Holds, ConvolvesOwn
    <2> QED
        BY <2>4, <2>5, <2>6, <2>7 DEF ReadsOwn
<1>11. OwnKeys(KeysAfter(s, toks), w)
    <2>1. \A p \in 0 .. Len(w) - 1 : p \in 0 .. n + m - 1
        BY <1>1
    <2> QED
        BY <2>1, <1>6 DEF OwnKeys
<1>12. OwnPools(PooledAfter(s, toks), w)
    BY <1>9, <1>f DEF OwnPools
<1> QED
    BY <1>5, <1>8, <1>10, <1>11, <1>12, <1>a, <1>b, <1>d

-----------------------------------------------------------------------------
(* Every operation keeps the invariant.                                    *)

\* A slot no operation touches, with its rows of the pass still saved.
LEMMA HoldsFrame ==
    ASSUME NEW s \in Slots, Holds(s),
           cur'[s] = cur[s], rec'[s] = rec[s], ple'[s] = ple[s], hist'[s] = hist[s], kc'[s] = kc[s],
           pooled'[s] = pooled[s], pend'[s] = pend[s], lr0'[s] = lr0[s], lT'[s] = lT[s], saved' = saved
    PROVE  Holds(s)'
BY DEF Holds, Held, Committed, Spare, OwnKeys, OwnPools

\* A slot whose rows have all been accepted or dropped.
LEMMA SettledHolds ==
    ASSUME NEW s \in Slots, NEW w \in Seq(Token), Len(w) <= MaxCtx,
           lT'[s] = 0, rec'[s][cur'[s]] = w, ple'[s][cur'[s]] = w, hist'[s] = LastTwo(w),
           OwnKeys(kc'[s], w), OwnPools(pooled'[s], w)
    PROVE  Holds(s)'
BY DEF Holds, Held, Committed, OwnKeys, OwnPools

\* The history of a sequence is of the type TypeOK asks for.
LEMMA HistoryType ==
    ASSUME NEW w \in Seq(Token)
    PROVE  LastTwo(w) \in UNION {[1 .. n -> Token] : n \in 0 .. 2}
<1>1. << >> \in Seq(Token)
    BY EmptySeq
<1>2. LastTwo(w) \in Seq(Token) /\ Len(LastTwo(w)) <= 2
    BY <1>1, LastTwoOfConcat
<1>3. PICK l : l = LastTwo(w)
    OBVIOUS
<1>4. l \in [1 .. Len(l) -> Token] /\ Len(l) \in Nat
    BY <1>2, <1>3, LenProperties
<1>5. Len(l) \in 0 .. 2
    BY <1>2, <1>3, <1>4
<1> QED
    BY <1>3, <1>4, <1>5

\* An empty sequence owns whatever is in the caches.
LEMMA EmptyOwns ==
    ASSUME NEW k, NEW q
    PROVE  OwnKeys(k, << >>) /\ OwnPools(q, << >>)
<1>1. Len(<< >>) = 0 /\ R \in Nat \ {0}
    BY EmptySeq, SlotEngineAssumption
<1>2. 0 .. (0 \div R) - 1 = {}
    BY <1>1
<1> QED
    BY <1>1, <1>2 DEF OwnKeys, OwnPools

LEMMA InitEngineInv == Init => EngineInv
<1> SUFFICES ASSUME Init PROVE EngineInv
    OBVIOUS
<1>1. << >> \in Seq(Token) /\ Len(<< >>) = 0 /\ << >> \in Views /\ << >> \in Seq(Views)
    BY EmptySeq DEF Views
<1>2. << >> \in UNION {[1 .. n -> Token] : n \in 0 .. 2} /\ LastTwo(<< >>) = << >>
    BY <1>1, HistoryType DEF LastTwo
<1>3. 0 \in RowIds /\ 0 \in 0 .. MaxRows /\ 0 \in Buffers
    BY SlotEngineAssumption DEF RowIds, Buffers
<1>4. TypeOK
    BY <1>1, <1>2, <1>3 DEF Init, TypeOK
<1>5. ASSUME NEW s \in Slots
      PROVE  Holds(s)
    <2>1. cur[s] = 0 /\ lT[s] = 0 /\ Committed(s) = << >> /\ ple[s][cur[s]] = << >> /\ hist[s] = << >>
        BY <1>3 DEF Init, Committed
    <2>2. Held(s) = << >>
        BY <2>1 DEF Held
    <2>3. 0 <= MaxCtx
        BY SlotEngineAssumption
    <2> QED
        BY <1>1, <1>2, <2>1, <2>2, <2>3, EmptyOwns DEF Holds
<1>6. LogitsExact
    BY DEF Init, LogitsExact
<1> QED
    BY <1>4, <1>5, <1>6 DEF EngineInv

LEMMA ResetEngineInv ==
    ASSUME EngineInv, NEW s \in Slots, ResetSlot(s)
    PROVE  EngineInv'
<1>1. << >> \in Seq(Token) /\ Len(<< >>) = 0 /\ << >> \in Views
    BY EmptySeq DEF Views
<1>2. << >> \in UNION {[1 .. n -> Token] : n \in 0 .. 2} /\ LastTwo(<< >>) = << >>
    BY <1>1, HistoryType DEF LastTwo
<1>3. 0 \in Buffers /\ 0 \in 0 .. MaxRows /\ 0 <= MaxCtx
    BY SlotEngineAssumption DEF Buffers
<1>4. TypeOK'
    BY <1>1, <1>2, <1>3 DEF EngineInv, TypeOK, ResetSlot
<1>5. ASSUME NEW u \in Slots
      PROVE  Holds(u)'
    <2>1. CASE u = s
        <3>1. /\ lT'[s] = 0 /\ cur'[s] = 0 /\ hist'[s] = << >>
              /\ rec'[s] = [b \in Buffers |-> << >>] /\ ple'[s] = [b \in Buffers |-> << >>]
            BY DEF ResetSlot, EngineInv, TypeOK
        <3>2. rec'[s][cur'[s]] = << >> /\ ple'[s][cur'[s]] = << >>
            BY <3>1, <1>3
        <3> QED
            BY <2>1, <3>1, <3>2, <1>1, <1>2, <1>3, EmptyOwns, SettledHolds
    <2>2. CASE u # s
        BY <2>2, HoldsFrame DEF ResetSlot, EngineInv, TypeOK
    <2> QED
        BY <2>1, <2>2
<1>6. LogitsExact'
    BY DEF ResetSlot, EngineInv, LogitsExact
<1> QED
    BY <1>4, <1>5, <1>6 DEF EngineInv

LEMMA PrefillEngineInv ==
    ASSUME EngineInv, NEW s \in Slots, NEW toks \in SeqsUpTo(Token, MaxPrefill), Prefill(s, toks)
    PROVE  EngineInv'
<1>a. PICK c : c = Committed(s)
    OBVIOUS
<1>b. PICK w : w = c \o toks
    OBVIOUS
<1>1. /\ TypeOK /\ LogitsExact /\ \A u \in Slots : Holds(u) /\ lT[u] = 0
      /\ toks \in Seq(Token) /\ Len(toks) \in Nat \ {0} /\ Pos(s) + Len(toks) <= MaxCtx
    <2>1. PICK i \in 1 .. MaxPrefill : toks \in [1 .. i -> Token]
        BY DEF SeqsUpTo
    <2>2. i \in Nat
        BY <2>1, SlotEngineAssumption
    <2>3. toks \in Seq(Token)
        BY <2>1, <2>2, SeqDef
    <2>4. Len(toks) \in Nat \ {0}
        BY SlotEngineAssumption DEF Prefill
    <2> QED
        BY <2>3, <2>4 DEF EngineInv, Prefill, AllAccepted
<1>2. /\ KeysAfter(s, toks) \in [Positions -> Views] /\ PooledAfter(s, toks) \in [Blocks -> Seq(Views)]
      /\ OwnKeys(KeysAfter(s, toks), w) /\ OwnPools(PooledAfter(s, toks), w)
      /\ \A t \in 1 .. Len(toks) : ReadsOwn(s, toks, t)
    BY <1>1, <1>a, <1>b, PassWrites
<1>3. /\ c \in Seq(Token) /\ cur[s] \in Buffers /\ Spare(s) \in Buffers /\ Spare(s) # cur[s]
      /\ ple[s][cur[s]] = c /\ hist[s] = LastTwo(c)
    BY <1>1, <1>a, HeldProperties DEF Holds
<1>4. w \in Seq(Token) /\ Len(w) <= MaxCtx
    <2>1. w \in Seq(Token) /\ Len(w) = Len(c) + Len(toks)
        BY <1>1, <1>3, <1>b, ConcatProperties
    <2> QED
        BY <2>1, <1>1, <1>a DEF Pos
<1>5. Trim(hist[s] \o toks) = LastTwo(w)
    BY <1>1, <1>3, <1>b, LastTwoOfConcat DEF Trim
<1>6. ReadsOwn(s, toks, Len(toks))
    BY <1>1, <1>2
<1>7. rec'[s][cur'[s]] = w /\ ple'[s][cur'[s]] = w /\ hist'[s] = LastTwo(w) /\ lT'[s] = 0
    BY <1>1, <1>3, <1>5, <1>a, <1>b DEF Prefill, TypeOK
<1>8. kc'[s] = KeysAfter(s, toks) /\ pooled'[s] = PooledAfter(s, toks)
    BY <1>1 DEF Prefill, TypeOK
<1>9. TypeOK'
    <2>1. LastTwo(w) \in UNION {[1 .. n -> Token] : n \in 0 .. 2}
        BY <1>4, HistoryType
    <2>2. 0 \in 0 .. MaxRows
        BY SlotEngineAssumption
    <2>3. cur' \in [Slots -> Buffers] /\ lT' \in [Slots -> 0 .. MaxRows]
          /\ hist' \in [Slots -> UNION {[1 .. n -> Token] : n \in 0 .. 2}]
        BY <1>1, <1>3, <1>5, <2>1, <2>2 DEF Prefill, TypeOK
    <2>4. /\ rec' \in [Slots -> [Buffers -> Views]] /\ ple' \in [Slots -> [Buffers -> Views]]
        BY <1>1, <1>3, <1>4, <1>a, <1>b DEF Prefill, TypeOK, Views
    <2>5. kc' \in [Slots -> [Positions -> Views]] /\ pooled' \in [Slots -> [Blocks -> Seq(Views)]]
        BY <1>1, <1>2 DEF Prefill, TypeOK
    <2>6. exact' \in [RowIds -> BOOLEAN]
        BY <1>1, <1>6 DEF Prefill, TypeOK
    <2> QED
        BY <1>1, <2>3, <2>4, <2>5, <2>6 DEF Prefill, TypeOK
<1>10. ASSUME NEW u \in Slots
       PROVE  Holds(u)'
    <2>1. CASE u = s
        BY <2>1, <1>2, <1>4, <1>7, <1>8, SettledHolds
    <2>2. CASE u # s
        BY <2>2, <1>1, HoldsFrame DEF Prefill, TypeOK
    <2> QED
        BY <2>1, <2>2
<1>11. LogitsExact'
    BY <1>1, <1>6 DEF Prefill, LogitsExact, TypeOK
<1> QED
    BY <1>9, <1>10, <1>11 DEF EngineInv

\* The slot a row of a pass belongs to.
Owner(toks, first, r) == CHOOSE s \in DOMAIN toks : r \in RowsOf(toks, first, s)

LEMMA RowsHaveOwners ==
    ASSUME NEW toks, NEW first, Packed(toks, first), NEW s \in DOMAIN toks,
           NEW r \in RowsOf(toks, first, s)
    PROVE  Owner(toks, first, r) = s
<1>1. Owner(toks, first, r) \in DOMAIN toks /\ r \in RowsOf(toks, first, Owner(toks, first, r))
    BY DEF Owner
<1>2. \A u \in DOMAIN toks \ {s} : r \notin RowsOf(toks, first, u)
    BY DEF Packed
<1> QED
    BY <1>1, <1>2

LEMMA ForwardEngineInv ==
    ASSUME EngineInv, AllAccepted, NEW running \in SUBSET Slots, NEW toks \in Candidates(running),
           NEW first \in [running -> RowIds], Forward(toks, first)
    PROVE  EngineInv'
<1>1. TypeOK /\ LogitsExact /\ \A u \in Slots : Holds(u) /\ lT[u] = 0
    BY DEF EngineInv, AllAccepted
<1>2. DOMAIN toks = running
    BY DEF Candidates
<1>3. ASSUME NEW s \in running
      PROVE  /\ s \in Slots /\ toks[s] \in Seq(Token) /\ Len(toks[s]) \in Nat \ {0} /\ Len(toks[s]) <= MaxRows
             /\ Pos(s) + Len(toks[s]) <= MaxCtx
             /\ first[s] \in Nat /\ first[s] + Len(toks[s]) <= MaxRows
    <2>1. toks[s] \in SeqsUpTo(Token, MaxRun) /\ Pos(s) + Len(toks[s]) <= MaxCtx
        BY DEF Candidates
    <2>2. PICK i \in 1 .. MaxRun : toks[s] \in [1 .. i -> Token]
        BY <2>1 DEF SeqsUpTo
    <2>3. i \in Nat \ {0} /\ i <= MaxRows
        BY <2>2, SlotEngineAssumption
    <2>4. toks[s] \in Seq(Token) /\ Len(toks[s]) = i
        <3>1. toks[s] \in Seq(Token)
            BY <2>2, <2>3, SeqDef
        <3>2. DOMAIN toks[s] = 1 .. i /\ DOMAIN toks[s] = 1 .. Len(toks[s]) /\ Len(toks[s]) \in Nat
            BY <3>1, <2>2, LenProperties
        <3> QED
            BY <3>1, <3>2, <2>3
    <2>5. first[s] \in Nat
        BY SlotEngineAssumption DEF RowIds
    <2>6. first[s] + Len(toks[s]) <= MaxRows
        BY <1>2 DEF Forward
    <2> QED
        BY <2>1, <2>3, <2>4, <2>5, <2>6
<1>4. ASSUME NEW s \in running
      PROVE  /\ KeysAfter(s, toks[s]) \in [Positions -> Views]
             /\ PooledAfter(s, toks[s]) \in [Blocks -> Seq(Views)]
             /\ OwnKeys(KeysAfter(s, toks[s]), Committed(s) \o toks[s])
             /\ OwnPools(PooledAfter(s, toks[s]), Committed(s) \o toks[s])
             /\ \A t \in 1 .. Len(toks[s]) : ReadsOwn(s, toks[s], t)
    BY <1>1, <1>3, PassWrites
<1>5. ASSUME NEW s \in running, NEW r \in RowsOf(toks, first, s)
      PROVE  /\ Owner(toks, first, r) = s
             /\ r - first[s] + 1 \in 1 .. Len(toks[s])
             /\ toks[s][r - first[s] + 1] \in Token
    <2>1. Packed(toks, first)
        BY DEF Forward
    <2>2. Owner(toks, first, r) = s
        BY <2>1, <1>2, RowsHaveOwners
    <2>3. r - first[s] + 1 \in 1 .. Len(toks[s])
        BY <1>3 DEF RowsOf
    <2> QED
        BY <2>2, <2>3, <1>3, ElementOfSeq
<1>6. \A s \in running : /\ kc'[s] = KeysAfter(s, toks[s]) /\ pooled'[s] = PooledAfter(s, toks[s])
                         /\ rec'[s] = [rec[s] EXCEPT ![Spare(s)] = Committed(s) \o toks[s]]
                         /\ ple'[s] = [ple[s] EXCEPT ![Spare(s)] = ple[s][cur[s]] \o toks[s]]
                         /\ pend'[s] = toks[s] /\ lr0'[s] = first[s] /\ lT'[s] = Len(toks[s])
    BY <1>2, <1>3 DEF Forward
<1>7. \A s \in Slots \ running : /\ kc'[s] = kc[s] /\ pooled'[s] = pooled[s] /\ rec'[s] = rec[s]
                                 /\ ple'[s] = ple[s] /\ pend'[s] = pend[s] /\ lr0'[s] = lr0[s]
                                 /\ lT'[s] = lT[s]
    BY <1>2 DEF Forward
<1>8. cur' = cur /\ hist' = hist
    BY DEF Forward
<1>9. ASSUME NEW r \in RowIds
      PROVE  /\ exact'[r] = TRUE
             /\ saved'[r] \in Views
             /\ \A s \in running : r \in RowsOf(toks, first, s) => saved'[r] = <<toks[s][r - first[s] + 1]>>
    <2>1. CASE \E s \in running : r \in RowsOf(toks, first, s)
        <3>1. PICK s \in running : r \in RowsOf(toks, first, s)
            BY <2>1
        <3>2. Owner(toks, first, r) = s /\ r - first[s] + 1 \in 1 .. Len(toks[s]) /\ toks[s][r - first[s] + 1] \in Token
            BY <3>1, <1>5
        <3>3. /\ saved'[r] = <<toks[Owner(toks, first, r)][r - first[Owner(toks, first, r)] + 1]>>
              /\ exact'[r] = ReadsOwn(Owner(toks, first, r), toks[Owner(toks, first, r)], r - first[Owner(toks, first, r)] + 1)
            BY <3>1, <1>2 DEF Forward, Owner
        <3>4. saved'[r] = <<toks[s][r - first[s] + 1]>> /\ exact'[r] = ReadsOwn(s, toks[s], r - first[s] + 1)
            BY <3>2, <3>3
        <3>5. ReadsOwn(s, toks[s], r - first[s] + 1)
            BY <3>2, <1>4
        <3>6. \A u \in running : r \in RowsOf(toks, first, u) => u = s
            BY <3>2, <1>5
        <3> QED
            BY <3>2, <3>4, <3>5, <3>6 DEF Views
    <2>2. CASE ~\E s \in running : r \in RowsOf(toks, first, s)
        <3>1. saved'[r] = saved[r] /\ exact'[r] = exact[r]
            BY <2>2, <1>2 DEF Forward
        <3> QED
            BY <2>2, <3>1, <1>1 DEF TypeOK, LogitsExact
    <2> QED
        BY <2>1, <2>2
<1>10. ASSUME NEW s \in running
       PROVE  /\ Committed(s)' = Committed(s)
              /\ Held(s)' = Committed(s) \o toks[s]
              /\ Committed(s) \o toks[s] \in Seq(Token)
              /\ Len(Committed(s) \o toks[s]) <= MaxCtx
              /\ rec'[s][Spare(s)] = Committed(s) \o toks[s]
              /\ ple'[s][Spare(s)] = Committed(s) \o toks[s]
              /\ ple'[s][cur[s]] = Committed(s)
    <2>1. /\ Committed(s) \in Seq(Token) /\ Spare(s) # cur[s] /\ cur[s] \in Buffers /\ Spare(s) \in Buffers
          /\ ple[s][cur[s]] = Committed(s) /\ rec[s] \in [Buffers -> Views] /\ ple[s] \in [Buffers -> Views]
        BY <1>1, <1>3, HeldProperties DEF Holds, TypeOK
    <2>2. Committed(s)' = Committed(s) /\ ple'[s][cur[s]] = Committed(s)
        BY <2>1, <1>6, <1>8 DEF Committed
    <2>3. rec'[s][Spare(s)] = Committed(s) \o toks[s] /\ ple'[s][Spare(s)] = Committed(s) \o toks[s]
        <3>1. PICK v : v = Committed(s) \o toks[s]
            OBVIOUS
        <3>2. rec'[s] = [rec[s] EXCEPT ![Spare(s)] = v] /\ ple'[s] = [ple[s] EXCEPT ![Spare(s)] = v]
            BY <3>1, <2>1, <1>6
        <3>3. Spare(s) \in DOMAIN rec[s] /\ Spare(s) \in DOMAIN ple[s]
            BY <2>1
        <3>4. rec'[s][Spare(s)] = v /\ ple'[s][Spare(s)] = v
            BY <3>2, <3>3
        <3> QED
            BY <3>1, <3>4
    <2>4. Held(s)' = Committed(s) \o toks[s]
        BY <2>2, <1>3, <1>6 DEF Held
    <2>5. Committed(s) \o toks[s] \in Seq(Token) /\ Len(Committed(s) \o toks[s]) = Pos(s) + Len(toks[s])
        BY <2>1, <1>3, ConcatProperties DEF Pos
    <2> QED
        BY <2>2, <2>3, <2>4, <2>5, <1>3
<1>11. ASSUME NEW s \in Slots
       PROVE  Holds(s)'
    <2>1. CASE s \in running
        <3>1. (Spare(s))' = Spare(s)
            BY <1>8 DEF Spare
        <3>2. ASSUME NEW i \in 1 .. lT'[s]
              PROVE  saved'[lr0'[s] + i - 1] = <<pend'[s][i]>>
            <4>1. PICK r : r = first[s] + i - 1
                OBVIOUS
            <4>2. r \in RowIds /\ r \in RowsOf(toks, first, s) /\ r - first[s] + 1 = i
                <5>1. /\ first[s] \in Nat /\ Len(toks[s]) \in Nat /\ MaxRows \in Nat
                      /\ first[s] + Len(toks[s]) <= MaxRows /\ i \in 1 .. Len(toks[s])
                    BY <3>2, <2>1, <1>3, <1>6, SlotEngineAssumption
                <5>2. r \in 0 .. MaxRows - 1 /\ r \in first[s] .. first[s] + Len(toks[s]) - 1
                      /\ r - first[s] + 1 = i
                    BY <4>1, <5>1
                <5> QED
                    BY <5>2 DEF RowIds, RowsOf
            <4>3. saved'[r] = <<toks[s][i]>>
                BY <4>2, <2>1, <1>9
            <4> QED
                BY <4>1, <4>3, <2>1, <1>6
        <3>3. ple'[s][cur'[s]] = Committed(s)' /\ hist'[s] = LastTwo(Committed(s)')
            BY <2>1, <1>1, <1>8, <1>10 DEF Holds
        <3>4. OwnKeys(kc'[s], Held(s)') /\ OwnPools(pooled'[s], Held(s)') /\ Len(Held(s)') <= MaxCtx
            BY <2>1, <1>4, <1>6, <1>10
        <3>5. /\ Len(pend'[s]) = lT'[s] /\ lr0'[s] + lT'[s] <= MaxRows
              /\ rec'[s][Spare(s)] = Held(s)' /\ ple'[s][Spare(s)] = Held(s)'
            BY <2>1, <1>3, <1>6, <1>10
        <3> QED
            BY <3>1, <3>2, <3>3, <3>4, <3>5 DEF Holds, OwnKeys, OwnPools
    <2>2. CASE s \notin running
        <3>1. Held(s)' = Held(s) /\ Committed(s)' = Committed(s) /\ lT'[s] = 0
            BY <2>2, <1>1, <1>7, <1>8 DEF Held, Committed
        <3> QED
            BY <2>2, <3>1, <1>1, <1>7, <1>8 DEF Holds, OwnKeys, OwnPools
    <2> QED
        BY <2>1, <2>2
<1>12. TypeOK'
    <2>1. \A s \in Slots : /\ rec'[s] \in [Buffers -> Views] /\ ple'[s] \in [Buffers -> Views]
                           /\ kc'[s] \in [Positions -> Views] /\ pooled'[s] \in [Blocks -> Seq(Views)]
                           /\ pend'[s] \in Seq(Token) /\ lr0'[s] \in RowIds /\ lT'[s] \in 0 .. MaxRows
        <3> SUFFICES ASSUME NEW s \in Slots
                     PROVE  /\ rec'[s] \in [Buffers -> Views] /\ ple'[s] \in [Buffers -> Views]
                            /\ kc'[s] \in [Positions -> Views] /\ pooled'[s] \in [Blocks -> Seq(Views)]
                            /\ pend'[s] \in Seq(Token) /\ lr0'[s] \in RowIds /\ lT'[s] \in 0 .. MaxRows
            OBVIOUS
        <3>1. CASE s \in running
            <4>1. rec[s] \in [Buffers -> Views] /\ ple[s] \in [Buffers -> Views]
                  /\ ple[s][cur[s]] = Committed(s) /\ Committed(s) \o toks[s] \in Views
                BY <3>1, <1>1, <1>10 DEF TypeOK, Views, Holds
            <4>2. rec'[s] \in [Buffers -> Views] /\ ple'[s] \in [Buffers -> Views]
                <5>1. PICK v : v = Committed(s) \o toks[s]
                    OBVIOUS
                <5>2. /\ rec'[s] = [rec[s] EXCEPT ![Spare(s)] = v]
                      /\ ple'[s] = [ple[s] EXCEPT ![Spare(s)] = v] /\ v \in Views
                    BY <4>1, <5>1, <3>1, <1>6
                <5> QED
                    BY <4>1, <5>2
            <4>3. Len(toks[s]) \in 0 .. MaxRows /\ first[s] \in RowIds
                BY <3>1, <1>3, SlotEngineAssumption
            <4> QED
                BY <3>1, <4>2, <4>3, <1>3, <1>4, <1>6
        <3>2. CASE s \notin running
            BY <3>2, <1>1, <1>7 DEF TypeOK
        <3> QED
            BY <3>1, <3>2
    <2>2. /\ rec' = [s \in Slots |-> rec'[s]] /\ ple' = [s \in Slots |-> ple'[s]] /\ kc' = [s \in Slots |-> kc'[s]]
          /\ pooled' = [s \in Slots |-> pooled'[s]] /\ pend' = [s \in Slots |-> pend'[s]]
          /\ lr0' = [s \in Slots |-> lr0'[s]] /\ lT' = [s \in Slots |-> lT'[s]]
        BY DEF Forward
    <2>3. saved' = [r \in RowIds |-> saved'[r]] /\ exact' = [r \in RowIds |-> exact'[r]]
        BY DEF Forward
    <2>4. /\ rec' \in [Slots -> [Buffers -> Views]] /\ ple' \in [Slots -> [Buffers -> Views]]
          /\ kc' \in [Slots -> [Positions -> Views]] /\ pooled' \in [Slots -> [Blocks -> Seq(Views)]]
          /\ pend' \in [Slots -> Seq(Token)] /\ lr0' \in [Slots -> RowIds] /\ lT' \in [Slots -> 0 .. MaxRows]
        BY <2>1, <2>2
    <2>5. saved' \in [RowIds -> Views] /\ exact' \in [RowIds -> BOOLEAN]
        BY <2>3, <1>9
    <2> QED
        BY <2>4, <2>5, <1>1, <1>8 DEF TypeOK
<1>13. LogitsExact'
    BY <1>9 DEF LogitsExact
<1> QED
    BY <1>11, <1>12, <1>13 DEF EngineInv

LEMMA AcceptEngineInv ==
    ASSUME EngineInv, NEW s \in Slots, NEW m \in 1 .. MaxRun, Accept(s, m)
    PROVE  /\ EngineInv'
           /\ Committed(s)' = Committed(s) \o Take(pend[s], m)
<1>a. PICK c : c = Committed(s)
    OBVIOUS
<1>b. PICK d : d = pend[s]
    OBVIOUS
<1>c. PICK w : w = c \o d
    OBVIOUS
<1>d. PICK v : v = c \o Take(d, m)
    OBVIOUS
<1>1. TypeOK /\ LogitsExact /\ \A u \in Slots : Holds(u)
    BY DEF EngineInv
<1>2. /\ c \in Seq(Token) /\ d \in Seq(Token) /\ cur[s] \in Buffers /\ Spare(s) \in Buffers /\ Spare(s) # cur[s]
      /\ rec[s][cur[s]] = c /\ Len(c) \in Nat
    BY <1>1, <1>a, <1>b, HeldProperties DEF Committed, Pos
<1>3. /\ m \in 1 .. lT[s] /\ lT[s] \in Nat /\ lT[s] > 0 /\ m \in Nat
    BY <1>1, SlotEngineAssumption DEF Accept, TypeOK
<1>4. /\ Held(s) = w /\ Len(d) = lT[s] /\ ple[s][cur[s]] = c /\ hist[s] = LastTwo(c)
      /\ Len(w) <= MaxCtx /\ OwnKeys(kc[s], w) /\ OwnPools(pooled[s], w)
      /\ rec[s][Spare(s)] = w /\ ple[s][Spare(s)] = w
      /\ \A i \in 1 .. lT[s] : saved[lr0[s] + i - 1] = <<d[i]>>
    <2>1. Held(s) = w
        BY <1>3, <1>a, <1>b, <1>c DEF Held
    <2> QED
        BY <2>1, <1>1, <1>3, <1>a, <1>b DEF Holds
<1>5. m \in 0 .. Len(d) /\ Take(d, m) \in Seq(Token) /\ Len(Take(d, m)) = m
    <2>1. m \in 0 .. Len(d)
        BY <1>3, <1>4
    <2> QED
        BY <2>1, <1>2, TakeProperties
<1>6. /\ w \in Seq(Token) /\ Len(w) = Len(c) + Len(d) /\ v \in Seq(Token)
      /\ v = Take(w, Len(c) + m) /\ Len(v) = Len(c) + m
      /\ (m = lT[s] => v = w)
    <2>1. w \in Seq(Token) /\ Len(w) = Len(c) + Len(d)
          /\ \A n \in 0 .. Len(d) : c \o Take(d, n) = Take(w, Len(c) + n)
        BY <1>2, <1>c, TakeOfConcat
    <2>2. Len(c) + m \in 0 .. Len(w)
        BY <2>1, <1>2, <1>5, <1>3, <1>4
    <2>3. v = Take(w, Len(c) + m)
        BY <2>1, <1>5, <1>d
    <2>4. v \in Seq(Token) /\ Len(v) = Len(c) + m
        BY <2>1, <2>2, <2>3, TakeProperties
    <2>5. ASSUME m = lT[s]
          PROVE  v = w
        <3>1. Take(d, m) = d
            BY <2>5, <1>2, <1>4, TakeProperties
        <3> QED
            BY <3>1, <1>c, <1>d
    <2> QED
        BY <2>1, <2>3, <2>4, <2>5
<1>7. ASSUME NEW old, old[cur[s]] = c
      PROVE  Replay(old, s, m) = v
    <2>1. ASSUME NEW i \in 1 .. m
          PROVE  saved[lr0[s] + i - 1][1] = d[i]
        <3>1. i \in 1 .. lT[s]
            BY <1>3
        <3>2. saved[lr0[s] + i - 1] = <<d[i]>>
            BY <3>1, <1>4
        <3> QED
            BY <3>2
    <2>2. Take(d, m) = [i \in 1 .. m |-> d[i]]
        <3>1. SubSeq(d, 1, m) = Restrict(d, 1 .. m)
            BY <1>2, <1>5, SubSeqRestrict
        <3> QED
            BY <3>1 DEF Take, Restrict
    <2>3. [i \in 1 .. m |-> saved[lr0[s] + i - 1][1]] = Take(d, m)
        BY <2>1, <2>2
    <2> QED
        BY <2>3, <1>7, <1>d DEF Replay
<1>8. /\ rec' = IF m < lT[s] THEN [rec EXCEPT ![s][Spare(s)] = v] ELSE rec
      /\ ple' = IF m < lT[s] THEN [ple EXCEPT ![s][Spare(s)] = v] ELSE ple
    BY <1>2, <1>4, <1>7 DEF Accept
<1>9. rec'[s][Spare(s)] = v /\ ple'[s][Spare(s)] = v
    <2>1. CASE m < lT[s]
        BY <2>1, <1>1, <1>2, <1>8 DEF TypeOK
    <2>2. CASE m = lT[s]
        BY <2>2, <1>3, <1>4, <1>6, <1>8
    <2> QED
        BY <2>1, <2>2, <1>3
<1>10. cur'[s] = Spare(s) /\ lT'[s] = 0 /\ cur' \in [Slots -> Buffers] /\ lT' \in [Slots -> 0 .. MaxRows]
    <2>1. 0 \in 0 .. MaxRows
        BY SlotEngineAssumption
    <2> QED
        BY <2>1, <1>1, <1>2 DEF Accept, TypeOK
<1>11. Trim(hist[s] \o Take(d, m)) = LastTwo(v)
    BY <1>2, <1>4, <1>5, <1>d, LastTwoOfConcat DEF Trim
<1>12. hist'[s] = LastTwo(v) /\ hist' \in [Slots -> UNION {[1 .. n -> Token] : n \in 0 .. 2}]
    <2>1. LastTwo(v) \in UNION {[1 .. n -> Token] : n \in 0 .. 2}
        BY <1>6, HistoryType
    <2>2. hist' = [hist EXCEPT ![s] = LastTwo(v)]
        BY <1>1, <1>11, <1>b DEF Accept, TypeOK
    <2> QED
        BY <2>1, <2>2, <1>1 DEF TypeOK
<1>13. TypeOK'
    <2>1. v \in Views
        BY <1>6 DEF Views
    <2>2. rec' \in [Slots -> [Buffers -> Views]] /\ ple' \in [Slots -> [Buffers -> Views]]
        BY <2>1, <1>1, <1>2, <1>8 DEF TypeOK
    <2> QED
        BY <2>2, <1>1, <1>10, <1>12 DEF Accept, TypeOK
<1>14. OwnKeys(kc'[s], v) /\ OwnPools(pooled'[s], v) /\ Len(v) <= MaxCtx
    <2>1. PICK n : n = Len(c) + m
        OBVIOUS
    <2>2. n \in 0 .. Len(w) /\ n \in Nat /\ Len(w) \in Nat /\ n <= Len(w) /\ v = Take(w, n) /\ Len(v) = n
          /\ MaxCtx \in Nat /\ R \in Nat \ {0}
        BY <2>1, <1>2, <1>3, <1>4, <1>5, <1>6, SlotEngineAssumption
    <2>3. /\ \A p \in 0 .. n - 1 : OwnKey(v, p) = OwnKey(w, p)
          /\ \A b \in 0 .. (n \div R) - 1 : OwnPool(v, b) = OwnPool(w, b)
          /\ n \div R <= Len(w) \div R
        BY <2>2, <1>6, PrefixOwns
    <2>4. n \div R \in Nat /\ Len(w) \div R \in Nat
        BY <2>2, BlockBounds
    <2>5. kc' = kc /\ pooled' = pooled
        BY DEF Accept
    <2>6. OwnKeys(kc[s], v)
        <3>1. \A p \in 0 .. n - 1 : p \in 0 .. Len(w) - 1
            BY <2>2
        <3> QED
            BY <3>1, <2>2, <2>3, <1>4 DEF OwnKeys
    <2>7. OwnPools(pooled[s], v)
        <3>1. \A b \in 0 .. (n \div R) - 1 : b \in 0 .. (Len(w) \div R) - 1
            BY <2>3, <2>4
        <3> QED
            BY <3>1, <2>2, <2>3, <1>4 DEF OwnPools
    <2> QED
        BY <2>2, <2>5, <2>6, <2>7, <1>4
<1>15. ASSUME NEW u \in Slots
       PROVE  Holds(u)'
    <2>1. CASE u = s
        BY <2>1, <1>6, <1>9, <1>10, <1>12, <1>14, SettledHolds
    <2>2. CASE u # s
        <3>1. rec'[u] = rec[u] /\ ple'[u] = ple[u]
            BY <2>2, <1>1, <1>8 DEF TypeOK
        <3> QED
            BY <2>2, <3>1, <1>1, HoldsFrame DEF Accept, TypeOK
    <2> QED
        BY <2>1, <2>2
<1>16. LogitsExact'
    BY <1>1 DEF Accept, LogitsExact
<1>17. Committed(s)' = v
    BY <1>9, <1>10 DEF Committed
<1> QED
    BY <1>13, <1>15, <1>16, <1>17, <1>a, <1>b, <1>d DEF EngineInv

LEMMA NextEngineInv == EngineInv /\ [Next]_vars => EngineInv'
<1> SUFFICES ASSUME EngineInv, [Next]_vars PROVE EngineInv'
    OBVIOUS
<1>1. ASSUME NEW s \in Slots, ResetSlot(s) PROVE EngineInv'
    BY <1>1, ResetEngineInv
<1>2. ASSUME NEW s \in Slots, NEW toks \in SeqsUpTo(Token, MaxPrefill), Prefill(s, toks) PROVE EngineInv'
    BY <1>2, PrefillEngineInv
<1>3. CASE Pass
    <2>1. PICK running \in SUBSET Slots \ {{}} : \E toks \in Candidates(running) :
                  \E first \in [running -> RowIds] : Forward(toks, first)
        BY <1>3 DEF Pass
    <2>2. PICK toks \in Candidates(running), first \in [running -> RowIds] : Forward(toks, first)
        BY <2>1
    <2>3. AllAccepted /\ running \in SUBSET Slots
        BY <1>3, <2>1 DEF Pass
    <2> QED
        BY <2>2, <2>3, ForwardEngineInv
<1>4. ASSUME NEW s \in Slots, NEW m \in 1 .. MaxRun, Accept(s, m) PROVE EngineInv'
    BY <1>4, AcceptEngineInv
<1>5. CASE UNCHANGED vars
    <2>1. TypeOK' /\ LogitsExact'
        BY <1>5 DEF vars, EngineInv, TypeOK, LogitsExact
    <2>2. ASSUME NEW s \in Slots PROVE Holds(s)'
        BY <1>5, HoldsFrame DEF vars, EngineInv
    <2> QED
        BY <2>1, <2>2 DEF EngineInv
<1> QED
    BY <1>1, <1>2, <1>3, <1>4, <1>5 DEF Next

LEMMA EngineAlways == Spec => []EngineInv
<1> QED
    BY InitEngineInv, NextEngineInv, PTL DEF Spec

-----------------------------------------------------------------------------
(* The results.                                                            *)

\* The buffers, histories and caches of every slot have their types (the state
\* of qwen4exp.h).
THEOREM EngineTypes == Spec => []TypeOK
<1>1. EngineInv => TypeOK
    BY DEF EngineInv
<1> QED
    BY <1>1, EngineAlways, PTL

\* Whatever passes, partial accepts, prompts and resets came before, the caches a
\* slot reads belong to the sequence it has committed (qwen4exp.cpp:319, 465-489).
THEOREM CachesAlwaysBelong == Spec => []CachesBelong
<1>1. EngineInv => CachesBelong
    <2> SUFFICES ASSUME EngineInv, NEW s \in Slots
                 PROVE  /\ ple[s][cur[s]] = Committed(s)
                        /\ hist[s] = LastTwo(Committed(s))
                        /\ \A p \in 0 .. Pos(s) - 1 : kc[s][p] = OwnKey(Committed(s), p)
                        /\ \A b \in 0 .. (Pos(s) \div R) - 1 : pooled[s][b] = OwnPool(Committed(s), b)
        BY DEF CachesBelong
    <2>a. PICK w : w = Held(s)
        OBVIOUS
    <2>b. PICK n : n = Pos(s)
        OBVIOUS
    <2>1. /\ w \in Seq(Token) /\ n \in Nat /\ n <= Len(w) /\ Take(w, n) = Committed(s) /\ Len(w) \in Nat
          /\ n \in 0 .. Len(w) /\ R \in Nat \ {0}
        BY <2>a, <2>b, HeldProperties, LenProperties, SlotEngineAssumption DEF EngineInv
    <2>2. /\ ple[s][cur[s]] = Committed(s) /\ hist[s] = LastTwo(Committed(s))
          /\ OwnKeys(kc[s], w) /\ OwnPools(pooled[s], w)
        BY <2>a DEF EngineInv, Holds
    <2>3. /\ \A p \in 0 .. n - 1 : OwnKey(Committed(s), p) = OwnKey(w, p)
          /\ \A b \in 0 .. (n \div R) - 1 : OwnPool(Committed(s), b) = OwnPool(w, b)
          /\ n \div R <= Len(w) \div R
        BY <2>1, PrefixOwns
    <2>4. n \div R \in Nat /\ Len(w) \div R \in Nat
        BY <2>1, BlockBounds
    <2>5. \A p \in 0 .. n - 1 : p \in 0 .. Len(w) - 1
        BY <2>1
    <2>6. \A b \in 0 .. (n \div R) - 1 : b \in 0 .. (Len(w) \div R) - 1
        BY <2>3, <2>4
    <2>7. \A p \in 0 .. n - 1 : kc[s][p] = OwnKey(Committed(s), p)
        BY <2>2, <2>3, <2>5 DEF OwnKeys
    <2>8. \A b \in 0 .. (n \div R) - 1 : pooled[s][b] = OwnPool(Committed(s), b)
        BY <2>2, <2>3, <2>6 DEF OwnPools
    <2> QED
        BY <2>2, <2>7, <2>8, <2>b
<1> QED
    BY <1>1, EngineAlways, PTL

\* Every row of every pass is computed from its own sequence alone.
THEOREM RowsAreExact == Spec => []LogitsExact
<1>1. EngineInv => LogitsExact
    BY DEF EngineInv
<1> QED
    BY <1>1, EngineAlways, PTL

-----------------------------------------------------------------------------
(* What a caller sees.                                                     *)

Committeds == [s \in Slots |-> Committed(s)]
Waiting(s) == IF lT[s] = 0 THEN << >> ELSE pend[s]
Waitings == [s \in Slots |-> Waiting(s)]

\* A step shows as what it does to the committed sequences and the waiting rows.
LEMMA StepShows ==
    ASSUME NEW s \in Slots, NEW v, NEW x,
           Committed(s)' = v, Waiting(s)' = x,
           \A u \in Slots \ {s} : Committed(u)' = Committed(u) /\ Waiting(u)' = Waiting(u)
    PROVE  /\ Committeds' = [Committeds EXCEPT ![s] = v]
           /\ Waitings' = [Waitings EXCEPT ![s] = x]
<1>1. \A u \in Slots : Committed(u)' = [Committeds EXCEPT ![s] = v][u]
    BY DEF Committeds
<1>2. \A u \in Slots : Waiting(u)' = [Waitings EXCEPT ![s] = x][u]
    BY DEF Waitings
<1>3. DOMAIN [Committeds EXCEPT ![s] = v] = Slots /\ DOMAIN [Waitings EXCEPT ![s] = x] = Slots
    BY DEF Committeds, Waitings
<1>4. Committeds' = [u \in Slots |-> Committed(u)'] /\ Waitings' = [u \in Slots |-> Waiting(u)']
    BY DEF Committeds, Waitings
<1>5. Committeds' = [Committeds EXCEPT ![s] = v]
    BY <1>1, <1>3, <1>4
<1>6. Waitings' = [Waitings EXCEPT ![s] = x]
    BY <1>2, <1>3, <1>4
<1> QED
    BY <1>5, <1>6

LEMMA ResetShows ==
    ASSUME EngineInv, NEW s \in Slots, ResetSlot(s)
    PROVE  Tokens!ResetSlot(s)
<1>1. TypeOK
    BY DEF EngineInv
<1>2. Committed(s)' = << >> /\ Waiting(s)' = << >>
    BY <1>1 DEF ResetSlot, TypeOK, Committed, Waiting, Buffers
<1>3. \A u \in Slots \ {s} : Committed(u)' = Committed(u) /\ Waiting(u)' = Waiting(u)
    BY <1>1 DEF ResetSlot, TypeOK, Committed, Waiting
<1>4. Committeds' = [Committeds EXCEPT ![s] = << >>] /\ Waitings' = [Waitings EXCEPT ![s] = << >>]
    BY <1>2, <1>3, StepShows
<1> QED
    BY <1>4 DEF Tokens!ResetSlot, Committeds, Waitings, Waiting

LEMMA PrefillShows ==
    ASSUME EngineInv, NEW s \in Slots, NEW toks \in SeqsUpTo(Token, MaxPrefill), Prefill(s, toks)
    PROVE  /\ Tokens!Accepted /\ toks \in Tokens!Chunks
           /\ Tokens!Prefill(s, toks)
<1>1. TypeOK /\ MaxCtx \in Nat /\ \A u \in Slots : lT[u] = 0
    BY SlotEngineAssumption DEF EngineInv, Prefill, AllAccepted
<1>2. Committed(s) \in Seq(Token) /\ Pos(s) \in Nat /\ cur[s] \in Buffers /\ Spare(s) \in Buffers
    BY <1>1, HeldProperties
<1>3. PICK n \in 1 .. MaxPrefill : toks \in [1 .. n -> Token]
    BY DEF SeqsUpTo
<1>4. n \in Nat /\ n >= 1 /\ toks \in Seq(Token) /\ Len(toks) = n
    <2>1. n \in Nat /\ n >= 1
        BY <1>3, SlotEngineAssumption
    <2> QED
        BY <1>3, <2>1, LenProperties, IsASeq
<1>5. Pos(s) + n <= MaxCtx
    BY <1>4 DEF Prefill
<1>6. toks \in Tokens!Chunks /\ toks # << >>
    <2>1. n \in 1 .. MaxCtx
        BY <1>1, <1>2, <1>4, <1>5
    <2>2. toks # << >>
        BY <1>4, EmptySeq
    <2> QED
        BY <1>3, <2>1, <2>2 DEF Tokens!Chunks
<1>7. Tokens!Accepted
    BY <1>1 DEF Tokens!Accepted
<1>8. Committed(s)' = Committed(s) \o toks /\ Waiting(s)' = << >>
    <2>1. /\ rec' = [rec EXCEPT ![s][Spare(s)] = Committed(s) \o toks]
          /\ cur' = [cur EXCEPT ![s] = Spare(s)] /\ lT' = [lT EXCEPT ![s] = 0]
        BY DEF Prefill
    <2>2. cur'[s] = Spare(s) /\ lT'[s] = 0 /\ rec'[s][Spare(s)] = Committed(s) \o toks
        BY <2>1, <1>1, <1>2 DEF TypeOK
    <2> QED
        BY <2>2 DEF Committed, Waiting
<1>9. \A u \in Slots \ {s} : Committed(u)' = Committed(u) /\ Waiting(u)' = Waiting(u)
    BY <1>1 DEF Prefill, TypeOK, Committed, Waiting
<1>10. /\ Committeds' = [Committeds EXCEPT ![s] = Committed(s) \o toks]
       /\ Waitings' = [Waitings EXCEPT ![s] = << >>]
    BY <1>8, <1>9, StepShows
<1>11. Committeds[s] = Committed(s)
    BY DEF Committeds
<1>12. Tokens!Prefill(s, toks)
    <2>1. Len(Committeds[s]) + Len(toks) <= MaxCtx
        BY <1>4, <1>5, <1>11 DEF Pos
    <2>2. Committeds' = [Committeds EXCEPT ![s] = @ \o toks]
        BY <1>10, <1>11
    <2> QED
        BY <1>6, <1>10, <2>1, <2>2 DEF Tokens!Prefill, Committeds, Waitings, Waiting
<1> QED
    BY <1>6, <1>7, <1>12

LEMMA PassShows ==
    ASSUME EngineInv, Pass
    PROVE  Tokens!Accepted /\ \E ss \in SUBSET Slots : \E reqs \in [ss -> Tokens!Rows] : Tokens!Forward(reqs)
<1>1. PICK running \in SUBSET Slots \ {{}} : \E toks \in Candidates(running) :
              \E first \in [running -> RowIds] : Forward(toks, first)
    BY DEF Pass
<1>2. PICK toks \in Candidates(running), first \in [running -> RowIds] : Forward(toks, first)
    BY <1>1
<1>3. Tokens!Accepted
    BY DEF Tokens!Accepted, Pass, AllAccepted
<1>4. toks \in [running -> SeqsUpTo(Token, MaxRun)] /\ DOMAIN toks = running
      /\ \A s \in running : Pos(s) + Len(toks[s]) <= MaxCtx
    BY <1>2 DEF Candidates
<1>5. SeqsUpTo(Token, MaxRun) \subseteq Tokens!Rows
    <2>1. \A i \in 1 .. MaxRun : i \in 1 .. MaxRows
        BY SlotEngineAssumption
    <2> QED
        BY <2>1 DEF SeqsUpTo, Tokens!Rows
<1>6. toks \in [running -> Tokens!Rows]
    BY <1>4, <1>5
<1>7. ASSUME NEW s \in Slots
      PROVE  Committed(s)' = Committed(s) /\ Waiting(s)' = IF s \in running THEN toks[s] ELSE Waiting(s)
    <2>1. cur[s] \in Buffers /\ Spare(s) \in Buffers /\ Spare(s) # cur[s] /\ cur' = cur
        BY <1>2, HeldProperties DEF EngineInv, Forward
    <2>2. rec[s] \in [Buffers -> Views]
        BY DEF EngineInv, TypeOK
    <2>3. rec'[s] = IF s \in running THEN [rec[s] EXCEPT ![Spare(s)] = Committed(s) \o toks[s]] ELSE rec[s]
        BY <1>2, <1>4 DEF Forward
    <2>4. Committed(s)' = Committed(s)
        BY <2>1, <2>2, <2>3 DEF Committed
    <2>5. CASE s \in running
        <3>1. lT'[s] = Len(toks[s]) /\ pend'[s] = toks[s]
            BY <2>5, <1>2, <1>4 DEF Forward
        <3>2. toks[s] \in SeqsUpTo(Token, MaxRun)
            BY <2>5, <1>4
        <3>3. Len(toks[s]) # 0
            <4>1. PICK n \in 1 .. MaxRun : toks[s] \in [1 .. n -> Token]
                BY <3>2 DEF SeqsUpTo
            <4>2. n \in Nat /\ n >= 1
                BY <4>1, SlotEngineAssumption
            <4>3. Len(toks[s]) = n
                BY <4>1, <4>2, LenProperties, IsASeq
            <4> QED
                BY <4>2, <4>3
        <3> QED
            BY <2>4, <2>5, <3>1, <3>3 DEF Waiting
    <2>6. CASE s \notin running
        <3>1. lT'[s] = lT[s] /\ pend'[s] = pend[s]
            BY <2>6, <1>2, <1>4 DEF Forward
        <3> QED
            BY <2>4, <2>6, <3>1 DEF Waiting
    <2> QED
        BY <2>5, <2>6
<1>8. Committeds' = Committeds /\ Waitings' = [s \in Slots |-> IF s \in running THEN toks[s] ELSE Waitings[s]]
    BY <1>7 DEF Committeds, Waitings
<1>9. \A s \in running : Len(Committeds[s]) + Len(toks[s]) <= MaxCtx
    BY <1>4 DEF Committeds, Pos
<1>10. Tokens!Forward(toks)
    BY <1>4, <1>8, <1>9 DEF Tokens!Forward, Tokens!FitsContext, Committeds, Waitings, Waiting
<1> QED
    BY <1>3, <1>6, <1>10

LEMMA AcceptShows ==
    ASSUME EngineInv, NEW s \in Slots, NEW m \in 1 .. MaxRun, Accept(s, m)
    PROVE  m \in 1 .. MaxRows /\ Tokens!Accept(s, m)
<1>1. TypeOK /\ m \in 1 .. lT[s] /\ lT[s] > 0 /\ Len(pend[s]) = lT[s] /\ m \in 1 .. MaxRows
    <2>1. m \in 1 .. lT[s] /\ lT[s] \in 0 .. MaxRows /\ TypeOK /\ Holds(s) /\ MaxRows \in Nat
        BY SlotEngineAssumption DEF EngineInv, Accept, TypeOK
    <2>2. lT[s] > 0 /\ m \in 1 .. MaxRows
        BY <2>1
    <2> QED
        BY <2>1, <2>2 DEF Holds
<1>2. Committed(s)' = Committed(s) \o Take(pend[s], m)
    BY AcceptEngineInv
<1>3. Waiting(s)' = << >>
    BY <1>1 DEF Accept, TypeOK, Waiting
<1>4. \A u \in Slots \ {s} : Committed(u)' = Committed(u) /\ Waiting(u)' = Waiting(u)
    <2> SUFFICES ASSUME NEW u \in Slots \ {s}
                 PROVE  Committed(u)' = Committed(u) /\ Waiting(u)' = Waiting(u)
        OBVIOUS
    <2>1. rec'[u] = rec[u]
        <3>1. rec' = [rec EXCEPT ![s][Spare(s)] = Replay(rec[s], s, m)] \/ rec' = rec
            BY DEF Accept
        <3> QED
            BY <3>1, <1>1 DEF TypeOK
    <2>2. cur'[u] = cur[u] /\ lT'[u] = lT[u] /\ pend' = pend
        BY <1>1 DEF Accept, TypeOK
    <2> QED
        BY <2>1, <2>2 DEF Committed, Waiting
<1>5. /\ Committeds' = [Committeds EXCEPT ![s] = Committed(s) \o Take(pend[s], m)]
      /\ Waitings' = [Waitings EXCEPT ![s] = << >>]
    BY <1>2, <1>3, <1>4, StepShows
<1>6. Committeds[s] = Committed(s) /\ Waitings[s] = pend[s]
    BY <1>1 DEF Committeds, Waitings, Waiting
<1>7. Committeds' = [Committeds EXCEPT ![s] = @ \o SubSeq(Waitings[s], 1, m)]
    BY <1>5, <1>6 DEF Take
<1>8. m \in 1 .. Len(Waitings[s])
    BY <1>1, <1>6
<1> QED
    BY <1>1, <1>5, <1>7, <1>8 DEF Tokens!Accept, Committeds, Waitings, Waiting

\* Swapping the double buffers, or replaying a prefix of the saved rows, commits
\* exactly the accepted tokens of the pass: the slots of qwen4exp.cpp do what the
\* serving loop takes an engine to do (TokenEngine), step by step.
THEOREM CommitsWhatWasAccepted == Spec => ImplementsTokenEngine
<1>1. Init => Tokens!EngineInit
    <2> SUFFICES ASSUME Init PROVE Tokens!EngineInit
        OBVIOUS
    <2>1. \A s \in Slots : Committed(s) = << >> /\ Waiting(s) = << >>
        BY DEF Init, Committed, Waiting, Buffers
    <2> QED
        BY <2>1 DEF Tokens!EngineInit, Waiting
<1>2. EngineInv /\ [Next]_vars => [Tokens!EngineNext]_(Tokens!engineVars)
    <2> SUFFICES ASSUME EngineInv, [Next]_vars
                 PROVE  Tokens!EngineNext \/ UNCHANGED Tokens!engineVars
        OBVIOUS
    <2>1. ASSUME NEW s \in Slots, ResetSlot(s) PROVE Tokens!EngineNext
        BY <2>1, ResetShows DEF Tokens!EngineNext
    <2>2. ASSUME NEW s \in Slots, NEW toks \in SeqsUpTo(Token, MaxPrefill), Prefill(s, toks)
          PROVE  Tokens!EngineNext
        BY <2>2, PrefillShows DEF Tokens!EngineNext
    <2>3. CASE Pass
        BY <2>3, PassShows DEF Tokens!EngineNext
    <2>4. ASSUME NEW s \in Slots, NEW m \in 1 .. MaxRun, Accept(s, m) PROVE Tokens!EngineNext
        BY <2>4, AcceptShows DEF Tokens!EngineNext
    <2>5. CASE UNCHANGED vars
        BY <2>5 DEF vars, Tokens!engineVars, Committed
    <2> QED
        BY <2>1, <2>2, <2>3, <2>4, <2>5 DEF Next
<1> QED
    BY <1>1, <1>2, EngineAlways, PTL DEF Spec, ImplementsTokenEngine, Tokens!EngineSpec
=============================================================================
