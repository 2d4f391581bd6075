--------------------------- MODULE WeightFormats ---------------------------
(***************************************************************************)
(* Where the bits of a weight are: in the blocks of a GGUF, as the         *)
(* reference of engine/src/quant.h reads them, in the rows the two models  *)
(* put on the device (to_lin, upload_lin), and as the dequantising kernel  *)
(* of engine/kernels/gemm.hip reads those.                                 *)
(*                                                                         *)
(* A number is the sequence of its bits, the lowest first; a bit is any    *)
(* name for the place it was stored at.  Memory is a function from 0 on to *)
(* the eight bits of each byte.  A weight is what its value is computed    *)
(* from: its own bits q, a scale d, and what a group of weights shares, s  *)
(* and m.  Offsets the formats subtract and their code books are left out. *)
(***************************************************************************)
EXTENDS Integers, Sequences, FiniteSets, SequencesExt, FiniteSetsExt

\* (x >> from) & (2^n - 1)
Bits(x, from, n) == SubSeq(x, from + 1, from + n)

\* A number of n bytes at place o of memory w.
Num(w, o, n) == [k \in 1 .. 8 * n |-> w[o + (k - 1) \div 8][1 + ((k - 1) % 8)]]

Weight(d, s, q, m) == [d |-> d, s |-> s, q |-> q, m |-> m]
None == << >>

\* gtype_block: weights and bytes of a block.
GtypeBlock(type) ==
    CASE type = "F32" -> <<1, 4>>
      [] type \in {"F16", "BF16"} -> <<1, 2>>
      [] type = "Q5_0" -> <<32, 22>>
      [] type = "Q5_1" -> <<32, 24>>
      [] type = "Q8_0" -> <<32, 34>>
      [] type = "IQ4_NL" -> <<32, 18>>
      [] type \in {"Q3_K", "IQ3_S"} -> <<256, 110>>
      [] type = "Q4_K" -> <<256, 144>>
      [] type = "Q5_K" -> <<256, 176>>
      [] type = "Q6_K" -> <<256, 210>>
      [] type = "IQ4_XS" -> <<256, 136>>

-----------------------------------------------------------------------------
(* The reference: the weights of a block at place o                        *)

\* get_scale_min_k4
GetScaleMin(w, sc, j) ==
    IF j < 4
    THEN [s |-> Bits(w[sc + j], 0, 6), m |-> Bits(w[sc + j + 4], 0, 6)]
    ELSE [s |-> Bits(w[sc + j + 4], 0, 4) \o Bits(w[sc + j - 4], 6, 2),
          m |-> Bits(w[sc + j + 4], 4, 4) \o Bits(w[sc + j], 6, 2)]

\* Eight times 32 weights: the low halves of 32 bytes, then their high halves, each
\* with "more" higher bits in the 32 bytes at o + 16.
DequantHalves(w, o, qs, more) ==
    FlattenSeq([n \in 1 .. 8 |->
        LET is == n - 1
            k == GetScaleMin(w, o + 4, is)
        IN  [l \in 1 .. 32 |->
                Weight(Num(w, o, 2), k.s,
                       Bits(w[qs + 32 * (is \div 2) + l - 1], 4 * (is % 2), 4)
                       \o Bits(w[o + 15 + l], is, more),
                       Num(w, o + 2, 2) \o k.m)]])

DequantQ4K(w, o) == DequantHalves(w, o, o + 16, 0)
DequantQ5K(w, o) == DequantHalves(w, o, o + 48, 1)

\* Twice 128 weights, whose four quarters share bytes.
DequantQ6K(w, o) ==
    FlattenSeq([n \in 1 .. 2 |-> [i \in 1 .. 128 |->
        LET l == (i - 1) % 32
            quarter == (i - 1) \div 32
        IN  Weight(Num(w, o + 208, 2), w[o + 192 + 8 * (n - 1) + l \div 16 + 2 * quarter],
                   Bits(w[o + 64 * (n - 1) + l + 32 * (quarter % 2)], 4 * (quarter \div 2), 4)
                       \o Bits(w[o + 128 + 32 * (n - 1) + l], 2 * quarter, 2), None)]])

DequantQ8(w, o) == [j \in 1 .. 32 |-> Weight(Num(w, o, 2), None, w[o + 1 + j], None)]

\* The first 16 weights are the low halves of 16 bytes, the others the high halves.
Halves(w, qs, i) == Bits(w[qs + ((i - 1) % 16)], 4 * ((i - 1) \div 16), 4)

DequantQ51(w, o) ==
    [i \in 1 .. 32 |-> Weight(Num(w, o, 2), None,
        Halves(w, o + 8, i) \o Bits(Num(w, o + 4, 4), i - 1, 1), Num(w, o + 2, 2))]

DequantIq4Nl(w, o) == [i \in 1 .. 32 |-> Weight(Num(w, o, 2), None, Halves(w, o + 2, i), None)]

DequantIq4Xs(w, o) ==
    FlattenSeq([n \in 1 .. 8 |->
        LET ib == n - 1
            ls == Bits(w[o + 4 + ib \div 2], 4 * (ib % 2), 4) \o Bits(Num(w, o + 2, 2), 2 * ib, 2)
        IN  [i \in 1 .. 32 |-> Weight(Num(w, o, 2), ls, Halves(w, o + 8 + 16 * ib, i), None)]])

\* The scales of Q3_K: a half of one of eight bytes, and two bits of one of four.
Q3Scale(w, sc, is) ==
    LET word == is \div 4
    IN  Bits(w[sc + 4 * (word % 2) + (is % 4)], 4 * (word \div 2), 4) \o Bits(w[sc + 8 + (is % 4)], 2 * word, 2)

DequantQ3K(w, o) ==
    FlattenSeq([k \in 1 .. 16 |->
        LET is == k - 1
            n == is \div 8
            j == (is % 8) \div 2
            At(l) == 16 * (is % 2) + l - 1
        IN  [l \in 1 .. 16 |->
                Weight(Num(w, o + 108, 2), Q3Scale(w, o + 96, is),
                       Bits(w[o + 32 + 32 * n + At(l)], 2 * j, 2) \o Bits(w[o + At(l)], 4 * n + j, 1), None)]])

\* Groups of four weights are the entries of one word of the grid, each with a sign.
DequantIq3S(w, o) ==
    FlattenSeq([k \in 1 .. 64 |->
        LET ib == (k - 1) \div 8
            word == (k - 1) % 8
            index == w[o + 2 + k - 1] \o Bits(w[o + 66 + ib], word, 1)
        IN  [j \in 1 .. 4 |->
                Weight(Num(w, o, 2), Bits(w[o + 106 + ib \div 2], 4 * (ib % 2), 4),
                       Bits(w[o + 74 + (k - 1) \div 2], 4 * (word % 2) + j - 1, 1), index)]])

\* dequant_row
DequantRow(type, w, blocks) ==
    LET size == GtypeBlock(type)[2]
        Dequant(o) ==
            CASE type = "Q4_K" -> DequantQ4K(w, o)
              [] type = "Q5_K" -> DequantQ5K(w, o)
              [] type = "Q6_K" -> DequantQ6K(w, o)
              [] type = "Q3_K" -> DequantQ3K(w, o)
              [] type = "IQ3_S" -> DequantIq3S(w, o)
              [] type = "IQ4_XS" -> DequantIq4Xs(w, o)
              [] type = "Q8_0" -> DequantQ8(w, o)
              [] type = "Q5_1" -> DequantQ51(w, o)
              [] type = "IQ4_NL" -> DequantIq4Nl(w, o)
    IN  IF GtypeBlock(type)[1] = 1
        THEN [e \in 1 .. blocks |-> Weight(None, None, Num(w, size * (e - 1), size), None)]
        ELSE FlattenSeq([b \in 1 .. blocks |-> Dequant(size * (b - 1))])

-----------------------------------------------------------------------------
(* Rows on the device                                                      *)

\* The bytes of a sequence as memory.
Memory(bytes) == [i \in 0 .. Len(bytes) - 1 |-> bytes[i + 1]]

\* One part after the other, each of all blocks: parts are <<from, length>>.
Repack(w, blocks, size, parts) ==
    Memory(FlattenSeq([p \in DOMAIN parts |->
        [k \in 1 .. blocks * parts[p][2] |->
            w[size * ((k - 1) \div parts[p][2]) + parts[p][1] + ((k - 1) % parts[p][2])]]]))

RepackQ6K(w, blocks) == Repack(w, blocks, 210, <<<<0, 128>>, <<128, 64>>, <<192, 16>>, <<208, 2>>>>)
RepackQ8(w, blocks) == Repack(w, blocks, 34, <<<<2, 32>>, <<0, 2>>>>)
RepackQ51(w, blocks) == Repack(w, blocks, 24, <<<<8, 16>>, <<4, 4>>, <<0, 2>>, <<2, 2>>>>)

\* Bits that requantising makes: k of the weight e, or of a number of block b.
Fresh(kind, i, n) == [k \in 1 .. n |-> <<kind, i, k>>]
Bytes(x) == [k \in 1 .. Len(x) \div 8 |-> Bits(x, 8 * (k - 1), 8)]

\* The bits of -16 d, a new number, named after those of d.
MinusSixteen(d) == Fresh("m", d, 16)

\* A block of Q5_0 has no m: each weight is d (q - 16).
RepackQ50(w, blocks) ==
    LET m == FlattenSeq([b \in 1 .. blocks |-> Bytes(MinusSixteen(Num(w, 22 * (b - 1), 2)))])
        end == 22 * blocks
    IN  Repack(w, blocks, 22, <<<<6, 16>>, <<2, 4>>, <<0, 2>>>>)
            @@ [i \in end .. end + 2 * blocks - 1 |-> m[i - end + 1]]

\* quantize_row_q8_0_soa, of a row of n weights
QuantizeQ8(n) ==
    Memory([e \in 1 .. n |-> Fresh("q", e - 1, 8)]
               \o FlattenSeq([b \in 1 .. n \div 32 |-> Bytes(Fresh("d", b - 1, 16))]))

\* quantize_row_q5_1_soa
QuantizeQ51(n) ==
    LET q(e) == Fresh("q", e, 5)
        qs == [k \in 1 .. n \div 2 |->
                LET e == 32 * ((k - 1) \div 16) + ((k - 1) % 16)
                IN  Bits(q(e), 0, 4) \o Bits(q(e + 16), 0, 4)]
        qh == FlattenSeq([b \in 1 .. n \div 32 |-> Bytes([i \in 1 .. 32 |-> q(32 * (b - 1) + i - 1)[5]])])
        Scales(kind) == FlattenSeq([b \in 1 .. n \div 32 |-> Bytes(Fresh(kind, b - 1, 16))])
    IN  Memory(qs \o qh \o Scales("d") \o Scales("m"))

\* A device row, its format, and whether its weights are new numbers.
Row(fmt, w, new) == [fmt |-> fmt, w |-> w, new |-> new]

Same(type, w, blocks) ==
    CASE type = "Q6_K" -> Row("Q6_K_SOA", RepackQ6K(w, blocks), FALSE)
      [] type = "Q8_0" -> Row("Q8_0_SOA", RepackQ8(w, blocks), FALSE)
      [] type = "Q5_1" -> Row("Q5_1_SOA", RepackQ51(w, blocks), FALSE)
      [] OTHER -> Row(type, w, FALSE)

\* upload_lin of the 27B
UploadLin(type, w, blocks) ==
    IF type \in {"Q4_K", "Q5_K", "IQ4_XS", "Q6_K", "Q8_0"} THEN Same(type, w, blocks)
    ELSE Row("Q8_0_SOA", QuantizeQ8(blocks * GtypeBlock(type)[1]), TRUE)

\* to_lin of Flash-Next; dense weights may go from eight bits to five.
ToLin(type, w, blocks, dense) ==
    LET n == blocks * GtypeBlock(type)[1]
    IN  CASE type = "Q8_0" /\ dense -> Row("Q5_1_SOA", QuantizeQ51(n), TRUE)
          [] type = "Q8_0" /\ ~dense -> Same(type, w, blocks)
          [] type = "Q5_0" -> Row("Q5_1_SOA", RepackQ50(w, blocks), FALSE)
          [] type \in {"Q4_K", "Q5_K", "IQ4_XS", "Q6_K", "Q5_1"} -> Same(type, w, blocks)
          [] OTHER -> Row("Q8_0_SOA", QuantizeQ8(n), TRUE)

-----------------------------------------------------------------------------
(* The kernel: element e of block b of a row of nb blocks of 256           *)

\* Faulty variant: the two high bits of the later scales come from the next ones.
ScaleMinSwapped(w, sc, is) ==
    IF is < 4 THEN GetScaleMin(w, sc, is)
    ELSE [s |-> Bits(w[sc + is + 4], 0, 4) \o Bits(w[sc + is], 6, 2),
          m |-> Bits(w[sc + is + 4], 4, 4) \o Bits(w[sc + is - 4], 6, 2)]

ScaleMin(w, sc, is) ==
    IF is < 4
    THEN [s |-> Bits(w[sc + is], 0, 6), m |-> Bits(w[sc + is + 4], 0, 6)]
    ELSE [s |-> Bits(w[sc + is + 4], 0, 4) \o Bits(w[sc + is - 4], 6, 2),
          m |-> Bits(w[sc + is + 4], 4, 4) \o Bits(w[sc + is], 6, 2)]

\* Q4_K and Q5_K, whose blocks have the high bits before qs.
ElemK(w, blk, qs, e, high) ==
    LET j == e \div 64
        l == e % 64
        is == 2 * j + (IF l >= 32 THEN 1 ELSE 0)
        k == ScaleMin(w, blk + 4, is)
    IN  Weight(Num(w, blk, 2), k.s,
               Bits(w[qs + 32 * j + (l % 32)], IF l < 32 THEN 0 ELSE 4, 4)
                   \o (IF high THEN Bits(w[blk + 16 + (l % 32)], is, 1) ELSE None),
               Num(w, blk + 2, 2) \o k.m)

ElemIq4Xs(w, blk, e) ==
    LET ib == e \div 32
        l == e % 32
    IN  Weight(Num(w, blk, 2),
               Bits(w[blk + 4 + ib \div 2], 4 * (ib % 2), 4) \o Bits(Num(w, blk + 2, 2), 2 * ib, 2),
               Bits(w[blk + 8 + 16 * ib + (l % 16)], IF l < 16 THEN 0 ELSE 4, 4), None)

ElemQ6K(w, b, e, nb) ==
    LET n == e \div 128
        r == e % 128
        grp == r \div 32
        l == r % 32
        ql == 128 * b + 64 * n + l
    IN  Weight(Num(w, 208 * nb + 2 * b, 2), w[192 * nb + 16 * b + 8 * n + r \div 16],
               Bits(w[IF grp \in {0, 2} THEN ql ELSE ql + 32], IF grp < 2 THEN 0 ELSE 4, 4)
                   \o Bits(w[128 * nb + 64 * b + 32 * n + l], 2 * grp, 2), None)

ElemQ51(w, ib, l, K) ==
    LET dp == K \div 2 + K \div 8
    IN  Weight(Num(w, dp + 2 * ib, 2), None,
               Bits(w[16 * ib + (l % 16)], IF l < 16 THEN 0 ELSE 4, 4) \o Bits(Num(w, K \div 2 + 4 * ib, 4), l, 1),
               Num(w, dp + 2 * (K \div 32) + 2 * ib, 2))

\* dq_elem
DqElem(fmt, w, b, e, nb) ==
    LET K == 256 * nb
    IN  CASE fmt = "Q4_K" -> ElemK(w, 144 * b, 144 * b + 16, e, FALSE)
          [] fmt = "Q5_K" -> ElemK(w, 176 * b, 176 * b + 48, e, TRUE)
          [] fmt = "IQ4_XS" -> ElemIq4Xs(w, 136 * b, e)
          [] fmt = "Q6_K_SOA" -> ElemQ6K(w, b, e, nb)
          [] fmt = "Q5_1_SOA" -> ElemQ51(w, 8 * b + e \div 32, e % 32, K)
          [] fmt = "Q8_0_SOA" -> Weight(Num(w, K + 16 * b + 2 * (e \div 32), 2), None, w[256 * b + e], None)
=============================================================================
