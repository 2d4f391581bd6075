----------------------------- MODULE ModelLoad -----------------------------
(***************************************************************************)
(* Weights on their way to the device: the table of tensors joined from    *)
(* the shards of a GGUF (engine/src/gguf.cpp), a tensor read with pread,   *)
(* and the bump allocator all weights of the 27B and of its draft model    *)
(* come from (engine/src/qwen35.cpp, arena_alloc and the uploads).         *)
(*                                                                         *)
(* A shard is [header, align, size, tensors]: the bytes before the tensor  *)
(* data, general.alignment (0 if it does not say), the file's length and   *)
(* what its table lists.  Throws stands for an exception, which ends the *)
(* program: nothing catches it while a model is loaded.                    *)
(***************************************************************************)
EXTENDS Integers, Sequences, FiniteSets, SequencesExt, FiniteSetsExt, Functions

CONSTANTS
    DefaultAlign,           \* alignment of tensor data, 32
    FirstArena, NextArena,  \* bytes of an arena, 18 and 4 GiB
    Big,                    \* from this size on a region gets the coarse alignment, 1 MiB
    Fine, Coarse,           \* 256 bytes and 2 MiB
    Throws,                 \* no value: an exception was thrown
    Requantized(_)          \* bytes of a tensor after requantisation to Q8_0

ASSUME LoadAssumption ==
    /\ {DefaultAlign, FirstArena, NextArena, Big, Fine, Coarse} \subseteq Nat \ {0}

Up(n, align) == ((n + align - 1) \div align) * align

-----------------------------------------------------------------------------
(* The tensor table                                                        *)

\* Faulty variant: a key that was read is kept, as those of split.* are.
FirstAlign(shard, kv) ==
    CASE kv # 0 -> kv
      [] kv = 0 /\ shard.align # 0 -> shard.align
      [] OTHER -> DefaultAlign

\* kv_ is shared by the shards: the alignment last read is in force, also for a
\* shard that names none.
Align(shard, kv) ==
    CASE shard.align # 0 -> shard.align
      [] shard.align = 0 /\ kv # 0 -> kv
      [] OTHER -> DefaultAlign

\* open_one: the state [kv, tensors] with the tensors of shard number m.
OpenOne(state, shard, m) ==
    LET align == Align(shard, state.kv)
        start == Up(shard.header, align)
        Placed(t) == [name |-> t.name, type |-> t.type, nbytes |-> t.nbytes,
                      map |-> m, off |-> start + t.off]
        added == [k \in DOMAIN shard.tensors |-> Placed(shard.tensors[k])]
    IN  IF \E k \in DOMAIN added : added[k].off + added[k].nbytes > shard.size
        THEN Throws
        ELSE [kv |-> IF shard.align = 0 THEN state.kv ELSE shard.align, tensors |-> state.tensors \o added]

Open(shards) ==
    FoldLeft(LAMBDA state, m : IF state = Throws THEN state ELSE OpenOne(state, shards[m], m),
             [kv |-> 0, tensors |-> << >>], [m \in DOMAIN shards |-> m])

\* index_ keeps the last tensor of a name.
Find(state, name) ==
    LET at == {i \in DOMAIN state.tensors : state.tensors[i].name = name}
    IN  IF at = {} THEN Throws ELSE state.tensors[Max(at)]

\* read_tensor: the places in the file whose bytes fill the destination, when
\* the i-th pread returns at most reads[i] (again from the start after the
\* last), and Throws when one returns nothing.
ReadTensor(t, reads) ==
    LET from[i \in Nat, done \in Nat] ==
            LET want == t.nbytes - done
                r == Min({want, reads[1 + ((i - 1) % Len(reads))]})
            IN  CASE want <= 0 -> << >>
                  [] want > 0 /\ r <= 0 -> <<Throws>>
                  [] OTHER -> [k \in 1 .. r |-> <<t.map, t.off + done + k>>] \o from[i + 1, done + r]
    IN  from[1, 0]

-----------------------------------------------------------------------------
(* The arena                                                               *)

NoArena == [number |-> 0, off |-> 0, cap |-> 0]

\* arena_alloc: what is left of an arena that is too full is given up.
Alloc(before, bytes) ==
    LET arena == IF before.number = 0 THEN [number |-> 1, off |-> 0, cap |-> FirstArena] ELSE before
        off == Up(arena.off, IF bytes >= Big THEN Coarse ELSE Fine)
        fits == off + bytes <= arena.cap
    IN  IF fits
        THEN [arena |-> [arena EXCEPT !.off = off + bytes], number |-> arena.number, at |-> off]
        ELSE IF bytes > NextArena THEN Throws
        ELSE [arena |-> [number |-> arena.number + 1, off |-> bytes, cap |-> NextArena],
              number |-> arena.number + 1, at |-> 0]

\* The bytes a tensor has on the device: formats without a kernel are
\* requantised, the others are copied or their rows repacked.
DeviceBytes(t) == IF t.type = "other" THEN Requantized(t.nbytes) ELSE t.nbytes

\* upload_lin and upload_f32: read the tensor whole, convert it, copy it to a
\* region of its own.  A device holds [arena, regions] or Throws.
Upload(device, state, name, reads) ==
    LET t == Find(state, name)
        stage == ReadTensor(t, reads)
        region == Alloc(device.arena, DeviceBytes(t))
    IN  IF t = Throws \/ Contains(stage, Throws) \/ region = Throws
        THEN Throws
        ELSE [arena |-> region.arena,
              regions |-> Append(device.regions,
                  [name |-> name, number |-> region.number, at |-> region.at,
                   bytes |-> DeviceBytes(t), stage |-> stage])]

\* A constructor loads its tensors by name, one after the other.
Load(shards, names, reads) ==
    LET state == Open(shards)
    IN  IF state = Throws THEN state
        ELSE FoldLeft(LAMBDA device, name : IF device = Throws THEN device ELSE Upload(device, state, name, reads),
                      [arena |-> NoArena, regions |-> << >>], names)
=============================================================================
