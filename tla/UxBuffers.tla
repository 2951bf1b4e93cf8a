------------------------------ MODULE UxBuffers ------------------------------
(***************************************************************************)
(* The typed buffers of numbers (src/runtime_ext/uxmathcore/uxmathcore.c): a *)
(* block of memory that grows and never shrinks, of which the first elements *)
(* count.  A number is counted in halves, so that the element types differ:  *)
(* a whole one loses the half.  A program does not free a buffer twice, nor   *)
(* append a buffer to itself, and stores numbers that fit: what C leaves      *)
(* undefined is out.                                                       *)
(***************************************************************************)
EXTENDS Integers, Sequences, FiniteSets, FiniteSetsExt, SequencesExt

CONSTANTS
  BfTypes,       \* bound: the element types that are used
  BfReal,        \* of them F32 and F64, which keep halves
  BfUnsigned,    \* of them the ones without negative numbers
  BfValues,      \* bound: the numbers a program stores, in halves
  BfLength,      \* bound: the elements a buffer gets to have
  BfBuffers,     \* bound: the buffers that are made
  BfCalls        \* bound: the calls that change a buffer after it was made

ASSUME BfAssumption ==
  /\ BfReal \cup BfUnsigned \subseteq BfTypes /\ BfReal \cap BfUnsigned = {}
  /\ BfValues \subseteq Int /\ {BfLength, BfBuffers, BfCalls} \subseteq Nat

VARIABLES
  bfBuffers,     \* the buffers made: type, count, memory of the capacity, alive
  bfContents,    \* for the property: the elements the calls gave to each
  bfCalls        \* the calls counted by the bound

bfVars == <<bfBuffers, bfContents, bfCalls>>

-----------------------------------------------------------------------------
Alive == {b \in DOMAIN bfBuffers : bfBuffers[b].alive}
Elements(b) == SubSeq(b.memory, 1, b.count)
Zeros(n) == [i \in 1..n |-> 0]

(* set_from_f64_raw: a whole type cuts towards zero. *)
CutHalves(v) == (v \div 2) * 2 + (IF v < 0 /\ v % 2 # 0 THEN 2 ELSE 0)
Raw(type, v) == IF type \in BfReal THEN v ELSE CutHalves(v)
Fits(type, v) == type \in BfUnsigned => CutHalves(v) >= 0

(* uxmathcore_buffer_create_capacity: count and capacity are put in order. *)
Created(type, count, capacity) ==
  [type |-> type, count |-> count, memory |-> Zeros(Max({count, capacity, 1})), alive |-> TRUE]
CreatedFor(type, count) == Created(type, count, IF count > 0 THEN count ELSE 8)

(* ensure_capacity doubles; the new memory is zero.  Memory may run out, and   *)
(* a call that fails has changed nothing.                                    *)
Doubled(capacity, need) ==
  LET c[k \in 0..need] ==
        IF k = 0 THEN capacity ELSE IF c[k - 1] >= need THEN c[k - 1] ELSE 2 * c[k - 1]
  IN  c[need]
Ensured(b, need) ==
  [b EXCEPT !.memory = @ \o Zeros(Doubled(Len(@), need) - Len(@))]

(* Mutant of Resized: ensure_capacity is relied on for the zeros. *)
ResizedOnly(b, count) == [Ensured(b, count) EXCEPT !.count = count]

(* uxmathcore_buffer_resize: what comes into sight is zero. *)
Resized(b, count) ==
  LET e == Ensured(b, count)
  IN  [e EXCEPT !.count = count,
                !.memory = [i \in DOMAIN e.memory |->
                              IF i \in (b.count + 1)..count THEN 0 ELSE e.memory[i]]]

(* The elements of b from place start on become values. *)
Stored(b, start, values) ==
  [b EXCEPT !.memory = [i \in DOMAIN @ |->
      IF i - start \in DOMAIN values THEN Raw(b.type, values[i - start]) ELSE @[i]]]

-----------------------------------------------------------------------------
Make(buffer, contents) ==
  /\ Len(bfBuffers) < BfBuffers /\ Len(contents) <= BfLength
  /\ bfBuffers' = Append(bfBuffers, buffer)
  /\ bfContents' = Append(bfContents, contents)
  /\ UNCHANGED bfCalls

Change(b, buffer, contents) ==
  /\ bfCalls < BfCalls /\ Len(contents) <= BfLength
  /\ bfBuffers' = [bfBuffers EXCEPT ![b] = buffer]
  /\ bfContents' = [bfContents EXCEPT ![b] = contents]
  /\ bfCalls' = bfCalls + 1

CreateCapacity(type, count, capacity) == Make(Created(type, count, capacity), Zeros(count))
Create(type, count) == Make(CreatedFor(type, count), Zeros(count))

FreeBuffer(b) ==
  /\ b \in Alive
  /\ bfBuffers' = [bfBuffers EXCEPT ![b] = [@ EXCEPT !.alive = FALSE, !.memory = <<>>, !.count = 0]]
  /\ bfContents' = [bfContents EXCEPT ![b] = <<>>]
  /\ UNCHANGED bfCalls

(* clear leaves the memory as it is. *)
Clear(b) == b \in Alive /\ Change(b, [bfBuffers[b] EXCEPT !.count = 0], <<>>)

Padded(contents, n) ==
  [i \in 1..n |-> IF i \in DOMAIN contents THEN contents[i] ELSE 0]
ResizeTo(b, n) ==
  b \in Alive /\ Change(b, Resized(bfBuffers[b], n), Padded(bfContents[b], n))
Reserve(b, n) == b \in Alive /\ Change(b, Ensured(bfBuffers[b], n), bfContents[b])
FillZero(b) ==
  /\ b \in Alive
  /\ Change(b, Stored(bfBuffers[b], 0, Zeros(bfBuffers[b].count)), Zeros(Len(bfContents[b])))

(* clone keeps the capacity; slice and cast take the capacity of a new buffer. *)
CloneOf(b) ==
  LET s == bfBuffers[b]
  IN  b \in Alive /\ Make(Stored(Created(s.type, s.count, Len(s.memory)), 0, Elements(s)), bfContents[b])
SliceOf(b, start, n) ==
  LET s == bfBuffers[b]
      part == SubSeq(s.memory, start + 1, start + n)
  IN  /\ b \in Alive /\ start + n <= s.count
      /\ Make(Stored(CreatedFor(s.type, n), 0, part), SubSeq(bfContents[b], start + 1, start + n))
Cast(b, type) ==
  LET s == bfBuffers[b]
  IN  /\ b \in Alive /\ \A i \in 1..s.count : Fits(type, s.memory[i])
      /\ Make(Stored(CreatedFor(type, s.count), 0, Elements(s)),
              [i \in DOMAIN bfContents[b] |-> Raw(type, bfContents[b][i])])

(* The types are the same. *)
CopyTo(b, d) ==
  /\ {b, d} \subseteq Alive /\ bfBuffers[b].type = bfBuffers[d].type
  /\ LET s == bfBuffers[b]
     IN  Change(d, Stored(Resized(bfBuffers[d], s.count), 0, Elements(s)), bfContents[b])
AppendTo(b, d) ==
  /\ {b, d} \subseteq Alive /\ b # d /\ bfBuffers[b].type = bfBuffers[d].type
  /\ LET s == bfBuffers[b]
         old == bfBuffers[d].count
     IN  Change(d, Stored(Resized(bfBuffers[d], old + s.count), old, Elements(s)),
                bfContents[d] \o bfContents[b])

(* The setters of every kind go through set_f64, which resizes to the index:   *)
(* the elements after it are gone.                                           *)
SetAt(b, i, v) ==
  /\ b \in Alive /\ Fits(bfBuffers[b].type, v)
  /\ Change(b, Stored(Resized(bfBuffers[b], i + 1), i, <<v>>),
            Append(Padded(bfContents[b], i), Raw(bfBuffers[b].type, v)))
Push(b, v) == b \in Alive /\ SetAt(b, bfBuffers[b].count, v)
FillWith(b, v) ==
  /\ b \in Alive /\ Fits(bfBuffers[b].type, v)
  /\ LET all(n) == [i \in 1..n |-> v]
     IN  Change(b, Stored(bfBuffers[b], 0, all(bfBuffers[b].count)),
                [i \in DOMAIN bfContents[b] |-> Raw(bfBuffers[b].type, v)])
CopyFromMemory(b, values) ==
  /\ b \in Alive /\ \A i \in DOMAIN values : Raw(bfBuffers[b].type, values[i]) = values[i]
  /\ Change(b, Stored(Resized(bfBuffers[b], Len(values)), 0, values), values)

(* vec_add, sub, scale and axpy: element by element, each written before the   *)
(* next is read, into a buffer that may be one of the two.                   *)
Combined(x, y, alpha, beta) ==
  [i \in 1..Len(x) |-> alpha * x[i] + beta * y[i]]
Combine(x, y, out, alpha, beta) ==
  LET a == Elements(bfBuffers[x])
      c == Elements(bfBuffers[y])
      o == bfBuffers[out]
  IN  /\ {x, y, out} \subseteq Alive /\ Len(a) = Len(c)
      /\ \A i \in DOMAIN a : Fits(o.type, Combined(a, c, alpha, beta)[i])
      /\ Change(out, Stored(Resized(o, Len(a)), 0, Combined(a, c, alpha, beta)),
                [i \in DOMAIN a |->
                   Raw(o.type, Combined(bfContents[x], bfContents[y], alpha, beta)[i])])

(* vec_dot and minmax, in quarters and halves. *)
DotBuffer(a, b) == MapThenSumSet(LAMBDA i : a.memory[i] * b.memory[i], 1..a.count)
MinMax(b) ==
  FoldLeft(LAMBDA mm, v : <<IF v < mm[1] THEN v ELSE mm[1], IF v > mm[2] THEN v ELSE mm[2]>>,
           <<b.memory[1], b.memory[1]>>, SubSeq(b.memory, 2, b.count))

BfInit == bfBuffers = <<>> /\ bfContents = <<>> /\ bfCalls = 0

BfNext ==
  \/ \E type \in BfTypes, n \in 0..BfLength :
       \/ Create(type, n) \/ \E capacity \in 0..BfLength : CreateCapacity(type, n, capacity)
       \/ \E b \in 1..BfBuffers : Cast(b, type)
  \/ \E b \in 1..BfBuffers :
       \/ FreeBuffer(b) \/ Clear(b) \/ FillZero(b) \/ CloneOf(b)
       \/ \E n \in 0..BfLength :
            \/ ResizeTo(b, n) \/ Reserve(b, n)
            \/ \E start \in 0..BfLength : SliceOf(b, start, n)
       \/ \E v \in BfValues :
            \/ Push(b, v) \/ FillWith(b, v) \/ CopyFromMemory(b, <<v, 0>>)
            \/ \E i \in 0..(BfLength - 1) : SetAt(b, i, v)
       \/ \E d \in 1..BfBuffers :
            \/ CopyTo(b, d) \/ AppendTo(b, d)
            \/ \E out \in {b, d}, beta \in {1, -1, 0} : Combine(b, d, out, 2, beta)

BfSpec == BfInit /\ [][BfNext]_bfVars

-----------------------------------------------------------------------------
(* Properties *)

(* Whatever the calls before, a buffer shows what the calls gave it: nothing   *)
(* that was cleared or cut off comes back into sight when it grows again.     *)
BuffersShown ==
  \A b \in Alive :
    /\ bfBuffers[b].count <= Len(bfBuffers[b].memory)
    /\ Elements(bfBuffers[b]) = bfContents[b]

(* And the product with itself and the least and greatest element are those of *)
(* what it shows.                                                           *)
BuffersExact ==
  /\ BuffersShown
  /\ \A b \in Alive :
       LET elements == bfContents[b]
       IN  /\ DotBuffer(bfBuffers[b], bfBuffers[b]) >= 0
           /\ elements # <<>> =>
                MinMax(bfBuffers[b]) = <<Min(ToSet(elements)), Max(ToSet(elements))>>

=============================================================================
