------------------------------ MODULE UxTensor ------------------------------
(***************************************************************************)
(* The tensor library (src/runtime_ext/uxtensor/uxtensor.c, as built        *)
(* without BLAS): a block of numbers with a shape and the strides that find *)
(* an element of it.  Elements are integers; the type tags are left out.    *)
(***************************************************************************)
EXTENDS Integers, Sequences, SequencesExt, FiniteSets, FiniteSetsExt

CONSTANTS
  TrShapes,   \* bound: the shapes a program asks for, the senseless ones too
  TrLargest   \* bound: the greatest number of elements, 2^63 - 1 in the code

ASSUME TrAssumption == TrShapes \subseteq Seq(Int) /\ TrLargest \in Nat

VARIABLE trTensor   \* the tensor of a handle, or NoTensor

NoTensor == [shape |-> <<>>, stride |-> <<>>, data |-> <<>>]
IsTensor(t) == t # NoTensor

TrMaxDims == 8   \* UXTENSOR_MAX_DIMS
ShapeOk(shape) == Len(shape) \in 1..TrMaxDims /\ \A i \in DOMAIN shape : shape[i] >= 1

(* compute_size: 0 if the product would be beyond the greatest number. *)
SizeOf(shape) ==
  FoldLeft(LAMBDA s, d : IF d <= 0 \/ s > TrLargest \div d THEN 0 ELSE s * d, 1, shape)

(* Mutant of Strides: the first dimension moves fastest. *)
StridesByColumn(shape) ==
  [i \in DOMAIN shape |-> FoldLeft(LAMBDA s, d : s * d, 1, SubSeq(shape, 1, i - 1))]

(* compute_rowmajor_strides: the last dimension moves fastest. *)
Strides(shape) ==
  [i \in DOMAIN shape |-> FoldLeft(LAMBDA s, d : s * d, 1, SubSeq(shape, i + 1, Len(shape)))]

(* tensor_alloc, with the elements it then receives. *)
Tensor(shape, Value(_)) ==
  IF ~ShapeOk(shape) \/ SizeOf(shape) < 1 THEN NoTensor
  ELSE [shape |-> shape, stride |-> Strides(shape),
        data |-> [i \in 0..(SizeOf(shape) - 1) |-> Value(i)]]

SizeOfTensor(t) == Cardinality(DOMAIN t.data)

(* The elements have as many indices as there are dimensions. *)
Indices(t) ==
  {ix \in [DOMAIN t.shape -> 0..(Max(ToSet(t.shape)) - 1)] :
     \A i \in DOMAIN ix : ix[i] < t.shape[i]}
Offset(t, ix) == FoldLeft(LAMBDA s, i : s + ix[i] * t.stride[i], 0, [i \in DOMAIN ix |-> i])

(* uxtensor_get2d_f64 to get4d, and the setters. *)
Element(t, ix) == t.data[Offset(t, ix)]
WithElement(t, ix, v) == IF ix \in Indices(t) THEN [t EXCEPT !.data[Offset(t, ix)] = v] ELSE t

Clone(t) == Tensor(t.shape, LAMBDA i : t.data[i])
ReshapeCopy(t, shape) ==
  IF ~ShapeOk(shape) \/ SizeOf(shape) # SizeOfTensor(t) THEN NoTensor
  ELSE Tensor(shape, LAMBDA i : t.data[i])

(* uxtensor_slice_axis0_copy: whole blocks of the first dimension.  start +  *)
(* count is a sum of 64-bit numbers; where it would be beyond the greatest   *)
(* one C does not define it, and the definition says nothing of the call.    *)
SliceAxis0(t, start, count) ==
  IF start < 0 \/ count < 1 \/ start + count > t.shape[1] THEN NoTensor
  ELSE Tensor([t.shape EXCEPT ![1] = count], LAMBDA i : t.data[start * t.stride[1] + i])

(* elemwise2, and the copies of it that take one tensor. *)
Elementwise(a, b, Op(_, _)) ==
  IF a.shape # b.shape THEN NoTensor ELSE Tensor(a.shape, LAMBDA i : Op(a.data[i], b.data[i]))
ScaleTensor(a, s) == Tensor(a.shape, LAMBDA i : a.data[i] * s)
SumTensor(a) == MapThenSumSet(LAMBDA i : a.data[i], DOMAIN a.data)
DotTensor(a, b) == SumTensor(Elementwise(a, b, LAMBDA x, y : x * y))

Matmul2d(a, b) ==
  IF Len(a.shape) # 2 \/ Len(b.shape) # 2 \/ a.shape[2] # b.shape[1] THEN NoTensor
  ELSE LET k == a.shape[2]  n == b.shape[2]
       IN  Tensor(<<a.shape[1], n>>,
                  LAMBDA x : MapThenSumSet(LAMBDA p : a.data[(x \div n) * k + p]
                                                      * b.data[p * n + (x % n)], 0..(k - 1)))
Transpose2d(a) ==
  IF Len(a.shape) # 2 THEN NoTensor
  ELSE LET n == a.shape[1]   \* the columns, and the stride of a row, of the result
       IN  Tensor(<<a.shape[2], n>>, LAMBDA x : a.data[(x % n) * a.stride[1] + x \div n])
Matvec2d(a, x) ==
  IF Len(a.shape) # 2 \/ Len(x.shape) # 1 \/ a.shape[2] # x.shape[1] THEN NoTensor
  ELSE Tensor(<<a.shape[1]>>,
              LAMBDA r : MapThenSumSet(LAMBDA c : a.data[r * a.shape[2] + c] * x.data[c],
                                       0..(a.shape[2] - 1)))

-----------------------------------------------------------------------------
(* A new tensor is filled with numbers that are all different. *)
TrCreate(shape) ==
  ~IsTensor(trTensor) /\ trTensor' = Tensor(shape, LAMBDA i : i + 1)
TrSet(ix) ==
  IsTensor(trTensor) /\ ix \in Indices(trTensor) /\ trTensor' = WithElement(trTensor, ix, 0)
TrReshape(shape) ==
  IsTensor(trTensor) /\ trTensor' = ReshapeCopy(trTensor, shape)
TrSlice(start, count) ==
  /\ IsTensor(trTensor)
  /\ start + count <= TrLargest
  /\ trTensor' = SliceAxis0(trTensor, start, count)
TrTranspose ==
  IsTensor(trTensor) /\ trTensor' = Transpose2d(trTensor)
TrFree == IsTensor(trTensor) /\ trTensor' = NoTensor

TrInit == trTensor = NoTensor
TrNext ==
  \/ \E shape \in TrShapes : TrCreate(shape) \/ TrReshape(shape)
  \/ \E ix \in {<<1>>, <<0, 1>>, <<1, 1, 0>>, <<1, 0, 0, 1>>} : TrSet(ix)
  \/ \E start \in -1..2, count \in 0..2 : TrSlice(start, count)
  \/ TrTranspose \/ TrFree

-----------------------------------------------------------------------------
(* Properties *)

(* Every element has its own place, the block holds nothing else, and its size *)
(* is the product of the dimensions, which was not cut off.                  *)
PlacesExact ==
  LET t == trTensor
  IN  /\ {Offset(t, ix) : ix \in Indices(t)} = DOMAIN t.data
      /\ Cardinality(Indices(t)) = SizeOfTensor(t)
      /\ SizeOfTensor(t) = FoldLeft(LAMBDA s, d : s * d, 1, t.shape)
      /\ SizeOfTensor(t) <= TrLargest

(* An element of a slice, of a transpose or of a reshaped tensor is the one of *)
(* the original that its index says.                                         *)
CopiesExact ==
  LET t == trTensor
      n == t.shape[1]
  IN  /\ \A start, count \in 1..n :
           LET s == SliceAxis0(t, start - 1, count)
           IN  IF start - 1 + count > n THEN ~IsTensor(s)
               ELSE \A ix \in Indices(s) :
                      Element(s, ix) = Element(t, [ix EXCEPT ![1] = @ + start - 1])
      /\ Len(t.shape) = 2 =>
           LET s == Transpose2d(t)
           IN  /\ \A ix \in Indices(t) : Element(s, <<ix[2], ix[1]>>) = Element(t, ix)
               /\ Transpose2d(s) = t
      /\ \A shape \in TrShapes :
           IsTensor(ReshapeCopy(t, shape)) => ReshapeCopy(ReshapeCopy(t, shape), t.shape) = t
      /\ Clone(t) = t

(* Products are sums over the index they share. *)
TensorProducts ==
  LET a == trTensor
      b == Transpose2d(a)
      c == Matmul2d(a, b)
  IN  Len(a.shape) = 2 =>
        /\ \A ix \in Indices(c) :
             Element(c, ix) = DotTensor(SliceAxis0(a, ix[1], 1), SliceAxis0(a, ix[2], 1))
        /\ LET x == Tensor(<<a.shape[2]>>, LAMBDA i : Element(a, <<0, i>>))
           IN  \A r \in 0..(a.shape[1] - 1) : Element(Matvec2d(a, x), <<r>>) = Element(c, <<r, 0>>)
        /\ SumTensor(Elementwise(a, a, +)) = 2 * SumTensor(ScaleTensor(a, 1))

(* What the library finds in a tensor is what was put there. *)
TensorExact == IsTensor(trTensor) => PlacesExact /\ CopiesExact /\ TensorProducts

=============================================================================
