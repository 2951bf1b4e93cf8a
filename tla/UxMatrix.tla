------------------------------ MODULE UxMatrix ------------------------------
(***************************************************************************)
(* The matrix library (src/runtime_ext/uxmatrix/uxmatrix_openblas.c, as     *)
(* built without BLAS and LAPACK): rectangular matrices by rows, and what   *)
(* is computed from them.  Numbers are exact fractions, so that a pivot of  *)
(* at most 1e-12 is one that is 0; QR, eigenvalues and singular values,     *)
(* which need roots, are left out.                                         *)
(***************************************************************************)
EXTENDS Integers, Sequences, SequencesExt, FiniteSets, FiniteSetsExt

CONSTANTS
  MxSizes,     \* bound: the <<rows, columns>> that are created
  MxValues,    \* bound: the numbers that are stored
  MxStores     \* bound: how many of them are stored in a matrix

ASSUME MxAssumption ==
  MxSizes \subseteq (Int \X Int) /\ MxValues \subseteq Int /\ MxStores \in Nat

VARIABLES
  mxMatrix,   \* the matrix of a handle, or NoMatrix
  mxStored    \* how many numbers were stored since it was created

mxVars == <<mxMatrix, mxStored>>

-----------------------------------------------------------------------------
(* Exact numbers: a fraction in lowest terms. *)
Whole(i) == <<i, 1>>
AbsOf(i) == IF i < 0 THEN -i ELSE i
Reduced(n, d) ==
  LET g == Max({k \in 1..(AbsOf(d)) : n % k = 0 /\ d % k = 0})
  IN  IF d < 0 THEN <<(-n) \div g, (-d) \div g>> ELSE <<n \div g, d \div g>>
Plus(x, y) == Reduced(x[1] * y[2] + y[1] * x[2], x[2] * y[2])
Minus(x, y) == Plus(x, <<-y[1], y[2]>>)
Times(x, y) == Reduced(x[1] * y[1], x[2] * y[2])
Over(x, y) == Reduced(x[1] * y[2], x[2] * y[1])
Larger(x, y) == AbsOf(x[1]) * y[2] > AbsOf(y[1]) * x[2]   \* fabs(x) > fabs(y)
Zero == Whole(0)
Total(n, Term(_)) == FoldLeft(LAMBDA s, i : Plus(s, Term(i - 1)), Zero, [i \in 1..n |-> i])

-----------------------------------------------------------------------------
(* Matrices: rows and columns count from 0, the data are the rows in turn. *)

NoMatrix == [rows |-> 0, cols |-> 0, data |-> <<>>]
IsMatrix(m) == m # NoMatrix

At(m, r, c) == m.data[r * m.cols + c]
Cells(m) == (0..(m.rows - 1)) \X (0..(m.cols - 1))
Built(rows, cols, Value(_, _)) ==
  IF rows <= 0 \/ cols <= 0 THEN NoMatrix   \* alloc_matrix refuses it
  ELSE [rows |-> rows, cols |-> cols,
        data |-> [i \in 0..(rows * cols - 1) |-> Value(i \div cols, i % cols)]]

ZeroMatrix(rows, cols) == Built(rows, cols, LAMBDA r, c : Zero)
Eye(rows, cols) == Built(rows, cols, LAMBDA r, c : Whole(IF r = c THEN 1 ELSE 0))
Transpose(a) == Built(a.cols, a.rows, LAMBDA r, c : At(a, c, r))

(* uxmatrix_add, uxmatrix_sub and uxmatrix_scale, by position in the data. *)
SameSize(a, b) == a.rows = b.rows /\ a.cols = b.cols
Add(a, b) ==
  IF SameSize(a, b) THEN [a EXCEPT !.data = [i \in DOMAIN a.data |-> Plus(a.data[i], b.data[i])]]
  ELSE NoMatrix
Sub(a, b) ==
  IF SameSize(a, b) THEN [a EXCEPT !.data = [i \in DOMAIN a.data |-> Minus(a.data[i], b.data[i])]]
  ELSE NoMatrix
Scale(a, s) == [a EXCEPT !.data = [i \in DOMAIN a.data |-> Times(a.data[i], s)]]

Dgemm(a, b) ==   \* fallback_dgemm with alpha = 1, beta = 0, on the data
  LET k == a.cols  n == b.cols
  IN  Built(a.rows, n,
            LAMBDA i, j : Total(k, LAMBDA p : Times(a.data[i * k + p], b.data[p * n + j])))
Mul(a, b) == IF a.cols = b.rows THEN Dgemm(a, b) ELSE NoMatrix
Matvec(a, x) ==
  IF x.cols # 1 \/ a.cols # x.rows THEN NoMatrix
  ELSE Built(a.rows, 1, LAMBDA i, z : Total(a.cols, LAMBDA j : Times(At(a, i, j), x.data[j])))
Dot(a, b) == Total(a.rows * a.cols, LAMBDA i : Times(a.data[i], b.data[i]))
Trace(a) == Total(Min({a.rows, a.cols}), LAMBDA i : At(a, i, i))

SwapRows(m, r, s) ==
  Built(m.rows, m.cols,
        LAMBDA x, c : At(m, IF x = r THEN s ELSE IF x = s THEN r ELSE x, c))

(* The first row from k on whose number in column k is the largest. *)
Pivot(m, k) ==
  FoldLeft(LAMBDA p, r : IF Larger(At(m, r, k), At(m, p, k)) THEN r ELSE p,
           k, [i \in 1..(m.rows - k - 1) |-> k + i])

(* Mutant of Eliminated: the factor is taken from the column of the row itself. *)
EliminatedOwn(a, m, k) ==
  Built(m.rows, m.cols,
        LAMBDA r, c : IF r <= k THEN At(m, r, c)
                      ELSE Minus(At(m, r, c), Times(At(a, r, k), At(m, k, c))))

(* The rows of m below k, less as much of row k as clears column k of a. *)
Eliminated(a, m, k) ==
  Built(m.rows, m.cols,
        LAMBDA r, c : IF r <= k THEN At(m, r, c)
                      ELSE Minus(At(m, r, c), Times(Over(At(a, r, k), At(a, k, k)), At(m, k, c))))

Steps(m) == [k \in 1..(m.rows) |-> k - 1]

(* From the last row up: the solution in the rows below is known. *)
BackSubstituted(a, x) ==
  FoldLeft(LAMBDA y, r :
             Built(y.rows, y.cols,
               LAMBDA s, c :
                 IF s # r THEN At(y, s, c)
                 ELSE Over(Minus(At(y, r, c),
                                 Total(y.rows - r - 1,
                                       LAMBDA j : Times(At(a, r, r + 1 + j), At(y, r + 1 + j, c)))),
                           At(a, r, r))),
           x, Reverse(Steps(a)))

(* uxmatrix_solve, and no matrix when a pivot is 0. *)
Solve(a, b) ==
  IF a.rows # a.cols \/ b.rows # a.rows THEN NoMatrix
  ELSE LET last ==
             FoldLeft(LAMBDA s, k :
                        IF ~s.ok THEN s
                        ELSE LET p == Pivot(s.a, k)
                                 ak == SwapRows(s.a, k, p)
                                 xk == SwapRows(s.x, k, p)
                             IN  IF At(ak, k, k) = Zero THEN [s EXCEPT !.ok = FALSE]
                                 ELSE [ok |-> TRUE, a |-> Eliminated(ak, ak, k),
                                       x |-> Eliminated(ak, xk, k)],
                      [ok |-> TRUE, a |-> a, x |-> b], Steps(a))
       IN  IF last.ok THEN BackSubstituted(last.a, last.x) ELSE NoMatrix

InverseOf(a) ==
  IF a.rows # a.cols THEN NoMatrix ELSE Solve(a, Eye(a.rows, a.cols))

(* uxmatrix_det of a square matrix: every exchange of rows turns the sign. *)
Det(a) ==
  FoldLeft(LAMBDA s, k :
             LET p == Pivot(s.a, k)
                 ak == SwapRows(s.a, k, p)
                 signed == IF p # k THEN Minus(Zero, s.det) ELSE s.det
             IN  IF s.det = Zero \/ At(ak, k, k) = Zero THEN [s EXCEPT !.det = Zero]
                 ELSE [a |-> Eliminated(ak, ak, k), det |-> Times(signed, At(ak, k, k))],
           [a |-> a, det |-> Whole(1)], Steps(a)).det

(* A root is known if it is a fraction itself. *)
Root(x) == CHOOSE r \in {Reduced(n, d) : n \in 0..x[1], d \in 1..x[2]} : Times(r, r) = x

(* uxmatrix_cholesky, row by row and each row up to its diagonal, for a matrix *)
(* whose roots are fractions.                                                *)
Cholesky(a) ==
  LET n == a.rows
      order == SelectSeq([i \in 1..(n * n) |-> <<(i - 1) \div n, (i - 1) % n>>],
                         LAMBDA rc : rc[2] <= rc[1])
      Step(l, rc) ==
        LET i == rc[1]  j == rc[2]
            sum == Minus(At(a, i, j), Total(j, LAMBDA k : Times(At(l, i, k), At(l, j, k))))
            value == IF i = j THEN Root(sum) ELSE Over(sum, At(l, j, j))
        IN  IF ~IsMatrix(l) \/ At(a, i, j) # At(a, j, i) \/ (i = j /\ sum[1] <= 0) THEN NoMatrix
            ELSE [l EXCEPT !.data[i * n + j] = value]
  IN  IF a.rows # a.cols THEN NoMatrix ELSE FoldLeft(Step, ZeroMatrix(n, n), order)

-----------------------------------------------------------------------------
MxCreate(size) ==
  /\ ~IsMatrix(mxMatrix)
  /\ mxMatrix' = ZeroMatrix(size[1], size[2])
  /\ mxStored' = 0

(* uxmatrix_set refuses a place outside of the matrix. *)
MxSet(r, c, v) ==
  /\ IsMatrix(mxMatrix) /\ mxStored < MxStores
  /\ mxMatrix' = IF <<r, c>> \in Cells(mxMatrix)
                 THEN [mxMatrix EXCEPT !.data[r * mxMatrix.cols + c] = Whole(v)] ELSE mxMatrix
  /\ mxStored' = mxStored + 1

MxEye ==
  /\ IsMatrix(mxMatrix)
  /\ mxMatrix' = Eye(mxMatrix.rows, mxMatrix.cols)
  /\ UNCHANGED mxStored

MxFree ==
  /\ IsMatrix(mxMatrix)
  /\ mxMatrix' = NoMatrix
  /\ UNCHANGED mxStored

MxInit == mxMatrix = NoMatrix /\ mxStored = 0
MxNext ==
  \/ \E size \in MxSizes : MxCreate(size)
  \/ \E r, c \in 0..3, v \in MxValues : MxSet(r, c, v)
  \/ MxEye \/ MxFree

-----------------------------------------------------------------------------
(* Properties *)

(* The determinant as the sum over permutations. *)
Leibniz(a) ==
  LET ids == 0..(a.rows - 1)
      perms == {p \in [ids -> ids] : \A i, j \in ids : p[i] = p[j] => i = j}
      inversions(p) == Cardinality({<<i, j>> \in ids \X ids : i < j /\ p[i] > p[j]})
      product(p) == FoldLeft(LAMBDA x, i : Times(x, At(a, i, p[i])), Whole(1), Steps(a))
      signed(p) == IF inversions(p) % 2 = 0 THEN product(p) ELSE Minus(Zero, product(p))
  IN  FoldSet(LAMBDA p, s : Plus(s, signed(p)), Zero, perms)

(* A system with a matrix that is not singular is solved, whatever rows the    *)
(* pivoting exchanged, and one that is singular is refused.                  *)
SystemsSolved ==
  LET a == mxMatrix
      n == a.rows
      b == Built(n, 1, LAMBDA r, c : Whole(r + 1))
  IN  a.rows = a.cols =>
        /\ Det(a) = Leibniz(a)
        /\ IF Det(a) = Zero THEN ~IsMatrix(Solve(a, b)) /\ ~IsMatrix(InverseOf(a))
           ELSE /\ Mul(a, Solve(a, b)) = b /\ Matvec(a, Solve(a, b)) = b
                /\ Mul(a, InverseOf(a)) = Eye(n, n) /\ Mul(InverseOf(a), a) = Eye(n, n)

(* Products, transposes, sums and traces fit together, for every shape. *)
ProductsFit ==
  LET a == mxMatrix
      gram == Mul(a, Transpose(a))
  IN  /\ Transpose(Transpose(a)) = a /\ Transpose(gram) = gram
      /\ Trace(gram) = Dot(a, a)
      /\ Mul(a, Add(Transpose(a), Transpose(a))) = Scale(gram, Whole(2))
      /\ Sub(Scale(a, Whole(2)), a) = a
      /\ a.rows # a.cols => ~IsMatrix(Mul(a, a)) /\ ~IsMatrix(Add(a, Transpose(a)))

(* The Cholesky factor of a product L times its transpose is L. *)
FactorFound ==
  LET a == mxMatrix
      lower == a.rows = a.cols /\ \A rc \in Cells(a) :
                 /\ rc[1] < rc[2] => At(a, rc[1], rc[2]) = Zero
                 /\ rc[1] = rc[2] => At(a, rc[1], rc[2])[1] > 0
  IN  lower => Cholesky(Mul(a, Transpose(a))) = a

(* What the library computes from a matrix is right, whatever was stored. *)
MatrixExact == IsMatrix(mxMatrix) => SystemsSolved /\ ProductsFit /\ FactorFound

=============================================================================
