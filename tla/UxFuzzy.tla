------------------------------- MODULE UxFuzzy -------------------------------
(***************************************************************************)
(* Fuzzy sets (the end of src/runtime_ext/uxlogic/uxlogic.c): how far a        *)
(* number belongs to a triangle or a trapezoid.  A result is a fraction, the  *)
(* pair of its numerator and its denominator; numbers are integers.          *)
(***************************************************************************)
EXTENDS Integers

CONSTANT FzNumbers   \* bound: the numbers that are used

ASSUME FzAssumption == FzNumbers \subseteq Int

VARIABLE fzAsked     \* the arguments of a call: the number and the corners

-----------------------------------------------------------------------------
None == <<0, 1>>
All == <<1, 1>>
Same(p, q) == p[1] * q[2] = q[1] * p[2]
NotAbove(p, q) == p[1] * q[2] <= q[1] * p[2]

(* Mutant of Triangle: the slope is divided without a look at its width. *)
TriangleSteep(x, a, b, c) ==
  IF a > b \/ b > c \/ a = c \/ x < a \/ x > c THEN None
  ELSE IF x <= b THEN <<x - a, b - a>> ELSE <<c - x, c - b>>

(* uxlogic_fuzzy_triangle: the peak comes first, so that a corner that is the   *)
(* peak too belongs to the set.                                             *)
Triangle(x, a, b, c) ==
  IF a > b \/ b > c \/ a = c THEN None
  ELSE IF x = b THEN All
  ELSE IF x <= a \/ x >= c THEN None
  ELSE IF x < b THEN <<x - a, b - a>> ELSE <<c - x, c - b>>

(* uxlogic_fuzzy_trapezoid *)
Trapezoid(x, a, b, c, d) ==
  IF a > b \/ b > c \/ c > d \/ a = d \/ x < a \/ x > d THEN None
  ELSE IF b <= x /\ x <= c THEN All
  ELSE IF x < b THEN <<x - a, b - a>> ELSE <<d - x, d - c>>

FuzzyAnd(p, q) == IF NotAbove(p, q) THEN p ELSE q
FuzzyOr(p, q) == IF NotAbove(q, p) THEN p ELSE q
FuzzyNot(p) == <<p[2] - p[1], p[2]>>

(* uxlogic_fuzzy_weighted, of whole numbers and weights. *)
Weighted(v, w, u, z) == IF w + z = 0 THEN None ELSE <<v * w + u * z, w + z>>

Unasked == [x |-> 0, a |-> 0, b |-> 0, c |-> 0, d |-> 0]
FzInit == fzAsked = Unasked

FzAsk ==   \* bound: one call
  /\ fzAsked = Unasked
  /\ fzAsked' \in [x : FzNumbers, a : FzNumbers, b : FzNumbers, c : FzNumbers, d : FzNumbers]

-----------------------------------------------------------------------------
(* Properties *)

(* Degrees lie between none and all and never divide by zero, also for sets     *)
(* with an upright side; a triangle is the trapezoid without a roof; a set     *)
(* and its complement leave no degree over; a mean lies between its values.    *)
FuzzyExact ==
  LET x == fzAsked.x  a == fzAsked.a  b == fzAsked.b  c == fzAsked.c  d == fzAsked.d
      triangle == Triangle(x, a, b, d)
      trapezoid == Trapezoid(x, a, b, c, d)
  IN  /\ \A p \in {triangle, trapezoid} : p[2] > 0 /\ NotAbove(None, p) /\ NotAbove(p, All)
      /\ Same(triangle, Trapezoid(x, a, b, b, d))
      /\ b <= c /\ c <= d => NotAbove(triangle, trapezoid)
      /\ Same(FuzzyNot(FuzzyAnd(triangle, trapezoid)),
              FuzzyOr(FuzzyNot(triangle), FuzzyNot(trapezoid)))
      /\ a >= 0 /\ d >= 0 /\ a + d > 0 /\ x <= b =>
           NotAbove(<<x, 1>>, Weighted(x, a, b, d)) /\ NotAbove(Weighted(x, a, b, d), <<b, 1>>)

=============================================================================
