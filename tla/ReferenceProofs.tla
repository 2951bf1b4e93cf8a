--------------------------- MODULE ReferenceProofs ---------------------------
(***************************************************************************)
(* Theorems about the two bridges whose objects count the references to    *)
(* them: the objects of the registry (UxClz), which live as long as         *)
(* somebody holds them and take their methods from their bases, and the     *)
(* descriptors of C structures (UxCapi), which refer to each other.  A      *)
(* count is the size of a set of places; a step adds to or takes from both. *)
(***************************************************************************)
EXTENDS UxClz, UxCapi, FiniteSetTheorems, SequenceTheorems, WellFoundedInduction, TLAPS

-----------------------------------------------------------------------------
(* Counting up to a number *)

LEMMA LeastNumber ==
  ASSUME NEW T \in SUBSET Nat, T # {}
  PROVE  \E n \in T : \A m \in T : n <= m
<1> DEFINE Below == {p \in Nat \X Nat : p[1] < p[2]}
<1>1. IsWellFoundedOn(Below, Nat)
  BY NatLessThanWellFounded DEF OpToRel
<1> HIDE DEF Below
<1>2. PICK n \in T : \A m \in T : <<m, n>> \notin Below
  BY <1>1, WFMin, Zenon
<1>3. ASSUME NEW m \in T PROVE n <= m
  <2>1. m \in Nat /\ n \in Nat
    OBVIOUS
  <2>2. <<m, n>> \in Below <=> m < n
    BY <2>1 DEF Below
  <2> QED
    BY <1>2, <2>1, <2>2
<1> QED
  BY <1>3

LEMMA CountUp ==
  ASSUME NEW n \in Nat, NEW G, 0 \in G, \A i \in 0..n : i < n /\ i \in G => i + 1 \in G
  PROVE  n \in G
<1> DEFINE Left == (0..n) \ G
<1> SUFFICES ASSUME Left # {} PROVE FALSE
  OBVIOUS
<1>1. Left \in SUBSET Nat
  OBVIOUS
<1>2. PICK b \in Left : \A c \in Left : b <= c
  BY <1>1, LeastNumber
<1>3. b \in 0..n /\ b # 0 /\ b \notin G
  BY <1>2
<1>4. b - 1 \in 0..n /\ b - 1 < n /\ b - 1 < b /\ (b - 1) + 1 = b
  BY <1>3
<1>5. b - 1 \in G
  BY <1>1, <1>2, <1>4
<1> QED
  BY <1>3, <1>4, <1>5

-----------------------------------------------------------------------------
(* The object registry: types and what is inherited *)

(* The lists of a type and its bases, for the first n types. *)
IsUp(f, types, n) == f = [t \in 0..n |-> IF t = 0 THEN <<>> ELSE <<t>> \o f[types[t].base]]

LEMMA UpSteps ==
  ASSUME NEW types, NEW n \in Nat, NEW f, IsUp(f, types, n)
  PROVE  f[0] = <<>> /\ \A t \in 1..n : f[t] = <<t>> \o f[types[t].base]
<1>1. f = [t \in 0..n |-> IF t = 0 THEN <<>> ELSE <<t>> \o f[types[t].base]]
  BY DEF IsUp
<1>2. 0 \in 0..n /\ \A t \in 1..n : t \in 0..n /\ t # 0
  OBVIOUS
<1> QED
  BY <1>1, <1>2

LEMMA UpExists ==
  ASSUME NEW types, NEW n \in Nat, \A t \in 1..n : types[t].base \in 0..(t - 1)
  PROVE  \E f : IsUp(f, types, n)
<1> DEFINE G == {m \in Nat : \E f : IsUp(f, types, m)}
<1>1. 0 \in G
  <2>1. [t \in 0..0 |-> <<>>] = [t \in 0..0 |-> IF t = 0 THEN <<>>
                                  ELSE <<t>> \o [u \in 0..0 |-> <<>>][types[t].base]]
    OBVIOUS
  <2> QED
    BY <2>1 DEF IsUp
<1>2. ASSUME NEW m \in 0..n, m < n, m \in G PROVE m + 1 \in G
  <2>1. PICK f : IsUp(f, types, m)
    BY <1>2
  <2>2. m \in Nat /\ m + 1 \in Nat /\ m + 1 \in 1..n
    BY <1>2
  <2>3. f[0] = <<>> /\ \A t \in 1..m : f[t] = <<t>> \o f[types[t].base]
    BY <2>1, <2>2, UpSteps
  <2> DEFINE g == [t \in 0..(m + 1) |-> IF t = m + 1 THEN <<m + 1>> \o f[types[m + 1].base] ELSE f[t]]
  <2>4. ASSUME NEW t \in 0..(m + 1)
        PROVE  g[t] = IF t = 0 THEN <<>> ELSE <<t>> \o g[types[t].base]
    <3>1. CASE t = 0
      BY <2>2, <2>3, <3>1
    <3>2. CASE t = m + 1
      <4>1. types[t].base \in 0..m /\ t # 0
        BY <2>2, <3>2
      <4>2. types[t].base \in 0..(m + 1) /\ types[t].base # m + 1
        BY <2>2, <4>1
      <4>3. g[types[t].base] = f[types[t].base]
        BY <4>2
      <4>4. g[t] = <<m + 1>> \o f[types[m + 1].base]
        BY <3>2
      <4> QED
        BY <3>2, <4>1, <4>3, <4>4
    <3>3. CASE t # 0 /\ t # m + 1
      <4>1. t \in 1..m /\ t \in 1..n
        BY <2>2, <3>3
      <4>2. types[t].base \in 0..(t - 1)
        BY <4>1
      <4>3. types[t].base \in 0..(m + 1) /\ types[t].base # m + 1
        BY <2>2, <4>1, <4>2
      <4>4. g[t] = f[t] /\ g[types[t].base] = f[types[t].base]
        BY <3>3, <4>3
      <4>5. f[t] = <<t>> \o f[types[t].base]
        BY <2>3, <4>1
      <4> QED
        BY <3>3, <4>4, <4>5
    <3> QED
      BY <3>1, <3>2, <3>3
  <2>5. g = [t \in 0..(m + 1) |-> g[t]]
    OBVIOUS
  <2> HIDE DEF g
  <2>6. g = [t \in 0..(m + 1) |-> IF t = 0 THEN <<>> ELSE <<t>> \o g[types[t].base]]
    BY <2>4, <2>5
  <2>7. IsUp(g, types, m + 1)
    BY <2>6 DEF IsUp
  <2> QED
    BY <2>2, <2>7
<1>3. n \in G
  <2> HIDE DEF G
  <2> QED
    BY <1>1, <1>2, CountUp
<1> QED
  BY <1>3

(* A list falls, starts with its type, and holds the lists of what is on it. *)
UpOK(f, n, t) ==
  /\ f[t] \in Seq(1..n) /\ Len(f[t]) <= t
  /\ \A i \in 1..Len(f[t]) : f[t][i] <= t
  /\ \A i, j \in 1..Len(f[t]) : i < j => f[t][j] < f[t][i]
  /\ t # 0 => t \in ToSet(f[t])
  /\ \A s \in ToSet(f[t]) : ToSet(f[s]) = {x \in ToSet(f[t]) : x <= s}

LEMMA UpStep ==
  ASSUME NEW n \in Nat, NEW f, NEW t \in 1..n, NEW b \in 0..(t - 1), f[t] = <<t>> \o f[b], UpOK(f, n, b)
  PROVE  UpOK(f, n, t)
<1>1. PICK u \in Seq(1..n) : u = f[b]
  BY DEF UpOK
<1>2. PICK w : w = <<t>> \o u
  OBVIOUS
<1>3. /\ w \in Seq(1..n) /\ Len(w) = Len(u) + 1 /\ w[1] = t
      /\ \A i \in 1..Len(u) : w[i + 1] = u[i]
  <2>1. <<t>> \in Seq(1..n) /\ Len(<<t>>) = 1 /\ <<t>>[1] = t
    OBVIOUS
  <2>2. Len(u) \in Nat
    BY <1>1
  <2>3. /\ w \in Seq(1..n) /\ Len(w) = 1 + Len(u)
        /\ \A i \in 1..(1 + Len(u)) : w[i] = IF i <= 1 THEN <<t>>[i] ELSE u[i - 1]
    BY <1>1, <1>2, <2>1, ConcatProperties
  <2>4. ASSUME NEW i \in 1..Len(u) PROVE w[i + 1] = u[i]
    <3>1. i + 1 \in 1..(1 + Len(u)) /\ ~(i + 1 <= 1) /\ (i + 1) - 1 = i
      BY <2>2
    <3> QED
      BY <2>3, <3>1
  <2> QED
    BY <2>1, <2>2, <2>3, <2>4
<1>4. f[t] = w /\ Len(u) \in Nat /\ Len(u) <= b
  BY <1>1, <1>2 DEF UpOK
<1>5. \A i \in 1..Len(w) : i = 1 \/ (i - 1 \in 1..Len(u) /\ w[i] = u[i - 1])
  <2>1. ASSUME NEW i \in 1..Len(w), i # 1 PROVE i - 1 \in 1..Len(u) /\ w[i] = u[i - 1]
    <3>1. i - 1 \in 1..Len(u) /\ (i - 1) + 1 = i
      BY <1>3, <1>4, <2>1
    <3> QED
      BY <1>3, <3>1
  <2> QED
    BY <2>1
<1>6. \A i \in 1..Len(u) : u[i] <= b /\ u[i] \in Nat
  BY <1>1 DEF UpOK
<1>7. \A i \in 1..Len(w) : w[i] <= t
  <2>1. t <= t /\ \A x \in Nat : x <= b => x <= t /\ x < t
    OBVIOUS
  <2> QED
    BY <1>3, <1>5, <1>6, <2>1
<1>8. ASSUME NEW i \in 1..Len(w), NEW j \in 1..Len(w), i < j PROVE w[j] < w[i]
  <2>1. j - 1 \in 1..Len(u) /\ w[j] = u[j - 1]
    BY <1>5, <1>8
  <2>2. CASE i = 1
    <3>1. w[j] <= b /\ w[j] \in Nat
      BY <1>6, <2>1
    <3>2. w[j] < t
      BY <3>1
    <3> QED
      BY <1>3, <2>2, <3>2
  <2>3. CASE i # 1
    <3>1. i - 1 \in 1..Len(u) /\ w[i] = u[i - 1] /\ i - 1 < j - 1
      BY <1>5, <1>8, <2>3
    <3> QED
      BY <1>1, <2>1, <3>1 DEF UpOK
  <2> QED
    BY <2>2, <2>3
<1>9. DOMAIN w = 1..Len(w) /\ DOMAIN u = 1..Len(u)
  BY <1>1, <1>3
<1>10. ToSet(w) = {t} \cup ToSet(u)
  <2>1. t \in ToSet(w)
    <3>1. 1 \in DOMAIN w
      BY <1>3, <1>4, <1>9
    <3>2. w[1] = t
      BY <1>3
    <3> QED
      BY <3>1, <3>2 DEF ToSet
  <2>2. \A x \in ToSet(u) : x \in ToSet(w)
    <3>1. \A i \in 1..Len(u) : i + 1 \in 1..Len(w)
      BY <1>3, <1>4
    <3>2. ASSUME NEW i \in DOMAIN u PROVE u[i] \in ToSet(w)
      <4>1. i + 1 \in DOMAIN w /\ w[i + 1] = u[i]
        BY <1>3, <1>9, <3>1
      <4> QED
        BY <4>1 DEF ToSet
    <3> QED
      BY <3>2 DEF ToSet
  <2>3. \A x \in ToSet(w) : x = t \/ x \in ToSet(u)
    <3>1. ASSUME NEW i \in DOMAIN w PROVE w[i] = t \/ w[i] \in ToSet(u)
      <4>1. i = 1 \/ (i - 1 \in DOMAIN u /\ w[i] = u[i - 1])
        BY <1>5, <1>9
      <4> QED
        BY <1>3, <4>1 DEF ToSet
    <3> QED
      BY <3>1 DEF ToSet
  <2> QED
    BY <2>1, <2>2, <2>3
<1>11. \A x \in ToSet(u) : x \in Nat /\ x < t
  BY <1>6, <1>9 DEF ToSet
<1>12. ASSUME NEW s \in ToSet(w) PROVE ToSet(f[s]) = {x \in ToSet(w) : x <= s}
  <2>1. CASE s = t
    <3>1. \A x \in ToSet(w) : x <= t
      BY <1>10, <1>11
    <3> QED
      BY <1>4, <2>1, <3>1
  <2>2. CASE s # t
    <3>1. s \in ToSet(u) /\ ToSet(f[s]) = {x \in ToSet(u) : x <= s}
      BY <1>1, <1>10, <2>2 DEF UpOK
    <3>2. ~(t <= s)
      BY <1>11, <3>1
    <3> QED
      BY <1>10, <3>1, <3>2
  <2> QED
    BY <2>1, <2>2
<1>13. Len(w) <= t
  BY <1>3, <1>4
<1>14. t \in ToSet(w)
  BY <1>10
<1> QED
  BY <1>3, <1>4, <1>7, <1>8, <1>12, <1>13, <1>14 DEF UpOK

LEMMA UpAll ==
  ASSUME NEW types, NEW n \in Nat, \A t \in 1..n : types[t].base \in 0..(t - 1), NEW f, IsUp(f, types, n)
  PROVE  \A t \in 0..n : UpOK(f, n, t)
<1>1. f[0] = <<>> /\ \A t \in 1..n : f[t] = <<t>> \o f[types[t].base]
  BY UpSteps
<1> DEFINE Bad == {t \in 0..n : ~UpOK(f, n, t)}
<1> SUFFICES ASSUME Bad # {} PROVE FALSE
  OBVIOUS
<1>2. Bad \in SUBSET Nat
  OBVIOUS
<1>3. PICK t \in Bad : \A u \in Bad : t <= u
  BY <1>2, LeastNumber
<1>4. UpOK(f, n, 0)
  <2>1. f[0] \in Seq(1..n) /\ Len(f[0]) = 0 /\ ToSet(f[0]) = {}
    BY <1>1 DEF ToSet
  <2> QED
    BY <2>1 DEF UpOK
<1>5. t \in 1..n
  BY <1>3, <1>4
<1>6. PICK b \in 0..(t - 1) : b = types[t].base
  BY <1>5
<1>7. b \in 0..n /\ ~(t <= b)
  BY <1>5
<1>8. UpOK(f, n, b)
  BY <1>3, <1>7
<1>9. UpOK(f, n, t)
  BY <1>1, <1>5, <1>6, <1>8, UpStep
<1> QED
  BY <1>3, <1>9

ClzTypeRecords == [base : Nat, interface : BOOLEAN, interfaces : SUBSET Nat]

ClzTypesOK ==
  /\ clzTypes \in Seq(ClzTypeRecords) /\ Len(clzTypes) <= ClzTypeCount
  /\ \A t \in 1..Len(clzTypes) : clzTypes[t].base \in 0..(t - 1)
  /\ clzMulti \subseteq ClzMethodIds \X Nat \X Nat

(* The bases of a type, itself included. *)
Above(t) == ToSet(Chain(t))

ChainOK(t) ==
  /\ Chain(t) \in Seq(TypeIds)
  /\ \A i, j \in 1..Len(Chain(t)) : i < j => Chain(t)[j] < Chain(t)[i]
  /\ t \in Above(t) /\ \A x \in Above(t) : x <= t
  /\ \A s \in Above(t) : Above(s) = {x \in Above(t) : x <= s}

(* A search does not end before the last base. *)
ClzTypesFit == ClzTypeCount <= MaxInheritanceDepth

LEMMA ChainsOK ==
  ASSUME ClzTypesOK, ClzTypesFit, ClzAssumption
  PROVE  \A t \in TypeIds : ChainOK(t)
<1>1. PICK n \in Nat : n = Len(clzTypes)
  BY DEF ClzTypesOK
<1>2. n <= 256 /\ TypeIds = 1..n
  BY <1>1 DEF ClzTypesOK, ClzTypesFit, MaxInheritanceDepth, TypeIds, ClzAssumption
<1>3. \A t \in 1..n : clzTypes[t].base \in 0..(t - 1)
  BY <1>1 DEF ClzTypesOK
<1> DEFINE f == CHOOSE g : IsUp(g, clzTypes, n)
<1>4. IsUp(f, clzTypes, n)
  BY <1>3, UpExists
<1>5. \A t : Chain(t) = IF t \in TypeIds
                        THEN SubSeq(f[t], 1, IF Len(f[t]) < MaxInheritanceDepth
                                             THEN Len(f[t]) ELSE MaxInheritanceDepth)
                        ELSE <<>>
  BY <1>1 DEF Chain, IsUp
<1> HIDE DEF f
<1>6. \A t \in 0..n : UpOK(f, n, t)
  BY <1>3, <1>4, UpAll
<1>7. ASSUME NEW t \in 1..n PROVE Chain(t) = f[t]
  <2>1. f[t] \in Seq(1..n) /\ Len(f[t]) \in Nat /\ Len(f[t]) <= t
    BY <1>6 DEF UpOK
  <2>2. Len(f[t]) <= 256
    BY <1>2, <2>1
  <2>3. (IF Len(f[t]) < MaxInheritanceDepth THEN Len(f[t]) ELSE MaxInheritanceDepth) = Len(f[t])
    BY <2>1, <2>2 DEF MaxInheritanceDepth
  <2>4. SubSeq(f[t], 1, Len(f[t])) = f[t]
    BY <2>1, SubSeqFull
  <2> QED
    BY <1>2, <1>5, <2>3, <2>4
<1>8. ASSUME NEW t \in 1..n PROVE ChainOK(t)
  <2>1. UpOK(f, n, t)
    BY <1>6
  <2>2. PICK c \in Seq(1..n) : c = f[t] /\ c = Chain(t)
    BY <1>7, <2>1 DEF UpOK
  <2>3. DOMAIN c = 1..Len(c) /\ \A x \in ToSet(c) : x \in 1..n
    BY DEF ToSet
  <2>4. \A x \in Above(t) : x <= t
    BY <2>1, <2>2, <2>3 DEF UpOK, Above, ToSet
  <2>5. ASSUME NEW s \in Above(t) PROVE Above(s) = {x \in Above(t) : x <= s}
    <3>1. s \in ToSet(c) /\ s \in 1..n
      BY <2>2, <2>3 DEF Above
    <3>2. ToSet(f[s]) = {x \in ToSet(c) : x <= s}
      BY <2>1, <2>2, <3>1 DEF UpOK
    <3> QED
      BY <1>7, <2>2, <3>1, <3>2 DEF Above
  <2>6. t \in Above(t)
    BY <2>1, <2>2 DEF UpOK, Above
  <2> QED
    BY <1>2, <2>1, <2>2, <2>4, <2>5, <2>6 DEF ChainOK, UpOK
<1> QED
  BY <1>2, <1>8

(* The first of a chain that is in a set is the greatest. *)
FirstOf(chain, S) ==
  LET found == LET I == {i \in 1..Len(chain) : chain[i] \in S} IN IF I # {} THEN Min(I) ELSE 0
  IN  IF found = 0 THEN 0 ELSE chain[found]

LEMMA FirstOfFacts ==
  ASSUME NEW t \in TypeIds, ChainOK(t), NEW S
  PROVE  \/ FirstOf(Chain(t), S) = 0 /\ \A x \in Above(t) : x \notin S
         \/ /\ FirstOf(Chain(t), S) \in Above(t) /\ FirstOf(Chain(t), S) \in S
            /\ FirstOf(Chain(t), S) # 0 /\ FirstOf(Chain(t), S) \in TypeIds
            /\ \A x \in Above(t) : x \in S => x <= FirstOf(Chain(t), S)
<1>1. PICK c \in Seq(TypeIds) : c = Chain(t)
  BY DEF ChainOK
<1>2. DOMAIN c = 1..Len(c) /\ Len(c) \in Nat /\ Above(t) = ToSet(c)
  BY <1>1 DEF Above
<1>3. PICK I : I = {i \in 1..Len(c) : c[i] \in S}
  OBVIOUS
<1>4. FirstOf(Chain(t), S) = LET found == IF I # {} THEN Min(I) ELSE 0 IN IF found = 0 THEN 0 ELSE c[found]
  BY <1>1, <1>3 DEF FirstOf
<1>5. CASE I = {}
  <2>1. FirstOf(Chain(t), S) = 0
    BY <1>4, <1>5
  <2>2. \A x \in Above(t) : x \notin S
    BY <1>2, <1>3, <1>5 DEF ToSet
  <2> QED
    BY <2>1, <2>2
<1>6. CASE I # {}
  <2>1. I \in SUBSET Nat
    BY <1>3
  <2>2. \E i \in I : \A j \in I : i <= j
    BY <1>6, <2>1, LeastNumber
  <2>3. PICK i \in I : i = Min(I) /\ \A j \in I : i <= j
    BY <2>2 DEF Min
  <2>4. i \in 1..Len(c) /\ c[i] \in S /\ i # 0
    BY <1>3, <2>3
  <2>5. FirstOf(Chain(t), S) = c[i]
    BY <1>4, <1>6, <2>3, <2>4
  <2>6. c[i] \in Above(t) /\ c[i] \in TypeIds /\ c[i] # 0
    BY <1>1, <1>2, <2>4 DEF ToSet, TypeIds
  <2>7. ASSUME NEW x \in Above(t), x \in S PROVE x <= c[i]
    <3>1. PICK j \in 1..Len(c) : x = c[j]
      BY <1>2 DEF ToSet
    <3>2. j \in I
      BY <1>3, <2>7, <3>1
    <3>3. i = j \/ i < j
      BY <2>1, <2>3, <2>4, <3>2
    <3>4. c[i] <= c[i]
      BY <2>6 DEF TypeIds
    <3>5. CASE i < j
      <4>1. c[j] < c[i]
        BY <1>1, <2>4, <3>1, <3>5 DEF ChainOK
      <4>2. c[j] \in TypeIds
        BY <1>1, <3>1
      <4> QED
        BY <2>6, <3>1, <4>1, <4>2 DEF TypeIds
    <3> QED
      BY <3>1, <3>3, <3>4, <3>5
  <2> QED
    BY <2>4, <2>5, <2>6, <2>7
<1> QED
  BY <1>5, <1>6

(* The searches of the registry in these terms. *)
LEMMA FindMethodIs ==
  ASSUME NEW t, NEW m, NEW S,
         \A i \in 1..Len(Chain(t)) : Chain(t)[i] \in S <=> <<Chain(t)[i], m>> \in clzMethods
  PROVE  FindMethod(t, m) = FirstOf(Chain(t), S)
<1> DEFINE I == {i \in 1..Len(Chain(t)) : <<Chain(t)[i], m>> \in clzMethods}
<1>1. I = {i \in 1..Len(Chain(t)) : Chain(t)[i] \in S}
  OBVIOUS
<1>2. FindMethod(t, m) = LET found == IF I # {} THEN Min(I) ELSE 0
                         IN  IF found = 0 THEN 0 ELSE Chain(t)[found]
  BY DEF FindMethod, FirstIn, SelectInSeq
<1> HIDE DEF I
<1> QED
  BY <1>1, <1>2 DEF FirstOf

(* The types of the chain of t that a method on pairs is registered for, with any of  *)
(* the chain of r, and those of the chain of r that go with l.                 *)
LeftsAre(S, m, t, r) ==
  \A i \in 1..Len(Chain(t)) : Chain(t)[i] \in S <=> \E y \in Above(r) : <<m, Chain(t)[i], y>> \in clzMulti
RightsAre(S, m, l, r) ==
  \A i \in 1..Len(Chain(r)) : Chain(r)[i] \in S <=> <<m, l, Chain(r)[i]>> \in clzMulti

LEMMA FindMultiIs ==
  ASSUME NEW m, NEW t, NEW r, NEW S, NEW R, NEW l, l = FirstOf(Chain(t), S),
         LeftsAre(S, m, t, r), RightsAre(R, m, l, r)
  PROVE  FindMulti(m, t, r) = <<l, FirstOf(Chain(r), R)>>
<1> DEFINE I == {i \in 1..Len(Chain(t)) : \E y \in ToSet(Chain(r)) : <<m, Chain(t)[i], y>> \in clzMulti}
           k == LET found == IF I # {} THEN Min(I) ELSE 0 IN IF found = 0 THEN 0 ELSE Chain(t)[found]
           J == {i \in 1..Len(Chain(r)) : <<m, k, Chain(r)[i]>> \in clzMulti}
           n == LET found == IF J # {} THEN Min(J) ELSE 0 IN IF found = 0 THEN 0 ELSE Chain(r)[found]
<1>1. I = {i \in 1..Len(Chain(t)) : Chain(t)[i] \in S}
  BY DEF Above, LeftsAre
<1>2. FindMulti(m, t, r) = <<k, n>>
  BY DEF FindMulti, FirstIn, SelectInSeq
<1>3. k = l
  <2> HIDE DEF I
  <2> QED
    BY <1>1 DEF FirstOf
<1> HIDE DEF k
<1>4. J = {i \in 1..Len(Chain(r)) : Chain(r)[i] \in R}
  BY <1>3 DEF RightsAre
<1>5. n = FirstOf(Chain(r), R)
  <2> HIDE DEF J
  <2> QED
    BY <1>4 DEF FirstOf
<1> QED
  BY <1>2, <1>3, <1>5

(* What a search for a pair finds. *)
MultiFound(m, t, r) ==
  \E l, n \in Nat :
    /\ FindMulti(m, t, r) = <<l, n>>
    /\ \/ l = 0 /\ \A x \in Above(t), y \in Above(r) : <<m, x, y>> \notin clzMulti
       \/ /\ l # 0 /\ l \in Above(t) /\ n \in Above(r) /\ <<m, l, n>> \in clzMulti
          /\ \A x \in Above(t), y \in Above(r) : <<m, x, y>> \in clzMulti => x <= l

LEMMA ChainElements ==
  ASSUME NEW t \in TypeIds, ChainOK(t)
  PROVE  /\ \A i \in 1..Len(Chain(t)) : Chain(t)[i] \in TypeIds /\ Chain(t)[i] \in Above(t)
         /\ Above(t) \subseteq TypeIds
<1>1. PICK c \in Seq(TypeIds) : c = Chain(t)
  BY DEF ChainOK
<1>2. DOMAIN c = 1..Len(c)
  OBVIOUS
<1> QED
  BY <1>1, <1>2 DEF Above, ToSet

LEMMA MultiFacts ==
  ASSUME NEW m, NEW t \in TypeIds, NEW r \in TypeIds, ChainOK(t), ChainOK(r)
  PROVE  MultiFound(m, t, r)
<1>1. PICK S : S = {x \in TypeIds : \E y \in Above(r) : <<m, x, y>> \in clzMulti}
  OBVIOUS
<1>2. PICK l : l = FirstOf(Chain(t), S)
  OBVIOUS
<1>3. PICK R : R = {y \in TypeIds : <<m, l, y>> \in clzMulti}
  OBVIOUS
<1>4. PICK n : n = FirstOf(Chain(r), R)
  OBVIOUS
<1>5. LeftsAre(S, m, t, r) /\ RightsAre(R, m, l, r)
  BY <1>1, <1>3, ChainElements DEF LeftsAre, RightsAre
<1>6. FindMulti(m, t, r) = <<l, n>>
  BY <1>2, <1>4, <1>5, FindMultiIs
<1>7. Above(t) \subseteq TypeIds /\ Above(r) \subseteq TypeIds /\ TypeIds \subseteq Nat
  BY ChainElements DEF TypeIds
<1>8. \/ l = 0 /\ \A x \in Above(t) : x \notin S
      \/ /\ l \in Above(t) /\ l \in S /\ l # 0
         /\ \A x \in Above(t) : x \in S => x <= l
  BY <1>2, FirstOfFacts
<1>9. \/ n = 0 /\ \A x \in Above(r) : x \notin R
      \/ n \in Above(r) /\ n \in R
  BY <1>4, FirstOfFacts
<1>10. l \in Nat /\ n \in Nat
  <2>1. l = 0 \/ l \in TypeIds
    BY <1>7, <1>8
  <2>2. n = 0 \/ n \in TypeIds
    BY <1>7, <1>9
  <2>3. 0 \in Nat
    OBVIOUS
  <2> QED
    BY <1>7, <2>1, <2>2, <2>3
<1>11. CASE l = 0 /\ \A x \in Above(t) : x \notin S
  <2>1. \A x \in Above(t), y \in Above(r) : <<m, x, y>> \notin clzMulti
    BY <1>1, <1>7, <1>11
  <2> QED
    BY <1>6, <1>10, <1>11, <2>1 DEF MultiFound
<1>12. CASE l \in Above(t) /\ l \in S /\ l # 0 /\ \A x \in Above(t) : x \in S => x <= l
  <2>1. PICK y \in Above(r) : <<m, l, y>> \in clzMulti
    BY <1>1, <1>12
  <2>2. y \in R
    BY <1>3, <1>7, <2>1
  <2>3. n \in Above(r) /\ <<m, l, n>> \in clzMulti
    BY <1>3, <1>9, <2>1, <2>2
  <2>4. \A x \in Above(t), z \in Above(r) : <<m, x, z>> \in clzMulti => x <= l
    BY <1>1, <1>7, <1>12
  <2> QED
    BY <1>6, <1>10, <1>12, <2>3, <2>4 DEF MultiFound
<1> QED
  BY <1>8, <1>11, <1>12

(* What is derived from a type answers what the type answers. *)
LEMMA DispatchIsInherited ==
  ASSUME ClzTypesOK, ClzTypesFit, ClzAssumption
  PROVE  DispatchInherited
<1>1. \A t \in TypeIds : ChainOK(t)
  BY ChainsOK
<1>2. \A t, e : IsA(t, e) <=> e \in Above(t)
  <2>1. \A t, e : (\E i \in 1..Len(Chain(t)) : Chain(t)[i] = e) <=> e \in Above(t)
    <3>1. ASSUME NEW t PROVE DOMAIN Chain(t) = 1..Len(Chain(t))
      <4>1. CASE t \in TypeIds
        BY <1>1, <4>1 DEF ChainOK
      <4>2. CASE t \notin TypeIds
        BY <4>2 DEF Chain
      <4> QED
        BY <4>1, <4>2
    <3> QED
      BY <3>1 DEF Above, ToSet
  <2> QED
    BY <2>1 DEF IsA, Contains
<1>3. SUFFICES ASSUME NEW t \in TypeIds, NEW base \in TypeIds, base \in Above(t)
               PROVE  /\ IsA(base, t) => t = base
                      /\ \A i \in TypeIds : HasInterface(base, i) => HasInterface(t, i)
                      /\ \A m \in ClzMethodIds :
                           /\ FindMethod(base, m) # 0 => FindMethod(t, m) # 0 /\ IsA(t, FindMethod(t, m))
                           /\ \A r \in TypeIds :
                                LET found == FindMulti(m, t, r)
                                IN  /\ FindMulti(m, base, r)[1] # 0 \/ FindMulti(m, r, base)[1] # 0 =>
                                         found[1] # 0 \/ FindMulti(m, r, t)[1] # 0
                                    /\ IF found[1] = 0
                                       THEN \A x \in clzMulti : ~(x[1] = m /\ IsA(t, x[2]) /\ IsA(r, x[3]))
                                       ELSE /\ <<m>> \o found \in clzMulti /\ IsA(t, found[1]) /\ IsA(r, found[2])
                                            /\ \A x \in clzMulti :
                                                 x[1] = m /\ IsA(t, x[2]) /\ IsA(r, x[3]) => IsA(found[1], x[2])
  BY <1>2 DEF DispatchInherited
<1>4. ChainOK(t) /\ ChainOK(base)
  BY <1>1, <1>3
<1>5. /\ base <= t /\ \A x \in Above(base) : x <= base /\ x \in Above(t)
      /\ Above(t) \subseteq TypeIds
  BY <1>3, <1>4, ChainElements DEF ChainOK
<1>6. TypeIds \subseteq Nat
  BY DEF TypeIds
<1>7. IsA(base, t) => t = base
  BY <1>2, <1>5, <1>6
<1>8. \A i \in TypeIds : HasInterface(base, i) => HasInterface(t, i)
  BY <1>5 DEF HasInterface, Above
<1>9. ASSUME NEW m \in ClzMethodIds, FindMethod(base, m) # 0
      PROVE  FindMethod(t, m) # 0 /\ IsA(t, FindMethod(t, m))
  <2> DEFINE S == {x \in TypeIds : <<x, m>> \in clzMethods}
  <2>1. /\ \A i \in 1..Len(Chain(t)) : Chain(t)[i] \in S <=> <<Chain(t)[i], m>> \in clzMethods
        /\ \A i \in 1..Len(Chain(base)) : Chain(base)[i] \in S <=> <<Chain(base)[i], m>> \in clzMethods
    BY <1>4, ChainElements
  <2> HIDE DEF S
  <2>2. FindMethod(t, m) = FirstOf(Chain(t), S) /\ FindMethod(base, m) = FirstOf(Chain(base), S)
    BY <2>1, FindMethodIs
  <2>3. \E x \in Above(base) : x \in S
    BY <1>4, <1>9, <2>2, FirstOfFacts
  <2>4. \E x \in Above(t) : x \in S
    BY <1>5, <2>3
  <2>5. FirstOf(Chain(t), S) # 0 /\ FirstOf(Chain(t), S) \in Above(t)
    BY <1>4, <2>4, FirstOfFacts
  <2> QED
    BY <1>2, <2>2, <2>5
<1>10. ASSUME NEW m \in ClzMethodIds, NEW r \in TypeIds
       PROVE  LET found == FindMulti(m, t, r)
              IN  /\ FindMulti(m, base, r)[1] # 0 \/ FindMulti(m, r, base)[1] # 0 =>
                       found[1] # 0 \/ FindMulti(m, r, t)[1] # 0
                  /\ IF found[1] = 0
                     THEN \A x \in clzMulti : ~(x[1] = m /\ IsA(t, x[2]) /\ IsA(r, x[3]))
                     ELSE /\ <<m>> \o found \in clzMulti /\ IsA(t, found[1]) /\ IsA(r, found[2])
                          /\ \A x \in clzMulti :
                               x[1] = m /\ IsA(t, x[2]) /\ IsA(r, x[3]) => IsA(found[1], x[2])
  <2>1. ChainOK(r) /\ Above(r) \subseteq TypeIds
    BY <1>1, ChainElements
  <2>2. MultiFound(m, t, r) /\ MultiFound(m, base, r) /\ MultiFound(m, r, base) /\ MultiFound(m, r, t)
    BY <1>4, <2>1, MultiFacts
  <2>3. PICK l, n \in Nat :
          /\ FindMulti(m, t, r) = <<l, n>>
          /\ \/ l = 0 /\ \A x \in Above(t), y \in Above(r) : <<m, x, y>> \notin clzMulti
             \/ /\ l # 0 /\ l \in Above(t) /\ n \in Above(r) /\ <<m, l, n>> \in clzMulti
                /\ \A x \in Above(t), y \in Above(r) : <<m, x, y>> \in clzMulti => x <= l
    BY <2>2 DEF MultiFound
  <2>4. FindMulti(m, base, r)[1] # 0 => l # 0
    <3>1. HAVE FindMulti(m, base, r)[1] # 0
    <3>2. \E x \in Above(base), y \in Above(r) : <<m, x, y>> \in clzMulti
      BY <2>2, <3>1 DEF MultiFound
    <3>3. \E x \in Above(t), y \in Above(r) : <<m, x, y>> \in clzMulti
      BY <1>5, <3>2
    <3> QED
      BY <2>3, <3>3
  <2>5. FindMulti(m, r, base)[1] # 0 => FindMulti(m, r, t)[1] # 0
    <3>1. HAVE FindMulti(m, r, base)[1] # 0
    <3>2. \E x \in Above(r), y \in Above(base) : <<m, x, y>> \in clzMulti
      BY <2>2, <3>1 DEF MultiFound
    <3>3. \E x \in Above(r), y \in Above(t) : <<m, x, y>> \in clzMulti
      BY <1>5, <3>2
    <3> QED
      BY <2>2, <3>3 DEF MultiFound
  <2>6. ASSUME NEW x \in clzMulti, x[1] = m PROVE <<m, x[2], x[3]>> \in clzMulti
    <3>1. x = <<x[1], x[2], x[3]>>
      BY DEF ClzTypesOK
    <3> QED
      BY <2>6, <3>1
  <2>7. <<m>> \o <<l, n>> = <<m, l, n>>
    <3>1. PICK X : X = {m, l, n}
      OBVIOUS
    <3>2. /\ <<m>> \in Seq(X) /\ Len(<<m>>) = 1 /\ <<m>>[1] = m
          /\ <<l, n>> \in Seq(X) /\ Len(<<l, n>>) = 2 /\ <<l, n>>[1] = l /\ <<l, n>>[2] = n
      BY <3>1
    <3>3. PICK s : s = <<m>> \o <<l, n>>
      OBVIOUS
    <3>4. s \in Seq(X) /\ Len(s) = 3 /\ s[1] = m /\ s[2] = l /\ s[3] = n
      BY <3>2, <3>3, ConcatProperties
    <3>5. <<m, l, n>> \in Seq(X) /\ Len(<<m, l, n>>) = 3
      BY <3>1
    <3>6. s = <<m, l, n>>
      <4>1. PICK u \in Seq(X) : u = <<m, l, n>>
        BY <3>5
      <4>2. Len(u) = 3 /\ u[1] = m /\ u[2] = l /\ u[3] = n
        BY <4>1
      <4>3. Len(s) = Len(u) /\ \A i \in 1..Len(s) : s[i] = u[i]
        BY <3>4, <4>2
      <4>4. s = u
        BY <3>4, <4>3, SeqEqual
      <4> QED
        BY <4>1, <4>4
    <3> QED
      BY <3>3, <3>6
  <2>8. CASE l = 0
    <3>1. \A x \in clzMulti : ~(x[1] = m /\ IsA(t, x[2]) /\ IsA(r, x[3]))
      BY <1>2, <2>3, <2>6, <2>8
    <3>2. <<l, n>>[1] = 0
      BY <2>8
    <3> QED
      BY <2>3, <2>4, <2>5, <3>1, <3>2
  <2>9. CASE l # 0
    <3>1. l \in Above(t) /\ n \in Above(r) /\ <<m, l, n>> \in clzMulti
      BY <2>3, <2>9
    <3>2. ASSUME NEW x \in clzMulti, x[1] = m, IsA(t, x[2]), IsA(r, x[3]) PROVE IsA(l, x[2])
      <4>1. x[2] \in Above(t) /\ x[2] <= l
        BY <1>2, <2>3, <2>6, <2>9, <3>2
      <4>2. Above(l) = {y \in Above(t) : y <= l}
        BY <1>4, <3>1 DEF ChainOK
      <4> QED
        BY <1>2, <4>1, <4>2
    <3>3. <<l, n>>[1] = l /\ <<l, n>>[2] = n
      OBVIOUS
    <3> QED
      BY <1>2, <2>3, <2>7, <2>9, <3>1, <3>2, <3>3
  <2> QED
    BY <2>8, <2>9
<1> QED
  BY <1>7, <1>8, <1>9, <1>10

-----------------------------------------------------------------------------
(* The object registry: handles, references and payloads *)

FoundIn(objects, h) ==
  /\ h[1] \in DOMAIN objects
  /\ objects[h[1]].active /\ objects[h[1]].generation = h[2] /\ objects[h[1]].refs # 0
RefsIn(objects, h) == IF FoundIn(objects, h) THEN objects[h[1]].refs ELSE 0

ClzSlotRecords ==
  [generation : Nat, active : BOOLEAN, type : Nat, refs : Nat, payload : SUBSET ClzPayloads]

(* A slot is in use, for the payload that its handle was made for, or empty. *)
SlotOK(o, s, given) ==
  /\ o.generation # 0
  /\ ~o.active => o.refs = 0 /\ o.payload = {}
  /\ o.active => /\ o.refs # 0 /\ <<s, o.generation>> \in DOMAIN given
                 /\ o.payload = {given[<<s, o.generation>>]}

(* A handle is of its slot's generation or of an earlier one. *)
GivenOK(objects, given, destroyed, h) ==
  /\ h \in ClzHandles /\ h[1] \in DOMAIN objects
  /\ h[2] <= objects[h[1]].generation
  /\ h[2] = objects[h[1]].generation => objects[h[1]].active
  /\ given[h] \in ClzPayloads
  /\ destroyed[given[h]] = IF FoundIn(objects, h) THEN 0 ELSE 1

TableOK(objects, given, destroyed) ==
  /\ objects \in Seq(ClzSlotRecords) /\ destroyed \in [ClzPayloads -> {0, 1}]
  /\ \A s \in DOMAIN objects : SlotOK(objects[s], s, given)
  /\ \A h \in DOMAIN given : GivenOK(objects, given, destroyed, h)
  /\ \A h, k \in DOMAIN given : given[h] = given[k] => h = k

ClzFrameRecords ==
  [at : {"method", "leave", "destructor"}, handles : Seq(ClzHandles), payloads : SUBSET ClzPayloads]

FrameOK(frame, given) ==
  /\ frame.at = "method" =>
       /\ Len(frame.handles) \in {1, 2}
       /\ \A p \in frame.payloads : \E i \in 1..Len(frame.handles) :
            frame.handles[i] \in DOMAIN given /\ p = given[frame.handles[i]]
  /\ frame.at = "leave" => Len(frame.handles) = 1
  /\ frame.at = "destructor" => frame.handles = <<>>

StackOK(stack, given) ==
  /\ stack \in Seq(ClzFrameRecords)
  /\ \A f \in 1..Len(stack) :
       /\ FrameOK(stack[f], given)
       /\ stack[f].at # "destructor" => f <= ClzNesting + 1

(* The operand at a place of a stack is h. *)
AtIn(stack, x, h) ==
  /\ x[2][1] \in DOMAIN stack /\ x[2][2] \in DOMAIN stack[x[2][1]].handles
  /\ stack[x[2][1]].handles[x[2][2]] = h
CallsIn(frames, h) == {x \in ClzOperands : AtIn(frames[x[1]], x, h)}

Counted(objects, held, frames) ==
  /\ held \in [ClzHandles -> 0..ClzHolds]
  /\ \A h \in ClzHandles : held[h] + Cardinality(CallsIn(frames, h)) = RefsIn(objects, h)

ClzInv ==
  /\ ClzTypesOK
  /\ TableOK(clzObjects, clzGiven, clzDestroyed)
  /\ clzFrames \in [ClzThreads -> Seq(ClzFrameRecords)]
  /\ \A th \in ClzThreads : StackOK(clzFrames[th], clzGiven)
  /\ Counted(clzObjects, clzHeld, clzFrames)

(* The counts of references stay below the width at which they wrap. *)
ClzRefsFit == ClzHolds + Cardinality(ClzOperands) <= ClzMaxRefs

LEMMA FoundSame ==
  ASSUME NEW o, NEW o2, NEW k, k[1] \in DOMAIN o <=> k[1] \in DOMAIN o2,
         k[1] \in DOMAIN o => o2[k[1]] = o[k[1]]
  PROVE  (FoundIn(o2, k) <=> FoundIn(o, k)) /\ RefsIn(o2, k) = RefsIn(o, k)
BY DEF FoundIn, RefsIn

LEMMA HandlePairs ==
  ASSUME NEW h \in ClzHandles
  PROVE  h = <<h[1], h[2]>> /\ h[1] \in Nat /\ h[2] \in Nat /\ h[1] # 0 /\ h[2] # 0
<1>1. PICK a \in 1..ClzSlots, b \in 1..ClzMaxGen : h = <<a, b>>
  BY DEF ClzHandles
<1>2. a \in Nat /\ b \in Nat /\ a # 0 /\ b # 0
  OBVIOUS
<1> QED
  BY <1>1, <1>2

(* A slot is taken, for a payload that is new. *)
SlotTaken(o, o2, g, g2, d, slot, gen, p) ==
  /\ o2 \in Seq(ClzSlotRecords) /\ DOMAIN o2 = DOMAIN o \cup {slot}
  /\ \A s \in DOMAIN o : s # slot => o2[s] = o[s]
  /\ slot \in DOMAIN o => ~o[slot].active /\ o[slot].generation = gen
  /\ <<slot, gen>> \in ClzHandles
  /\ o2[slot].generation = gen /\ o2[slot].active /\ o2[slot].refs = 1 /\ o2[slot].payload = {p}
  /\ p \in ClzPayloads /\ d[p] = 0 /\ \A h \in DOMAIN g : g[h] # p
  /\ DOMAIN g2 = DOMAIN g \cup {<<slot, gen>>} /\ g2[<<slot, gen>>] = p
  /\ \A h \in DOMAIN g : g2[h] = g[h]

LEMMA TableAdded ==
  ASSUME NEW o, NEW g, NEW d, TableOK(o, g, d), NEW slot, NEW gen, NEW p, NEW o2, NEW g2,
         SlotTaken(o, o2, g, g2, d, slot, gen, p)
  PROVE  /\ TableOK(o2, g2, d)
         /\ <<slot, gen>> \notin DOMAIN g
         /\ RefsIn(o, <<slot, gen>>) = 0 /\ RefsIn(o2, <<slot, gen>>) = 1
         /\ \A k \in ClzHandles : k # <<slot, gen>> => RefsIn(o2, k) = RefsIn(o, k)
<1> USE DEF SlotTaken
<1>1. PICK n : n = <<slot, gen>>
  OBVIOUS
<1>2. n \in ClzHandles /\ n[1] = slot /\ n[2] = gen /\ gen # 0 /\ gen \in Nat
  BY <1>1, HandlePairs
<1>3. n \notin DOMAIN g
  <2>1. SUFFICES ASSUME n \in DOMAIN g PROVE FALSE
    OBVIOUS
  <2>2. GivenOK(o, g, d, n)
    BY <2>1 DEF TableOK
  <2> QED
    BY <1>2, <2>2 DEF GivenOK
<1>4. RefsIn(o, n) = 0 /\ FoundIn(o2, n) /\ RefsIn(o2, n) = 1
  BY <1>2 DEF RefsIn, FoundIn
<1>5. ASSUME NEW k \in ClzHandles, k # n
      PROVE  (FoundIn(o2, k) <=> FoundIn(o, k)) /\ RefsIn(o2, k) = RefsIn(o, k)
  <2>1. CASE k[1] = slot
    <3>1. k[2] # gen
      BY <1>1, <1>5, <2>1, HandlePairs
    <3>2. ~FoundIn(o2, k) /\ ~FoundIn(o, k)
      BY <2>1, <3>1 DEF FoundIn
    <3> QED
      BY <3>2 DEF RefsIn
  <2>2. CASE k[1] # slot
    BY <2>2, FoundSame
  <2> QED
    BY <2>1, <2>2
<1>6. ASSUME NEW s \in DOMAIN o2 PROVE SlotOK(o2[s], s, g2)
  <2>1. CASE s = slot
    <3>1. <<s, o2[s].generation>> = n
      BY <1>1, <2>1
    <3>2. n \in DOMAIN g2 /\ g2[n] = p
      BY <1>1
    <3> QED
      BY <1>2, <2>1, <3>1, <3>2 DEF SlotOK
  <2>2. CASE s # slot
    <3>1. s \in DOMAIN o /\ o2[s] = o[s]
      BY <2>2
    <3>2. SlotOK(o[s], s, g)
      BY <3>1 DEF TableOK
    <3>3. PICK k : k = <<s, o[s].generation>>
      OBVIOUS
    <3>4. k \in DOMAIN g => k \in DOMAIN g2 /\ g2[k] = g[k]
      OBVIOUS
    <3> QED
      BY <3>1, <3>2, <3>3, <3>4 DEF SlotOK
  <2> QED
    BY <2>1, <2>2
<1>7. ASSUME NEW h \in DOMAIN g2 PROVE GivenOK(o2, g2, d, h)
  <2>1. CASE h = n
    <3>1. g2[h] = p /\ d[g2[h]] = 0 /\ gen <= gen
      BY <1>1, <1>2, <2>1
    <3> QED
      BY <1>2, <1>4, <2>1, <3>1 DEF GivenOK
  <2>2. CASE h # n
    <3>1. h \in DOMAIN g /\ g2[h] = g[h]
      BY <1>1, <2>2
    <3>2. GivenOK(o, g, d, h)
      BY <3>1 DEF TableOK
    <3>3. h \in ClzHandles /\ (FoundIn(o2, h) <=> FoundIn(o, h))
      BY <1>5, <2>2, <3>2 DEF GivenOK
    <3>4. o2[h[1]].generation = o[h[1]].generation
      BY <3>2 DEF GivenOK
    <3>5. o[h[1]].active => o2[h[1]].active
      BY <3>2 DEF GivenOK
    <3> QED
      BY <3>1, <3>2, <3>3, <3>4, <3>5 DEF GivenOK
  <2> QED
    BY <2>1, <2>2
<1>8. \A h, k \in DOMAIN g2 : g2[h] = g2[k] => h = k
  <2>1. \A h \in DOMAIN g2 : h = n \/ (h \in DOMAIN g /\ g2[h] = g[h] /\ g2[h] # p)
    BY <1>1
  <2>2. g2[n] = p
    BY <1>1
  <2>3. \A h, k \in DOMAIN g : g[h] = g[k] => h = k
    BY DEF TableOK
  <2> QED
    BY <2>1, <2>2, <2>3
<1>9. d \in [ClzPayloads -> {0, 1}]
  BY DEF TableOK
<1> QED
  BY <1>1, <1>3, <1>4, <1>5, <1>6, <1>7, <1>8, <1>9 DEF TableOK

(* Counts change, but not from or to zero. *)
LEMMA TableBumped ==
  ASSUME NEW o, NEW g, NEW d, TableOK(o, g, d), NEW o2 \in Seq(ClzSlotRecords), DOMAIN o2 = DOMAIN o,
         \A s \in DOMAIN o : /\ o2[s].generation = o[s].generation /\ o2[s].active = o[s].active
                             /\ o2[s].payload = o[s].payload /\ (o2[s].refs = 0 <=> o[s].refs = 0)
  PROVE  /\ TableOK(o2, g, d)
         /\ \A k : FoundIn(o2, k) <=> FoundIn(o, k)
<1>1. \A k : FoundIn(o2, k) <=> FoundIn(o, k)
  BY DEF FoundIn
<1>2. \A s \in DOMAIN o2 : SlotOK(o2[s], s, g)
  BY DEF TableOK, SlotOK
<1>3. \A h \in DOMAIN g : GivenOK(o2, g, d, h)
  BY <1>1 DEF TableOK, GivenOK
<1> QED
  BY <1>1, <1>2, <1>3 DEF TableOK

(* The last reference is gone: the payload is destroyed, and its handle finds      *)
(* nothing any more.                                                         *)
LEMMA TableEmptied ==
  ASSUME NEW o, NEW g, NEW d, TableOK(o, g, d), NEW h \in ClzHandles, FoundIn(o, h),
         NEW o2 \in Seq(ClzSlotRecords), DOMAIN o2 = DOMAIN o,
         \A s \in DOMAIN o : s # h[1] => o2[s] = o[s],
         o2[h[1]].generation = h[2] + 1, ~o2[h[1]].active, o2[h[1]].refs = 0, o2[h[1]].payload = {},
         NEW d2 \in [ClzPayloads -> Int],
         \A p \in ClzPayloads : d2[p] = d[p] + (IF p \in o[h[1]].payload THEN 1 ELSE 0)
  PROVE  /\ TableOK(o2, g, d2)
         /\ RefsIn(o2, h) = 0
         /\ \A k \in ClzHandles : k # h => RefsIn(o2, k) = RefsIn(o, k)
<1>1. h = <<h[1], h[2]>> /\ h[2] \in Nat /\ h[2] # h[2] + 1 /\ h[2] <= h[2] + 1
  BY HandlePairs
<1>2. h[1] \in DOMAIN o /\ o[h[1]].generation = h[2] /\ o[h[1]].active
  BY DEF FoundIn
<1>3. h \in DOMAIN g /\ o[h[1]].payload = {g[h]}
  BY <1>1, <1>2 DEF TableOK, SlotOK
<1>4. ~FoundIn(o2, h) /\ RefsIn(o2, h) = 0
  BY DEF FoundIn, RefsIn
<1>5. ASSUME NEW k \in ClzHandles, k # h
      PROVE  RefsIn(o2, k) = RefsIn(o, k) /\ (FoundIn(o2, k) <=> FoundIn(o, k))
  <2>1. CASE k[1] = h[1]
    <3>1. k[2] # h[2]
      BY <1>1, <1>5, <2>1, HandlePairs
    <3>2. ~FoundIn(o2, k) /\ ~FoundIn(o, k)
      BY <1>2, <2>1, <3>1 DEF FoundIn
    <3> QED
      BY <3>2 DEF RefsIn
  <2>2. CASE k[1] # h[1]
    BY <2>2, FoundSame
  <2> QED
    BY <2>1, <2>2
<1>6. g[h] \in ClzPayloads /\ d[g[h]] = 0
  BY <1>3 DEF TableOK, GivenOK
<1>7. \A p \in ClzPayloads : d2[p] = IF p = g[h] THEN 1 ELSE d[p]
  <2>1. d \in [ClzPayloads -> {0, 1}]
    BY DEF TableOK
  <2> QED
    BY <1>3, <1>6, <2>1
<1>8. d2 \in [ClzPayloads -> {0, 1}]
  <2>1. d \in [ClzPayloads -> {0, 1}]
    BY DEF TableOK
  <2>2. \A p \in ClzPayloads : d2[p] \in {0, 1}
    BY <1>7, <2>1
  <2> QED
    BY <2>2
<1>9. ASSUME NEW s \in DOMAIN o2 PROVE SlotOK(o2[s], s, g)
  <2>1. CASE s = h[1]
    BY <1>1, <2>1 DEF SlotOK
  <2>2. CASE s # h[1]
    BY <2>2 DEF TableOK
  <2> QED
    BY <2>1, <2>2
<1>10. ASSUME NEW k \in DOMAIN g PROVE GivenOK(o2, g, d2, k)
  <2>1. GivenOK(o, g, d, k)
    BY DEF TableOK
  <2>2. CASE k = h
    <3>1. d2[g[k]] = 1
      BY <1>6, <1>7, <2>2
    <3> QED
      BY <1>1, <1>4, <2>1, <2>2, <3>1 DEF GivenOK
  <2>3. CASE k # h
    <3>1. k \in ClzHandles /\ g[k] \in ClzPayloads /\ g[k] # g[h]
      BY <1>3, <2>1, <2>3 DEF TableOK, GivenOK
    <3>2. d2[g[k]] = d[g[k]] /\ (FoundIn(o2, k) <=> FoundIn(o, k))
      BY <1>5, <1>7, <2>3, <3>1
    <3>3. CASE k[1] = h[1]
      <4>1. k[2] # h[2] /\ k[2] \in Nat
        BY <1>1, <2>3, <3>1, <3>3, HandlePairs
      <4>2. k[2] <= h[2]
        BY <1>2, <2>1, <3>3 DEF GivenOK
      <4>3. k[2] <= h[2] + 1 /\ k[2] # h[2] + 1
        BY <1>1, <4>1, <4>2
      <4> QED
        BY <2>1, <3>2, <3>3, <4>3 DEF GivenOK
    <3>4. CASE k[1] # h[1]
      <4>1. k[1] \in DOMAIN o /\ o2[k[1]] = o[k[1]]
        BY <2>1, <3>4 DEF GivenOK
      <4> QED
        BY <2>1, <3>2, <4>1 DEF GivenOK
    <3> QED
      BY <3>3, <3>4
  <2> QED
    BY <2>2, <2>3
<1> QED
  BY <1>4, <1>5, <1>8, <1>9, <1>10 DEF TableOK

LEMMA PairFinite == IsFiniteSet({1, 2})
<1>1. {1, 2} = 1..2
  OBVIOUS
<1>2. 1 \in Int /\ 2 \in Int
  OBVIOUS
<1>3. IsFiniteSet(1..2)
  BY <1>2, FS_Interval
<1> QED
  BY <1>1, <1>3

LEMMA ClzNoWrap ==
  ASSUME NEW a \in Nat, NEW n \in Nat, a <= n
  PROVE  a % (n + 1) = a
OBVIOUS

(* What holding the operands of a call does to the counts. *)
LEMMA RetainedIs ==
  ASSUME ClzAssumption, NEW g, NEW d, TableOK(clzObjects, g, d), NEW H, DOMAIN H \subseteq {1, 2},
         \A i \in DOMAIN H : H[i] \in ClzHandles /\ FoundIn(clzObjects, H[i]),
         \A k \in ClzHandles : RefsIn(clzObjects, k) + Cardinality({i \in DOMAIN H : H[i] = k}) <= ClzMaxRefs,
         \A s \in DOMAIN clzObjects : clzObjects[s].refs <= ClzMaxRefs
  PROVE  /\ TableOK(Retained(H), g, d)
         /\ \A k \in ClzHandles :
              RefsIn(Retained(H), k) = RefsIn(clzObjects, k) + Cardinality({i \in DOMAIN H : H[i] = k})
<1>1. PICK o \in Seq(ClzSlotRecords) : o = clzObjects
  BY DEF TableOK
<1>2. PICK o2 : o2 = Retained(H)
  OBVIOUS
<1>0. ASSUME NEW s \in DOMAIN o PROVE o[s] \in ClzSlotRecords /\ o[s].refs \in Nat
  <2>1. o[s] \in ClzSlotRecords
    OBVIOUS
  <2> QED
    BY <2>1 DEF ClzSlotRecords
<1> DEFINE At(s) == {i \in DOMAIN H : H[i][1] = s}
<1>3. \A s : Cardinality(At(s)) \in Nat
  <2>1. ASSUME NEW s PROVE Cardinality(At(s)) \in Nat
    <3>1. IsFiniteSet({1, 2})
      BY PairFinite
    <3>2. At(s) \in SUBSET {1, 2}
      OBVIOUS
    <3>3. IsFiniteSet(At(s))
      BY <3>1, <3>2, FS_Subset
    <3> QED
      BY <3>3, FS_CardinalityType
  <2> QED
    BY <2>1
<1>4. ASSUME NEW s \in DOMAIN o, At(s) = {} PROVE Cardinality(At(s)) = 0
  BY <1>4, FS_EmptySet
<1>5. ASSUME NEW s \in DOMAIN o, At(s) # {}
      PROVE  \E k \in ClzHandles : /\ k[1] = s /\ FoundIn(o, k) /\ At(s) = {i \in DOMAIN H : H[i] = k}
                                   /\ \A j \in ClzHandles : FoundIn(o, j) /\ j[1] = s => j = k
  <2>1. PICK i \in DOMAIN H : H[i][1] = s
    BY <1>5
  <2>2. PICK k \in ClzHandles : k = H[i] /\ FoundIn(o, k) /\ k[1] = s
    BY <1>1, <2>1
  <2>3. ASSUME NEW j \in ClzHandles, FoundIn(o, j), j[1] = s PROVE j = k
    BY <2>2, <2>3, HandlePairs DEF FoundIn
  <2>4. \A j \in DOMAIN H : H[j][1] = s <=> H[j] = k
    BY <1>1, <2>2, <2>3
  <2> QED
    BY <2>2, <2>3, <2>4
<1>6. ASSUME NEW s \in DOMAIN o
      PROVE  o[s].refs + Cardinality(At(s)) <= ClzMaxRefs /\ (At(s) # {} => o[s].refs # 0)
  <2>1. CASE At(s) = {}
    <3>1. PICK n \in Nat : n = o[s].refs
      BY <1>0
    <3>2. n <= ClzMaxRefs /\ Cardinality(At(s)) = 0
      BY <1>1, <1>4, <2>1, <3>1
    <3> QED
      BY <2>1, <3>1, <3>2
  <2>2. CASE At(s) # {}
    <3>1. PICK k \in ClzHandles : k[1] = s /\ FoundIn(o, k) /\ At(s) = {i \in DOMAIN H : H[i] = k}
      BY <1>5, <2>2
    <3>2. RefsIn(o, k) = o[s].refs /\ o[s].refs # 0
      BY <3>1 DEF RefsIn, FoundIn
    <3>3. RefsIn(o, k) + Cardinality({i \in DOMAIN H : H[i] = k}) <= ClzMaxRefs
      BY <1>1
    <3> QED
      BY <3>1, <3>2, <3>3
  <2> QED
    BY <2>1, <2>2
<1>7. o2 = [s \in DOMAIN o |-> [o[s] EXCEPT !.refs = (@ + Cardinality(At(s))) % (ClzMaxRefs + 1)]]
  BY <1>1, <1>2 DEF Retained
<1> HIDE DEF At
<1>8. ASSUME NEW s \in DOMAIN o
      PROVE  /\ o2[s] \in ClzSlotRecords /\ o2[s].generation = o[s].generation
             /\ o2[s].active = o[s].active /\ o2[s].payload = o[s].payload
             /\ o2[s].refs = o[s].refs + Cardinality(At(s))
  <2>1. PICK r \in ClzSlotRecords : r = o[s]
    OBVIOUS
  <2>2. PICK c \in Nat : c = Cardinality(At(s))
    BY <1>3
  <2>3. r.refs \in Nat /\ r.refs + c \in Nat /\ r.refs + c <= ClzMaxRefs /\ ClzMaxRefs \in Nat
    <3>1. r.refs \in Nat /\ ClzMaxRefs \in Nat
      BY <1>0, <2>1 DEF ClzAssumption
    <3>2. r.refs + c <= ClzMaxRefs
      BY <1>6, <2>1, <2>2
    <3> QED
      BY <3>1, <3>2
  <2>4. PICK n \in Nat : n = r.refs + c /\ (r.refs + c) % (ClzMaxRefs + 1) = n
    BY <2>3, ClzNoWrap
  <2>5. o2[s] = [r EXCEPT !.refs = n]
    BY <1>7, <2>1, <2>2, <2>4
  <2> QED
    BY <2>1, <2>2, <2>4, <2>5 DEF ClzSlotRecords
<1>9. o2 \in Seq(ClzSlotRecords) /\ DOMAIN o2 = DOMAIN o
  <2>1. DOMAIN o = 1..Len(o) /\ Len(o) \in Nat
    OBVIOUS
  <2>2. o2 \in [1..Len(o) -> ClzSlotRecords]
    BY <1>7, <1>8, <2>1
  <2> QED
    BY <2>1, <2>2
<1>10. ASSUME NEW s \in DOMAIN o PROVE o2[s].refs = 0 <=> o[s].refs = 0
  <2>1. o[s].refs \in Nat
    BY <1>0
  <2>2. CASE At(s) = {}
    BY <1>4, <1>8, <2>1, <2>2
  <2>3. CASE At(s) # {}
    <3>1. o[s].refs # 0 /\ Cardinality(At(s)) \in Nat
      BY <1>3, <1>6, <2>3
    <3> QED
      BY <1>8, <2>1, <3>1
  <2> QED
    BY <2>2, <2>3
<1>11. TableOK(o, g, d)
  BY <1>1
<1>12. TableOK(o2, g, d) /\ \A k : FoundIn(o2, k) <=> FoundIn(o, k)
  BY <1>8, <1>9, <1>10, <1>11, TableBumped
<1>13. ASSUME NEW k \in ClzHandles
       PROVE  RefsIn(o2, k) = RefsIn(o, k) + Cardinality({i \in DOMAIN H : H[i] = k})
  <2>1. CASE ~FoundIn(o, k)
    <3>1. {i \in DOMAIN H : H[i] = k} = {}
      BY <1>1, <2>1
    <3> QED
      <4>1. Cardinality({i \in DOMAIN H : H[i] = k}) = 0
        BY <3>1, FS_EmptySet
      <4>2. RefsIn(o2, k) = 0 /\ RefsIn(o, k) = 0
        BY <1>12, <2>1 DEF RefsIn
      <4> QED
        BY <4>1, <4>2
  <2>2. CASE FoundIn(o, k)
    <3>1. k[1] \in DOMAIN o
      BY <2>2 DEF FoundIn
    <3>2. RefsIn(o2, k) = o[k[1]].refs + Cardinality(At(k[1])) /\ RefsIn(o, k) = o[k[1]].refs
      BY <1>8, <1>12, <2>2, <3>1 DEF RefsIn
    <3>3. At(k[1]) = {i \in DOMAIN H : H[i] = k}
      <4>1. CASE At(k[1]) = {}
        BY <4>1 DEF At
      <4>2. CASE At(k[1]) # {}
        BY <1>5, <2>2, <3>1, <4>2
      <4> QED
        BY <4>1, <4>2
    <3> QED
      BY <3>2, <3>3
  <2> QED
    BY <2>1, <2>2
<1> QED
  BY <1>1, <1>2, <1>12, <1>13

-----------------------------------------------------------------------------
(* The object registry: the methods and destructors under way *)

LEMMA ClzOperandsFinite ==
  ASSUME ClzAssumption
  PROVE  /\ IsFiniteSet(ClzOperands)
         /\ \A frames, h : /\ IsFiniteSet(CallsIn(frames, h)) /\ Cardinality(CallsIn(frames, h)) \in Nat
                           /\ Cardinality(CallsIn(frames, h)) <= Cardinality(ClzOperands)
         /\ Cardinality(ClzOperands) \in Nat
<1>1. IsFiniteSet(1..(ClzNesting + 2))
  <2>1. ClzNesting + 2 \in Int /\ 1 \in Int
    BY DEF ClzAssumption
  <2> QED
    BY <2>1, FS_Interval
<1>2. IsFiniteSet({1, 2})
  BY PairFinite
<1>3. IsFiniteSet((1..(ClzNesting + 2)) \X {1, 2})
  BY <1>1, <1>2, FS_Product
<1>4. IsFiniteSet(ClzOperands)
  BY <1>3, FS_Product DEF ClzOperands, ClzAssumption
<1>5. Cardinality(ClzOperands) \in Nat
  BY <1>4, FS_CardinalityType
<1>6. ASSUME NEW frames, NEW h
      PROVE  /\ IsFiniteSet(CallsIn(frames, h)) /\ Cardinality(CallsIn(frames, h)) \in Nat
             /\ Cardinality(CallsIn(frames, h)) <= Cardinality(ClzOperands)
  <2>1. CallsIn(frames, h) \in SUBSET ClzOperands
    BY DEF CallsIn
  <2>2. IsFiniteSet(CallsIn(frames, h)) /\ Cardinality(CallsIn(frames, h)) <= Cardinality(ClzOperands)
    BY <1>4, <2>1, FS_Subset
  <2> QED
    BY <2>2, FS_CardinalityType
<1> QED
  BY <1>4, <1>5, <1>6

(* One thread's stack becomes another. *)
StackSet(f2, frames, th, st) ==
  frames \in [ClzThreads -> Seq(ClzFrameRecords)] /\ f2 = [frames EXCEPT ![th] = st]

LEMMA CallsChange ==
  ASSUME NEW frames, NEW f2, NEW th \in ClzThreads, NEW st, StackSet(f2, frames, th, st), NEW h,
         NEW x \in ClzOperands
  PROVE  x \in CallsIn(f2, h) <=> IF x[1] = th THEN AtIn(st, x, h) ELSE x \in CallsIn(frames, h)
<1>1. x[1] \in ClzThreads
  BY DEF ClzOperands
<1>2. frames \in [ClzThreads -> Seq(ClzFrameRecords)] /\ f2 = [frames EXCEPT ![th] = st]
  BY DEF StackSet
<1>3. f2[x[1]] = IF x[1] = th THEN st ELSE frames[x[1]]
  BY <1>1, <1>2
<1>4. x \in CallsIn(f2, h) <=> AtIn(f2[x[1]], x, h)
  BY DEF CallsIn
<1>5. x \in CallsIn(frames, h) <=> AtIn(frames[x[1]], x, h)
  BY DEF CallsIn
<1> QED
  BY <1>2, <1>3, <1>4, <1>5

(* A frame is pushed, or popped. *)
LEMMA StackPushed ==
  ASSUME ClzAssumption, NEW g, NEW stack, StackOK(stack, g), NEW frame \in ClzFrameRecords, FrameOK(frame, g),
         frame.at # "destructor" => Len(stack) <= ClzNesting
  PROVE  /\ StackOK(Append(stack, frame), g)
         /\ \A x \in ClzOperands : \A h : AtIn(Append(stack, frame), x, h) <=>
              IF x[2][1] = Len(stack) + 1 THEN x[2][2] \in DOMAIN frame.handles /\ frame.handles[x[2][2]] = h
              ELSE AtIn(stack, x, h)
<1>1. PICK s \in Seq(ClzFrameRecords) : s = stack
  BY DEF StackOK
<1>2. PICK w : w = Append(s, frame)
  OBVIOUS
<1>3. /\ w \in Seq(ClzFrameRecords) /\ Len(w) = Len(s) + 1 /\ w[Len(s) + 1] = frame /\ Len(s) \in Nat
      /\ DOMAIN w = 1..(Len(s) + 1) /\ DOMAIN s = 1..Len(s)
      /\ \A f \in 1..Len(s) : w[f] = s[f]
  BY <1>2
<1>4. ASSUME NEW f \in 1..Len(w) PROVE FrameOK(w[f], g) /\ (w[f].at # "destructor" => f <= ClzNesting + 1)
  <2>1. CASE f = Len(s) + 1
    <3>1. w[f] = frame
      BY <1>3, <2>1
    <3>2. PICK n \in Nat : n = Len(s) /\ n = Len(stack)
      BY <1>1, <1>3
    <3>3. ClzNesting \in Nat
      BY DEF ClzAssumption
    <3>4. frame.at # "destructor" => f <= ClzNesting + 1
      BY <2>1, <3>2, <3>3
    <3> QED
      BY <3>1, <3>4
  <2>2. CASE f # Len(s) + 1
    <3>1. f \in 1..Len(s)
      BY <1>3, <2>2
    <3> QED
      BY <1>1, <1>3, <3>1 DEF StackOK
  <2> QED
    BY <2>1, <2>2
<1>5. StackOK(w, g)
  BY <1>3, <1>4 DEF StackOK
<1>6. ASSUME NEW x \in ClzOperands, NEW h
      PROVE  AtIn(w, x, h) <=>
               IF x[2][1] = Len(s) + 1 THEN x[2][2] \in DOMAIN frame.handles /\ frame.handles[x[2][2]] = h
               ELSE AtIn(s, x, h)
  <2>1. PICK f : f = x[2][1]
    OBVIOUS
  <2>2. CASE f = Len(s) + 1
    <3>1. f \in DOMAIN w /\ w[f] = frame
      BY <1>3, <2>2
    <3> QED
      BY <2>1, <2>2, <3>1 DEF AtIn
  <2>3. CASE f # Len(s) + 1
    <3>1. f \in DOMAIN w <=> f \in DOMAIN s
      BY <1>3, <2>3
    <3>2. f \in DOMAIN s => w[f] = s[f]
      BY <1>3
    <3> QED
      BY <2>1, <2>3, <3>1, <3>2 DEF AtIn
  <2> QED
    BY <2>2, <2>3
<1> QED
  BY <1>1, <1>2, <1>5, <1>6

LEMMA StackPopped ==
  ASSUME NEW g, NEW stack, StackOK(stack, g), stack # <<>>
  PROVE  /\ StackOK(Front(stack), g) /\ Len(Front(stack)) + 1 = Len(stack) /\ Len(Front(stack)) \in Nat
         /\ \A x \in ClzOperands : \A h : AtIn(Front(stack), x, h) <=> x[2][1] # Len(stack) /\ AtIn(stack, x, h)
<1>1. PICK s \in Seq(ClzFrameRecords) : s = stack
  BY DEF StackOK
<1>2. PICK w : w = Front(s)
  OBVIOUS
<1>3. Len(s) \in Nat /\ Len(s) # 0
  BY <1>1
<1>4. PICK n \in Nat : n + 1 = Len(s) /\ n = Len(s) - 1 /\ n <= Len(s)
  <2>1. Len(s) - 1 \in Nat /\ (Len(s) - 1) + 1 = Len(s) /\ Len(s) - 1 <= Len(s)
    BY <1>3
  <2> QED
    BY <2>1
<1>5. /\ w \in Seq(ClzFrameRecords) /\ Len(w) = n /\ \A f \in 1..n : w[f] = s[f]
  BY <1>2, <1>4 DEF Front
<1>6. DOMAIN w = 1..n /\ DOMAIN s = 1..(n + 1)
  BY <1>4, <1>5
<1>7. \A f \in 1..Len(w) : FrameOK(w[f], g) /\ (w[f].at # "destructor" => f <= ClzNesting + 1)
  <2>1. \A f \in 1..n : f \in 1..Len(s)
    BY <1>4
  <2> QED
    BY <1>1, <1>5, <2>1 DEF StackOK
<1>8. StackOK(w, g)
  BY <1>5, <1>7 DEF StackOK
<1>9. ASSUME NEW x \in ClzOperands, NEW h
      PROVE  AtIn(w, x, h) <=> x[2][1] # Len(s) /\ AtIn(s, x, h)
  <2>1. PICK f : f = x[2][1]
    OBVIOUS
  <2>2. f \in DOMAIN w <=> f \in DOMAIN s /\ f # Len(s)
    BY <1>4, <1>6
  <2>3. f \in DOMAIN w => w[f] = s[f]
    BY <1>5, <1>6
  <2> QED
    BY <2>1, <2>2, <2>3 DEF AtIn
<1> QED
  BY <1>1, <1>2, <1>4, <1>5, <1>8, <1>9

LEMMA OneMore ==
  ASSUME NEW C, IsFiniteSet(C), NEW e, e \notin C, NEW b \in BOOLEAN
  PROVE  /\ IsFiniteSet(C \cup (IF b THEN {e} ELSE {}))
         /\ Cardinality(C \cup (IF b THEN {e} ELSE {})) = Cardinality(C) + (IF b THEN 1 ELSE 0)
<1>1. Cardinality(C) \in Nat
  BY FS_CardinalityType
<1>2. CASE b
  <2>1. IsFiniteSet(C \cup {e}) /\ Cardinality(C \cup {e}) = Cardinality(C) + 1
    BY FS_AddElement
  <2> QED
    BY <1>2, <2>1
<1>3. CASE ~b
  <2>1. C \cup (IF b THEN {e} ELSE {}) = C
    BY <1>3
  <2>2. Cardinality(C) + 0 = Cardinality(C)
    BY <1>1
  <2> QED
    BY <1>3, <2>1, <2>2
<1> QED
  BY <1>2, <1>3

LEMMA PlacesCount ==
  ASSUME NEW K \in SUBSET {1, 2}
  PROVE  Cardinality(K) = (IF 1 \in K THEN 1 ELSE 0) + (IF 2 \in K THEN 1 ELSE 0)
<1>1. IsFiniteSet({}) /\ Cardinality({}) = 0
  BY FS_EmptySet
<1>2. PICK A : A = {} \cup (IF 1 \in K THEN {1} ELSE {})
  OBVIOUS
<1>3. (1 \in K) \in BOOLEAN /\ (2 \in K) \in BOOLEAN
  OBVIOUS
<1>4. IsFiniteSet(A) /\ Cardinality(A) = 0 + (IF 1 \in K THEN 1 ELSE 0)
  BY <1>1, <1>2, <1>3, OneMore
<1>5. 2 \notin A /\ K = A \cup (IF 2 \in K THEN {2} ELSE {})
  <2>1. \A x : x \in A <=> x = 1 /\ 1 \in K
    BY <1>2
  <2>2. \A x : x \in (IF 2 \in K THEN {2} ELSE {}) <=> x = 2 /\ 2 \in K
    OBVIOUS
  <2>3. \A x : x \in K => x = 1 \/ x = 2
    OBVIOUS
  <2>4. 1 # 2
    OBVIOUS
  <2>5. \A x : x \in K <=> x \in A \/ x \in (IF 2 \in K THEN {2} ELSE {})
    BY <2>1, <2>2, <2>3
  <2> QED
    BY <2>1, <2>4, <2>5
<1>6. Cardinality(A \cup (IF 2 \in K THEN {2} ELSE {})) = Cardinality(A) + (IF 2 \in K THEN 1 ELSE 0)
  BY <1>3, <1>4, <1>5, OneMore
<1> QED
  BY <1>4, <1>5, <1>6

LEMMA OperandPlaces ==
  ASSUME NEW x \in ClzOperands
  PROVE  /\ x = <<x[1], <<x[2][1], x[2][2]>>>> /\ x[1] \in ClzThreads
         /\ x[2][1] \in 1..(ClzNesting + 2) /\ x[2][2] \in {1, 2}
BY DEF ClzOperands

(* A method is called: its operands are held. *)
MethodPushed(f2, frames, th, frame, g) ==
  /\ StackSet(f2, frames, th, Append(frames[th], frame))
  /\ StackOK(frames[th], g) /\ Len(frames[th]) <= ClzNesting
  /\ frame \in ClzFrameRecords /\ FrameOK(frame, g) /\ DOMAIN frame.handles \subseteq {1, 2}

PlacesOf(H, h) == {i \in DOMAIN H : H[i] = h}

LEMMA CallsPushed ==
  ASSUME ClzAssumption, NEW frames, NEW f2, NEW th \in ClzThreads, NEW g, NEW frame,
         MethodPushed(f2, frames, th, frame, g), NEW h
  PROVE  Cardinality(CallsIn(f2, h)) = Cardinality(CallsIn(frames, h)) + Cardinality(PlacesOf(frame.handles, h))
<1> USE DEF MethodPushed
<1>1. PICK st : st = Append(frames[th], frame) /\ StackSet(f2, frames, th, st)
  OBVIOUS
<1>2. frames \in [ClzThreads -> Seq(ClzFrameRecords)] /\ frames[th] \in Seq(ClzFrameRecords)
  BY DEF StackSet
<1>3. PICK K : K = PlacesOf(frame.handles, h)
  OBVIOUS
<1>4. K = PlacesOf(frame.handles, h) /\ \A i : i \in K <=> i \in DOMAIN frame.handles /\ frame.handles[i] = h
  BY <1>3 DEF PlacesOf
<1>5. PICK n \in Nat : n = Len(frames[th]) + 1 /\ n \in 1..(ClzNesting + 2)
  <2>1. Len(frames[th]) \in Nat /\ ClzNesting \in Nat
    BY <1>2 DEF ClzAssumption
  <2>2. Len(frames[th]) + 1 \in Nat /\ Len(frames[th]) + 1 \in 1..(ClzNesting + 2)
    BY <2>1
  <2> QED
    BY <2>2
<1>6. n \notin DOMAIN frames[th]
  <2>1. Len(frames[th]) \in Nat /\ DOMAIN frames[th] = 1..Len(frames[th])
    BY <1>2
  <2> QED
    BY <1>5, <2>1
<1>7. K \in SUBSET {1, 2} /\ (1 \in K) \in BOOLEAN /\ (2 \in K) \in BOOLEAN
  BY <1>4
<1>8. PICK e1, e2 : e1 = <<th, <<n, 1>>>> /\ e2 = <<th, <<n, 2>>>>
  OBVIOUS
<1>9. e1 \in ClzOperands /\ e2 \in ClzOperands /\ e1 # e2
  BY <1>5, <1>8 DEF ClzOperands
<1>10. PICK C : C = CallsIn(frames, h)
  OBVIOUS
<1>11. PICK D : D = CallsIn(f2, h)
  OBVIOUS
<1>12. C \subseteq ClzOperands /\ D \subseteq ClzOperands
  BY <1>10, <1>11 DEF CallsIn
<1>13. \A x \in ClzOperands :
         x \in D <=> IF x[1] = th
                     THEN IF x[2][1] = n THEN x[2][2] \in K ELSE AtIn(frames[th], x, h)
                     ELSE x \in C
  <2>1. \A x \in ClzOperands :
          AtIn(st, x, h) <=>
            IF x[2][1] = n THEN x[2][2] \in DOMAIN frame.handles /\ frame.handles[x[2][2]] = h
            ELSE AtIn(frames[th], x, h)
    BY <1>1, <1>5, StackPushed
  <2>2. \A x \in ClzOperands :
          x \in D <=> IF x[1] = th THEN AtIn(st, x, h) ELSE x \in C
    BY <1>1, <1>10, <1>11, CallsChange
  <2> QED
    BY <1>4, <2>1, <2>2
<1>14. \A x \in ClzOperands : x[1] = th => (x \in C <=> AtIn(frames[th], x, h))
  BY <1>10 DEF CallsIn
<1>15. \A x \in ClzOperands : x[1] = th /\ x[2][1] = n => x \notin C /\ (x = e1 \/ x = e2)
  <2>1. \A x \in ClzOperands : x[1] = th /\ x[2][1] = n => ~AtIn(frames[th], x, h)
    BY <1>6 DEF AtIn
  <2>2. \A x \in ClzOperands : x[1] = th /\ x[2][1] = n => x = e1 \/ x = e2
    BY <1>8, OperandPlaces
  <2> QED
    BY <1>14, <2>1, <2>2
<1>16. /\ e1[1] = th /\ e1[2][1] = n /\ e1[2][2] = 1
       /\ e2[1] = th /\ e2[2][1] = n /\ e2[2][2] = 2
  BY <1>8
<1>17. e1 \notin C /\ e2 \notin C /\ (e1 \in D <=> 1 \in K) /\ (e2 \in D <=> 2 \in K)
  BY <1>9, <1>13, <1>15, <1>16
<1>18. \A x \in ClzOperands : x # e1 /\ x # e2 => (x \in D <=> x \in C)
  BY <1>13, <1>14, <1>15
<1>19. PICK A : A = C \cup (IF 1 \in K THEN {e1} ELSE {})
  OBVIOUS
<1>20. D = A \cup (IF 2 \in K THEN {e2} ELSE {})
  BY <1>9, <1>12, <1>17, <1>18, <1>19
<1>21. IsFiniteSet(C) /\ Cardinality(C) \in Nat
  BY <1>10, ClzOperandsFinite
<1>22. IsFiniteSet(A) /\ Cardinality(A) = Cardinality(C) + (IF 1 \in K THEN 1 ELSE 0)
  BY <1>7, <1>17, <1>19, <1>21, OneMore
<1>23. e2 \notin A
  BY <1>9, <1>17, <1>19
<1>24. Cardinality(D) = Cardinality(A) + (IF 2 \in K THEN 1 ELSE 0)
  BY <1>7, <1>20, <1>22, <1>23, OneMore
<1>25. Cardinality(K) = (IF 1 \in K THEN 1 ELSE 0) + (IF 2 \in K THEN 1 ELSE 0)
  BY <1>7, PlacesCount
<1>26. Cardinality(D) = Cardinality(C) + Cardinality(K)
  BY <1>21, <1>22, <1>24, <1>25
<1> QED
  BY <1>4, <1>10, <1>11, <1>26

(* The first operand of the topmost frame is released; the second, if there is     *)
(* one, is left.                                                             *)
OperandLeft(f2, frames, th, st, n, H) ==
  /\ StackSet(f2, frames, th, st)
  /\ n \in 1..(ClzNesting + 2) /\ n = Len(frames[th]) /\ H = frames[th][n].handles
  /\ DOMAIN H = {1} \/ DOMAIN H = {1, 2}
  /\ \A x \in ClzOperands : \A h : AtIn(st, x, h) <=>
       IF x[2][1] = n THEN x[2][2] = 1 /\ DOMAIN H = {1, 2} /\ H[2] = h ELSE AtIn(frames[th], x, h)

LEMMA CallsLeft ==
  ASSUME ClzAssumption, NEW frames, NEW th \in ClzThreads, NEW st, NEW f2, NEW n, NEW H,
         OperandLeft(f2, frames, th, st, n, H), NEW h
  PROVE  Cardinality(CallsIn(frames, h))
           = Cardinality(CallsIn(f2, h)) + (IF H[1] = h THEN 1 ELSE 0)
<1>0. /\ frames \in [ClzThreads -> Seq(ClzFrameRecords)] /\ frames[th] \in Seq(ClzFrameRecords)
      /\ n \in 1..(ClzNesting + 2) /\ n = Len(frames[th]) /\ H = frames[th][n].handles
      /\ DOMAIN H = {1} \/ DOMAIN H = {1, 2}
      /\ StackSet(f2, frames, th, st)
  BY DEF StackSet, OperandLeft
<1>1. PICK e1, e2 : e1 = <<th, <<n, 1>>>> /\ e2 = <<th, <<n, 2>>>>
  OBVIOUS
<1>2. e1 \in ClzOperands /\ e2 \in ClzOperands /\ e1 # e2
  BY <1>0, <1>1 DEF ClzOperands
<1>3. PICK C : C = CallsIn(frames, h)
  OBVIOUS
<1>4. PICK D : D = CallsIn(f2, h)
  OBVIOUS
<1>5. C \subseteq ClzOperands /\ D \subseteq ClzOperands
  BY <1>3, <1>4 DEF CallsIn
<1>6. \A x \in ClzOperands : x \in D <=> IF x[1] = th THEN AtIn(st, x, h) ELSE x \in C
  <2>1. StackSet(f2, frames, th, st)
    BY <1>0
  <2> QED
    BY <1>3, <1>4, <2>1, CallsChange
<1>7. \A x \in ClzOperands : x[1] = th => (x \in C <=> AtIn(frames[th], x, h))
  BY <1>3 DEF CallsIn
<1>8. n \in DOMAIN frames[th]
  <2>1. Len(frames[th]) \in Nat /\ DOMAIN frames[th] = 1..Len(frames[th])
    BY <1>0
  <2> QED
    BY <1>0, <2>1
<1>9. \A x \in ClzOperands : x # e1 /\ x # e2 => ~(x[1] = th /\ x[2][1] = n)
  BY <1>1, OperandPlaces
<1>10. \A x \in ClzOperands : x # e1 /\ x # e2 => (x \in C <=> x \in D)
  BY <1>6, <1>7, <1>9 DEF OperandLeft
<1>11. /\ e1[1] = th /\ e1[2][1] = n /\ e1[2][2] = 1
       /\ e2[1] = th /\ e2[2][1] = n /\ e2[2][2] = 2
  BY <1>1
<1>12. /\ e1 \in C <=> H[1] = h
       /\ e2 \in C <=> 2 \in DOMAIN H /\ H[2] = h
  BY <1>0, <1>2, <1>7, <1>8, <1>11 DEF AtIn
<1>13. /\ e1 \in D <=> 2 \in DOMAIN H /\ H[2] = h
       /\ e2 \notin D
  BY <1>0, <1>2, <1>6, <1>11 DEF OperandLeft
<1>14. IsFiniteSet(C) /\ IsFiniteSet(D) /\ Cardinality(C) \in Nat /\ Cardinality(D) \in Nat
  BY <1>3, <1>4, ClzOperandsFinite
<1>15. CASE H[1] = h
  <2>1. PICK e : e \notin D /\ C = D \cup {e}
    <3>1. CASE e1 \in D
      <4>1. C = D \cup {e2}
        BY <1>0, <1>2, <1>5, <1>10, <1>12, <1>13, <1>15, <3>1
      <4> QED
        BY <1>13, <4>1
    <3>2. CASE e1 \notin D
      <4>1. C = D \cup {e1}
        BY <1>0, <1>2, <1>5, <1>10, <1>12, <1>13, <1>15, <3>2
      <4> QED
        BY <3>2, <4>1
    <3> QED
      BY <3>1, <3>2
  <2>2. Cardinality(C) = Cardinality(D) + 1
    BY <1>14, <2>1, FS_AddElement
  <2> QED
    BY <1>3, <1>4, <1>15, <2>2
<1>16. CASE H[1] # h
  <2>1. CASE e1 \in D
    <3>1. PICK B : B = D \ {e1}
      OBVIOUS
    <3>2. IsFiniteSet(B)
      BY <1>14, <3>1, FS_Subset
    <3>3. e1 \notin B /\ e2 \notin B /\ D = B \cup {e1}
      BY <1>13, <2>1, <3>1
    <3>4. C = B \cup {e2}
      BY <1>0, <1>2, <1>5, <1>10, <1>12, <1>13, <1>16, <2>1, <3>1
    <3>5. Cardinality(D) = Cardinality(B) + 1
      BY <3>2, <3>3, FS_AddElement
    <3>6. Cardinality(C) = Cardinality(B) + 1
      BY <3>2, <3>3, <3>4, FS_AddElement
    <3>7. Cardinality(C) = Cardinality(D) + 0
      BY <1>14, <3>5, <3>6
    <3> QED
      BY <1>3, <1>4, <1>16, <3>7
  <2>2. CASE e1 \notin D
    <3>1. C = D
      <4>1. e1 \notin C /\ e2 \notin C /\ e2 \notin D
        BY <1>0, <1>12, <1>13, <1>16, <2>2
      <4>2. ASSUME NEW x \in ClzOperands PROVE x \in C <=> x \in D
        BY <1>10, <2>2, <4>1
      <4> QED
        BY <1>5, <4>2
    <3>2. Cardinality(C) = Cardinality(D) + 0
      BY <1>14, <3>1
    <3> QED
      BY <1>3, <1>4, <1>16, <3>2
  <2> QED
    BY <2>1, <2>2
<1> QED
  BY <1>15, <1>16

(* The operands held are the same if no operand is pushed or popped. *)
SameOperands(st, stack, h) == \A x \in ClzOperands : AtIn(st, x, h) <=> AtIn(stack, x, h)

LEMMA CallsKept ==
  ASSUME NEW frames, NEW f2, NEW th \in ClzThreads, NEW st, StackSet(f2, frames, th, st), NEW h,
         SameOperands(st, frames[th], h)
  PROVE  CallsIn(f2, h) = CallsIn(frames, h)
<1> USE DEF SameOperands
<1>1. PICK C : C = CallsIn(frames, h)
  OBVIOUS
<1>2. PICK D : D = CallsIn(f2, h)
  OBVIOUS
<1>3. \A x \in ClzOperands : x \in D <=> IF x[1] = th THEN AtIn(st, x, h) ELSE x \in C
  BY <1>1, <1>2, CallsChange
<1>4. \A x \in ClzOperands : x[1] = th => (x \in C <=> AtIn(frames[th], x, h))
  BY <1>1 DEF CallsIn
<1>5. C \subseteq ClzOperands /\ D \subseteq ClzOperands
  BY <1>1, <1>2 DEF CallsIn
<1>6. C = D
  BY <1>3, <1>4, <1>5
<1> QED
  BY <1>1, <1>2, <1>6

-----------------------------------------------------------------------------
(* The object registry: what each call does *)

LEMMA RefsBound ==
  ASSUME ClzAssumption, ClzRefsFit, NEW o, NEW g, NEW d, TableOK(o, g, d), NEW held, NEW frames,
         Counted(o, held, frames)
  PROVE  \A s \in DOMAIN o : o[s].refs <= ClzMaxRefs
<1>1. SUFFICES ASSUME NEW s \in DOMAIN o PROVE o[s].refs <= ClzMaxRefs
  OBVIOUS
<1>2. o[s] \in ClzSlotRecords /\ SlotOK(o[s], s, g)
  BY DEF TableOK
<1>3. o[s].refs \in Nat /\ ClzMaxRefs \in Nat /\ ClzHolds \in Nat
  BY <1>2 DEF ClzSlotRecords, ClzAssumption
<1>4. CASE o[s].refs = 0
  BY <1>3, <1>4
<1>5. CASE o[s].refs # 0
  <2>1. PICK h : h = <<s, o[s].generation>>
    OBVIOUS
  <2>2. o[s].active /\ h \in DOMAIN g
    BY <1>2, <1>5, <2>1 DEF SlotOK
  <2>3. h \in ClzHandles
    BY <2>2 DEF TableOK, GivenOK
  <2>4. RefsIn(o, h) = o[s].refs
    BY <1>5, <2>1, <2>2 DEF RefsIn, FoundIn
  <2>5. held[h] \in 0..ClzHolds /\ held[h] + Cardinality(CallsIn(frames, h)) = o[s].refs
    BY <2>3, <2>4 DEF Counted
  <2>6. PICK a, b, c \in Nat : a = held[h] /\ b = Cardinality(CallsIn(frames, h)) /\ c = Cardinality(ClzOperands)
    BY <1>3, <2>5, ClzOperandsFinite
  <2>7. a <= ClzHolds /\ b <= c /\ ClzHolds + c <= ClzMaxRefs /\ a + b = o[s].refs
    BY <2>5, <2>6, ClzOperandsFinite DEF ClzRefsFit
  <2> QED
    BY <1>3, <2>6, <2>7
<1> QED
  BY <1>4, <1>5

LEMMA StackKept ==
  ASSUME NEW g, NEW g2, NEW stack, StackOK(stack, g), DOMAIN g \subseteq DOMAIN g2,
         \A h \in DOMAIN g : g2[h] = g[h]
  PROVE  StackOK(stack, g2)
<1>1. \A f \in 1..Len(stack) : FrameOK(stack[f], g) => FrameOK(stack[f], g2)
  BY DEF FrameOK
<1> QED
  BY <1>1 DEF StackOK

LEMMA FoundIs ==
  ASSUME NEW h
  PROVE  FindObject(h) <=> FoundIn(clzObjects, h)
BY DEF FindObject, Object, FoundIn

LEMMA ClzWrapStep ==
  ASSUME ClzAssumption, ClzInv, NEW th \in ClzThreads, NEW type \in TypeIds, NEW p \in ClzPayloads,
         Wrap(th, type, p)
  PROVE  ClzInv'
<1>1. PICK o \in Seq(ClzSlotRecords) : o = clzObjects
  BY DEF ClzInv, TableOK
<1> DEFINE I == {i \in 1..Len(o) : ~o[i].active}
<1>2. PICK free : free = IF I # {} THEN Min(I) ELSE 0
  OBVIOUS
<1>3. free = SelectInSeq(clzObjects, LAMBDA x : ~x.active)
  BY <1>1, <1>2 DEF SelectInSeq
<1>4. PICK grown : grown = IF free = 0 THEN Append(o, EmptySlot) ELSE o
  OBVIOUS
<1>5. PICK slot : slot = IF free = 0 THEN Len(grown) ELSE free
  OBVIOUS
<1>6. PICK gen : gen = grown[slot].generation
  OBVIOUS
<1>7. PICK h : h = <<slot, gen>>
  OBVIOUS
<1>8. PICK new : new = [EmptySlot EXCEPT !.generation = gen, !.active = TRUE, !.type = type,
                                         !.refs = 1, !.payload = {p}]
  OBVIOUS
<1>9. /\ h \in ClzHandles /\ h[2] = gen
      /\ clzObjects' = [grown EXCEPT ![slot] = new]
      /\ clzHeld' = [clzHeld EXCEPT ![h] = 1]
      /\ clzGiven' = [x \in DOMAIN clzGiven \cup {h} |-> IF x \in DOMAIN clzGiven THEN clzGiven[x] ELSE p]
      /\ UNCHANGED <<clzTables, clzFrames, clzDestroyed>>
      /\ clzDestroyed[p] = 0 /\ \A k \in DOMAIN clzGiven : clzGiven[k] # p
  <2>1. h[2] = gen
    BY <1>7
  <2>2. h = <<slot, grown[slot].generation>>
    BY <1>6, <1>7
  <2> QED
    BY <1>1, <1>3, <1>4, <1>5, <1>8, <2>1, <2>2 DEF Wrap
<1> HIDE DEF I
<1>10. free = 0 \/ (free \in 1..Len(o) /\ ~o[free].active)
  <2>1. CASE I = {}
    BY <1>2, <2>1
  <2>2. CASE I # {}
    <3>1. I \in SUBSET Nat
      BY DEF I
    <3>2. PICK i \in I : i = Min(I)
      <4>1. \E i \in I : \A j \in I : i <= j
        BY <2>2, <3>1, LeastNumber
      <4> QED
        BY <4>1 DEF Min
    <3> QED
      BY <1>2, <2>2, <3>2 DEF I
  <2> QED
    BY <2>1, <2>2
<1>11. EmptySlot \in ClzSlotRecords
  BY DEF EmptySlot, ClzSlotRecords
<1>12. /\ grown \in Seq(ClzSlotRecords) /\ DOMAIN grown = DOMAIN o \cup {slot}
       /\ \A s \in DOMAIN o : grown[s] = o[s]
       /\ slot \in DOMAIN o => ~o[slot].active /\ o[slot].generation = gen
  <2>1. CASE free = 0
    <3>1. PICK n \in Nat : n = Len(o)
      OBVIOUS
    <3>2. grown = Append(o, EmptySlot) /\ Len(grown) = n + 1
      BY <1>4, <1>11, <2>1, <3>1
    <3>3. slot = n + 1
      BY <1>5, <2>1, <3>2
    <3>4. grown \in Seq(ClzSlotRecords) /\ \A s \in 1..n : grown[s] = o[s]
      BY <1>11, <3>1, <3>2
    <3>5. DOMAIN o = 1..n /\ DOMAIN grown = 1..(n + 1)
      BY <3>1, <3>2, <3>4
    <3>6. slot \notin DOMAIN o /\ DOMAIN grown = DOMAIN o \cup {slot}
      BY <3>3, <3>5
    <3> QED
      BY <3>4, <3>5, <3>6
  <2>2. CASE free # 0
    <3>1. grown = o /\ slot = free /\ slot \in DOMAIN o
      BY <1>4, <1>5, <1>10, <2>2
    <3> QED
      BY <1>6, <1>10, <2>2, <3>1
  <2> QED
    BY <2>1, <2>2
<1>13. gen \in Nat /\ type \in Nat
  <2>1. h[2] \in Nat
    BY <1>9, HandlePairs
  <2> QED
    BY <1>9, <2>1 DEF TypeIds
<1>14. /\ new \in ClzSlotRecords /\ new.generation = gen /\ new.active /\ new.refs = 1
       /\ new.payload = {p}
  <2>1. new = [generation |-> gen, active |-> TRUE, type |-> type, refs |-> 1, payload |-> {p}]
    BY <1>8 DEF EmptySlot
  <2> QED
    BY <1>13, <2>1 DEF ClzSlotRecords
<1>15. PICK o2 : o2 = [grown EXCEPT ![slot] = new]
  OBVIOUS
<1>16. /\ o2 \in Seq(ClzSlotRecords) /\ DOMAIN o2 = DOMAIN o \cup {slot}
       /\ \A s \in DOMAIN o : s # slot => o2[s] = o[s]
       /\ o2[slot] = new
  <2>1. slot \in DOMAIN grown
    BY <1>12
  <2>2. o2 \in Seq(ClzSlotRecords)
    BY <1>12, <1>14, <1>15, <2>1
  <2>3. DOMAIN o2 = DOMAIN grown /\ o2[slot] = new
    BY <1>15, <2>1
  <2>4. \A s \in DOMAIN o : s # slot => o2[s] = o[s]
    BY <1>12, <1>15
  <2> QED
    BY <1>12, <2>2, <2>3, <2>4
<1>17. PICK g, g2 : g = clzGiven /\ g2 = clzGiven'
  OBVIOUS
<1>18. DOMAIN g2 = DOMAIN g \cup {h} /\ \A k \in DOMAIN g : g2[k] = g[k] /\ g[k] # p
  BY <1>9, <1>17
<1>19. TableOK(o, g, clzDestroyed)
  BY <1>1, <1>17 DEF ClzInv
<1>20. h \notin DOMAIN g
  <2>1. SUFFICES ASSUME h \in DOMAIN g PROVE FALSE
    OBVIOUS
  <2>2. GivenOK(o, g, clzDestroyed, h)
    BY <1>19, <2>1 DEF TableOK
  <2>3. h[1] = slot
    BY <1>7
  <2> QED
    BY <1>9, <1>12, <2>2, <2>3 DEF GivenOK
<1>21. g2[h] = p
  BY <1>9, <1>17, <1>18, <1>20
<1>22. /\ TableOK(o2, g2, clzDestroyed)
       /\ RefsIn(o, h) = 0 /\ RefsIn(o2, h) = 1
       /\ \A k \in ClzHandles : k # h => RefsIn(o2, k) = RefsIn(o, k)
  <2>1. <<slot, gen>> \in ClzHandles /\ DOMAIN g2 = DOMAIN g \cup {<<slot, gen>>} /\ g2[<<slot, gen>>] = p
    BY <1>7, <1>9, <1>18, <1>21
  <2>2. clzDestroyed[p] = 0
    BY <1>9
  <2>3. o2[slot].generation = gen /\ o2[slot].active /\ o2[slot].refs = 1 /\ o2[slot].payload = {p}
    BY <1>14, <1>16
  <2>4. /\ TableOK(o2, g2, clzDestroyed)
        /\ RefsIn(o, <<slot, gen>>) = 0 /\ RefsIn(o2, <<slot, gen>>) = 1
        /\ \A k \in ClzHandles : k # <<slot, gen>> => RefsIn(o2, k) = RefsIn(o, k)
    <3>1. PICK d : d = clzDestroyed
      OBVIOUS
    <3>2. TableOK(o, g, d) /\ d[p] = 0
      BY <1>19, <2>2, <3>1
    <3>3. slot \in DOMAIN o => ~o[slot].active /\ o[slot].generation = gen
      BY <1>12
    <3>4. /\ o2 \in Seq(ClzSlotRecords) /\ DOMAIN o2 = DOMAIN o \cup {slot}
          /\ \A s \in DOMAIN o : s # slot => o2[s] = o[s]
      BY <1>16
    <3>5. (\A k \in DOMAIN g : g[k] # p) /\ \A k \in DOMAIN g : g2[k] = g[k]
      BY <1>18
    <3>6. /\ TableOK(o2, g2, d)
          /\ RefsIn(o, <<slot, gen>>) = 0 /\ RefsIn(o2, <<slot, gen>>) = 1
          /\ \A k \in ClzHandles : k # <<slot, gen>> => RefsIn(o2, k) = RefsIn(o, k)
      <4>1. SlotTaken(o, o2, g, g2, d, slot, gen, p)
        BY <2>1, <2>3, <3>2, <3>3, <3>4, <3>5 DEF SlotTaken
      <4> QED
        BY <3>2, <4>1, TableAdded
    <3> QED
      BY <3>1, <3>6
  <2> QED
    BY <1>7, <2>4
<1>23. Counted(o2, clzHeld', clzFrames)
  <2>1. clzHeld \in [ClzHandles -> 0..ClzHolds] /\ Counted(o, clzHeld, clzFrames)
    BY <1>1 DEF ClzInv, Counted
  <2>2. 1 \in 0..ClzHolds
    BY DEF ClzAssumption
  <2>3. clzHeld' \in [ClzHandles -> 0..ClzHolds] /\ clzHeld'[h] = 1 /\ \A k \in ClzHandles : k # h => clzHeld'[k] = clzHeld[k]
    BY <1>9, <2>1, <2>2
  <2>4. ASSUME NEW k \in ClzHandles
        PROVE  clzHeld'[k] + Cardinality(CallsIn(clzFrames, k)) = RefsIn(o2, k)
    <3>1. clzHeld[k] \in Nat /\ Cardinality(CallsIn(clzFrames, k)) \in Nat
      <4>1. ClzHolds \in Nat
        BY DEF ClzAssumption
      <4> QED
        BY <2>1, <4>1, ClzOperandsFinite
    <3>2. clzHeld[k] + Cardinality(CallsIn(clzFrames, k)) = RefsIn(o, k)
      BY <2>1 DEF Counted
    <3>3. CASE k = h
      <4>1. Cardinality(CallsIn(clzFrames, k)) = 0
        BY <1>22, <3>1, <3>2, <3>3
      <4>2. clzHeld'[k] = 1 /\ RefsIn(o2, k) = 1 /\ 1 + 0 = 1
        BY <1>22, <2>3, <3>3
      <4> QED
        BY <4>1, <4>2
    <3>4. CASE k # h
      BY <1>22, <2>3, <3>2, <3>4
    <3> QED
      BY <3>3, <3>4
  <2> QED
    BY <2>3, <2>4 DEF Counted
<1>24. ASSUME NEW u \in ClzThreads PROVE StackOK(clzFrames[u], g2)
  BY <1>17, <1>18, StackKept DEF ClzInv
<1>25. TableOK(clzObjects', clzGiven', clzDestroyed') /\ Counted(clzObjects', clzHeld', clzFrames')
  BY <1>9, <1>15, <1>17, <1>22, <1>23
<1>26. ClzTypesOK'
  BY <1>9 DEF ClzInv, ClzTypesOK, clzTables
<1>27. clzFrames' \in [ClzThreads -> Seq(ClzFrameRecords)] /\ \A u \in ClzThreads : StackOK(clzFrames'[u], clzGiven')
  BY <1>9, <1>17, <1>24 DEF ClzInv
<1> QED
  BY <1>25, <1>26, <1>27 DEF ClzInv

LEMMA ClzRetainStep ==
  ASSUME ClzAssumption, ClzRefsFit, ClzInv, NEW th \in ClzThreads, NEW h \in ClzHandles, NEW interfaces,
         Retain(th, h, interfaces)
  PROVE  ClzInv'
<1>1. /\ FoundIn(clzObjects, h) /\ Object(h).refs < ClzMaxRefs /\ clzHeld[h] < ClzHolds
      /\ clzObjects' = Retained(<<h>>)
      /\ clzHeld' = [clzHeld EXCEPT ![h] = @ + 1]
      /\ UNCHANGED <<clzTables, clzFrames, clzGiven, clzDestroyed>>
  BY FoundIs DEF Retain
<1>2. PICK H : H = <<h>>
  OBVIOUS
<1>3. DOMAIN H = {1} /\ H[1] = h
  BY <1>2
<1>4. ASSUME NEW k \in ClzHandles
      PROVE  Cardinality({i \in DOMAIN H : H[i] = k}) = IF k = h THEN 1 ELSE 0
  <2>1. PICK K : K = {i \in DOMAIN H : H[i] = k}
    OBVIOUS
  <2>2. K = IF k = h THEN {1} ELSE {}
    BY <1>3, <2>1
  <2>3. K \in SUBSET {1, 2} /\ (1 \in K <=> k = h) /\ 2 \notin K
    BY <2>2
  <2>4. Cardinality(K) = (IF 1 \in K THEN 1 ELSE 0) + (IF 2 \in K THEN 1 ELSE 0)
    BY <2>3, PlacesCount
  <2> QED
    BY <2>1, <2>3, <2>4
<1>5. /\ TableOK(clzObjects, clzGiven, clzDestroyed) /\ Counted(clzObjects, clzHeld, clzFrames)
      /\ clzHeld \in [ClzHandles -> 0..ClzHolds]
  BY DEF ClzInv, Counted
<1>6. \A s \in DOMAIN clzObjects : clzObjects[s].refs <= ClzMaxRefs
  BY <1>5, RefsBound
<1>7. /\ ClzMaxRefs \in Nat /\ ClzHolds \in Nat
      /\ \A k \in ClzHandles : RefsIn(clzObjects, k) \in Nat /\ RefsIn(clzObjects, k) <= ClzMaxRefs
  <2>1. ClzMaxRefs \in Nat /\ ClzHolds \in Nat
    BY DEF ClzAssumption
  <2>2. ASSUME NEW k \in ClzHandles PROVE RefsIn(clzObjects, k) \in Nat /\ RefsIn(clzObjects, k) <= ClzMaxRefs
    <3>1. CASE FoundIn(clzObjects, k)
      <4>1. PICK o \in Seq(ClzSlotRecords) : o = clzObjects
        BY <1>5 DEF TableOK
      <4>2. k[1] \in DOMAIN o
        BY <3>1, <4>1 DEF FoundIn
      <4>3. o[k[1]] \in ClzSlotRecords
        BY <4>2
      <4>4. o[k[1]].refs \in Nat
        BY <4>3 DEF ClzSlotRecords
      <4> QED
        BY <1>6, <3>1, <4>1, <4>2, <4>4 DEF RefsIn
    <3>2. CASE ~FoundIn(clzObjects, k)
      BY <2>1, <3>2 DEF RefsIn
    <3> QED
      BY <3>1, <3>2
  <2> QED
    BY <2>1, <2>2
<1>8. RefsIn(clzObjects, h) < ClzMaxRefs
  BY <1>1 DEF RefsIn, Object
<1>9. ASSUME NEW k \in ClzHandles
      PROVE  RefsIn(clzObjects, k) + Cardinality({i \in DOMAIN H : H[i] = k}) <= ClzMaxRefs
  <2>1. PICK n \in Nat : n = RefsIn(clzObjects, k) /\ n <= ClzMaxRefs
    BY <1>7
  <2>2. CASE k = h
    BY <1>4, <1>7, <1>8, <2>1, <2>2
  <2>3. CASE k # h
    BY <1>4, <1>7, <2>1, <2>3
  <2> QED
    BY <2>2, <2>3
<1>10. /\ TableOK(Retained(H), clzGiven, clzDestroyed)
       /\ \A k \in ClzHandles :
            RefsIn(Retained(H), k) = RefsIn(clzObjects, k) + Cardinality({i \in DOMAIN H : H[i] = k})
  <2>1. DOMAIN H \subseteq {1, 2} /\ \A i \in DOMAIN H : H[i] \in ClzHandles /\ FoundIn(clzObjects, H[i])
    BY <1>1, <1>3
  <2> QED
    BY <1>5, <1>6, <1>9, <2>1, RetainedIs
<1>11. PICK o2 : o2 = clzObjects' /\ o2 = Retained(H)
  BY <1>1, <1>2
<1>12. Counted(o2, clzHeld', clzFrames)
  <2>1. PICK n \in Nat : n = clzHeld[h] /\ n + 1 \in 0..ClzHolds
    BY <1>1, <1>5, <1>7
  <2>2. clzHeld' = [clzHeld EXCEPT ![h] = n + 1]
    BY <1>1, <2>1
  <2>3. /\ clzHeld' \in [ClzHandles -> 0..ClzHolds] /\ clzHeld'[h] = n + 1
        /\ \A k \in ClzHandles : k # h => clzHeld'[k] = clzHeld[k]
    BY <1>5, <2>1, <2>2
  <2>4. ASSUME NEW k \in ClzHandles
        PROVE  clzHeld'[k] + Cardinality(CallsIn(clzFrames, k)) = RefsIn(o2, k)
    <3>1. PICK a, b, c \in Nat : a = clzHeld[k] /\ b = Cardinality(CallsIn(clzFrames, k)) /\ c = RefsIn(clzObjects, k)
      <4>1. clzHeld[k] \in Nat
        BY <1>5, <1>7
      <4> QED
        BY <1>7, <4>1, ClzOperandsFinite
    <3>2. a + b = c
      BY <1>5, <3>1 DEF Counted
    <3>3. CASE k = h
      <4>1. clzHeld'[k] = a + 1 /\ RefsIn(o2, k) = c + 1
        BY <1>4, <1>10, <1>11, <2>1, <2>3, <3>1, <3>3
      <4> QED
        BY <3>1, <3>2, <4>1
    <3>4. CASE k # h
      <4>1. clzHeld'[k] = a /\ RefsIn(o2, k) = c + 0
        BY <1>4, <1>10, <1>11, <2>3, <3>1, <3>4
      <4> QED
        BY <3>1, <3>2, <4>1
    <3> QED
      BY <3>3, <3>4
  <2> QED
    BY <2>3, <2>4 DEF Counted
<1>13. TableOK(clzObjects', clzGiven', clzDestroyed') /\ Counted(clzObjects', clzHeld', clzFrames')
  BY <1>1, <1>10, <1>11, <1>12
<1>14. ClzTypesOK'
  BY <1>1 DEF ClzInv, ClzTypesOK, clzTables
<1>15. clzFrames' \in [ClzThreads -> Seq(ClzFrameRecords)] /\ \A u \in ClzThreads : StackOK(clzFrames'[u], clzGiven')
  BY <1>1 DEF ClzInv
<1> QED
  BY <1>13, <1>14, <1>15 DEF ClzInv

(* What releasing does to the slots, and whether a destructor runs. *)
ReleaseDone(h, th, frames) ==
  /\ TableOK(clzObjects', clzGiven', clzDestroyed')
  /\ \A k \in ClzHandles : RefsIn(clzObjects, k) = RefsIn(clzObjects', k) + (IF k = h THEN 1 ELSE 0)
  /\ \A k \in ClzHandles : RefsIn(clzObjects', k) \in Nat
  /\ \E payload \in SUBSET ClzPayloads :
       clzFrames' = [clzFrames EXCEPT ![th] = IF payload = {} THEN frames
                                              ELSE Append(frames, Frame("destructor", <<>>, payload))]
  /\ UNCHANGED <<clzTables, clzGiven>>

LEMMA RefsInNat ==
  ASSUME NEW o, NEW g, NEW d, TableOK(o, g, d), NEW k
  PROVE  RefsIn(o, k) \in Nat
<1>1. CASE FoundIn(o, k)
  <2>1. o \in Seq(ClzSlotRecords) /\ k[1] \in DOMAIN o
    BY <1>1 DEF FoundIn, TableOK
  <2>2. o[k[1]] \in ClzSlotRecords
    BY <2>1
  <2>3. o[k[1]].refs \in Nat
    BY <2>2 DEF ClzSlotRecords
  <2> QED
    BY <1>1, <2>3 DEF RefsIn
<1>2. CASE ~FoundIn(o, k)
  BY <1>2 DEF RefsIn
<1> QED
  BY <1>1, <1>2

LEMMA ReleaseEffect ==
  ASSUME TableOK(clzObjects, clzGiven, clzDestroyed), NEW h \in ClzHandles, FoundIn(clzObjects, h),
         NEW th, NEW frames, ReleaseBy(th, h, frames)
  PROVE  ReleaseDone(h, th, frames)
<1>1. PICK o \in Seq(ClzSlotRecords) : o = clzObjects
  BY DEF TableOK
<1>2. PICK s : s = h[1] /\ s \in DOMAIN o /\ o[s].active /\ o[s].generation = h[2] /\ o[s].refs # 0
  BY <1>1 DEF FoundIn
<1>3. PICK r \in ClzSlotRecords : r = o[s] /\ r = Object(h)
  BY <1>1, <1>2 DEF Object
<1>4. /\ r.generation \in Nat /\ r.active \in BOOLEAN /\ r.refs \in Nat /\ r.refs # 0
      /\ r.payload \in SUBSET ClzPayloads /\ r.type \in Nat
  BY <1>2, <1>3 DEF ClzSlotRecords
<1>5. PICK payload : payload = IF r.refs = 1 THEN r.payload ELSE {}
  OBVIOUS
<1>6. payload \in SUBSET ClzPayloads
  BY <1>4, <1>5
<1>7. /\ clzObjects' = [o EXCEPT ![s] = Released(h)]
      /\ clzFrames' = [clzFrames EXCEPT ![th] = IF payload = {} THEN frames
                                                ELSE Append(frames, Frame("destructor", <<>>, payload))]
      /\ clzDestroyed' = [p \in ClzPayloads |-> clzDestroyed[p] + (IF p \in payload THEN 1 ELSE 0)]
      /\ UNCHANGED <<clzTables, clzGiven>>
  BY <1>1, <1>2, <1>3, <1>5 DEF ReleaseBy
<1>8. PICK r2 : r2 = Released(h)
  OBVIOUS
<1>9. PICK o2 : o2 = clzObjects' /\ o2 = [o EXCEPT ![s] = r2]
  BY <1>7, <1>8
<1>10. PICK d, d2 : d = clzDestroyed /\ d2 = clzDestroyed'
  OBVIOUS
<1>11. d \in [ClzPayloads -> {0, 1}] /\ d2 = [p \in ClzPayloads |-> d[p] + (IF p \in payload THEN 1 ELSE 0)]
  BY <1>7, <1>10 DEF TableOK
<1>12. TableOK(o, clzGiven, d)
  BY <1>1, <1>10
<1>13. FoundIn(o, h) /\ RefsIn(o, h) = r.refs
  BY <1>1, <1>2, <1>3 DEF RefsIn
<1>14. /\ TableOK(o2, clzGiven, d2)
       /\ \A k \in ClzHandles : RefsIn(o, k) = RefsIn(o2, k) + (IF k = h THEN 1 ELSE 0)
  <2>1. CASE r.refs > 1
    <3>1. PICK n \in Nat : n + 1 = r.refs /\ n = r.refs - 1 /\ n # 0
      <4>1. r.refs - 1 \in Nat /\ (r.refs - 1) + 1 = r.refs /\ r.refs - 1 # 0
        BY <1>4, <2>1
      <4> QED
        BY <4>1
    <3>2. r2 = [r EXCEPT !.refs = n]
      BY <1>3, <1>8, <2>1, <3>1 DEF Released
    <3>3. /\ r2 \in ClzSlotRecords /\ r2.generation = r.generation /\ r2.active = r.active
          /\ r2.payload = r.payload /\ r2.refs = n
      BY <3>1, <3>2 DEF ClzSlotRecords
    <3>4. /\ o2 \in Seq(ClzSlotRecords) /\ DOMAIN o2 = DOMAIN o /\ o2[s] = r2
          /\ \A t \in DOMAIN o : t # s => o2[t] = o[t]
      BY <1>2, <1>9, <3>3
    <3>5. \A t \in DOMAIN o : /\ o2[t].generation = o[t].generation /\ o2[t].active = o[t].active
                              /\ o2[t].payload = o[t].payload /\ (o2[t].refs = 0 <=> o[t].refs = 0)
      BY <1>3, <1>4, <3>1, <3>3, <3>4
    <3>6. TableOK(o2, clzGiven, d) /\ \A k : FoundIn(o2, k) <=> FoundIn(o, k)
      BY <1>12, <3>4, <3>5, TableBumped
    <3>7. d2 = d
      <4>1. payload = {}
        BY <1>4, <1>5, <2>1
      <4>2. \A p \in ClzPayloads : d[p] + 0 = d[p]
        BY <1>11
      <4> QED
        BY <1>11, <4>1, <4>2
    <3>8. ASSUME NEW k \in ClzHandles PROVE RefsIn(o, k) = RefsIn(o2, k) + (IF k = h THEN 1 ELSE 0)
      <4>1. RefsIn(o, k) \in Nat /\ RefsIn(o, k) + 0 = RefsIn(o, k)
        BY <1>12, RefsInNat
      <4>2. CASE k = h
        <5>1. RefsIn(o2, k) = n
          BY <1>2, <1>13, <3>3, <3>4, <3>6, <4>2 DEF RefsIn
        <5> QED
          BY <1>13, <3>1, <4>2, <5>1
      <4>3. CASE k # h
        <5>1. CASE k[1] = s
          <6>1. k[2] # h[2]
            BY <1>2, <4>3, <5>1, HandlePairs
          <6>2. ~FoundIn(o, k)
            BY <1>2, <5>1, <6>1 DEF FoundIn
          <6> QED
            BY <3>6, <4>3, <6>2 DEF RefsIn
        <5>2. CASE k[1] # s
          <6>1. RefsIn(o2, k) = RefsIn(o, k)
            BY <3>4, <5>2, FoundSame
          <6> QED
            BY <4>1, <4>3, <6>1
        <5> QED
          BY <5>1, <5>2
      <4> QED
        BY <4>2, <4>3
    <3> QED
      BY <3>6, <3>7, <3>8
  <2>2. CASE ~(r.refs > 1)
    <3>1. r.refs = 1
      BY <1>4, <2>2
    <3>2. r2 = [EmptySlot EXCEPT !.generation = r.generation + 1]
      BY <1>3, <1>8, <2>2 DEF Released
    <3>3. PICK m \in Nat : m = r.generation + 1
      BY <1>4
    <3>4. r2 = [generation |-> m, active |-> FALSE, type |-> 0, refs |-> 0, payload |-> {}]
      BY <3>2, <3>3 DEF EmptySlot
    <3>5. r2 \in ClzSlotRecords /\ r2.generation = m /\ ~r2.active /\ r2.refs = 0 /\ r2.payload = {}
      BY <3>4 DEF ClzSlotRecords
    <3>6. /\ o2 \in Seq(ClzSlotRecords) /\ DOMAIN o2 = DOMAIN o /\ o2[s] = r2
          /\ \A t \in DOMAIN o : t # s => o2[t] = o[t]
      BY <1>2, <1>9, <3>5
    <3>7. m = h[2] + 1
      BY <1>2, <1>3, <3>3
    <3>8. d2 \in [ClzPayloads -> Int]
      BY <1>11
    <3>9. \A p \in ClzPayloads : d2[p] = d[p] + (IF p \in o[h[1]].payload THEN 1 ELSE 0)
      BY <1>2, <1>3, <1>5, <1>11, <3>1
    <3>10. /\ TableOK(o2, clzGiven, d2) /\ RefsIn(o2, h) = 0
           /\ \A k \in ClzHandles : k # h => RefsIn(o2, k) = RefsIn(o, k)
      BY <1>2, <1>12, <1>13, <3>5, <3>6, <3>7, <3>8, <3>9, TableEmptied
    <3>11. ASSUME NEW k \in ClzHandles PROVE RefsIn(o, k) = RefsIn(o2, k) + (IF k = h THEN 1 ELSE 0)
      <4>1. RefsIn(o, k) \in Nat /\ RefsIn(o, k) + 0 = RefsIn(o, k)
        BY <1>12, RefsInNat
      <4>2. CASE k = h
        BY <1>13, <3>1, <3>10, <4>2
      <4>3. CASE k # h
        BY <3>10, <4>1, <4>3
      <4> QED
        BY <4>2, <4>3
    <3> QED
      BY <3>10, <3>11
  <2> QED
    BY <2>1, <2>2
<1>15. \A k \in ClzHandles : RefsIn(o2, k) \in Nat
  BY <1>14, RefsInNat
<1>16. TableOK(clzObjects', clzGiven', clzDestroyed')
  BY <1>7, <1>9, <1>10, <1>14
<1> QED
  BY <1>1, <1>6, <1>7, <1>9, <1>14, <1>15, <1>16 DEF ReleaseDone

LEMMA OneLess ==
  ASSUME NEW a \in Nat, NEW b \in Nat, NEW c \in Nat, (a + 1) + b = c + 1
  PROVE  a + b = c
OBVIOUS

DestructorOn(stack, payload) ==
  IF payload = {} THEN stack ELSE Append(stack, Frame("destructor", <<>>, payload))

LEMMA DestructorPushed ==
  ASSUME ClzAssumption, NEW g, NEW rest, StackOK(rest, g), NEW payload \in SUBSET ClzPayloads
  PROVE  /\ StackOK(DestructorOn(rest, payload), g)
         /\ \A h : SameOperands(DestructorOn(rest, payload), rest, h)
<1>0. PICK st : st = DestructorOn(rest, payload)
  OBVIOUS
<1>1. st = IF payload = {} THEN rest ELSE Append(rest, Frame("destructor", <<>>, payload))
  BY <1>0 DEF DestructorOn
<1> SUFFICES StackOK(st, g) /\ \A x \in ClzOperands : \A h : AtIn(st, x, h) <=> AtIn(rest, x, h)
  BY <1>0 DEF SameOperands
<1>2. CASE payload = {}
  BY <1>1, <1>2
<1>3. CASE payload # {}
  <2>1. PICK frame : frame = Frame("destructor", <<>>, payload)
    OBVIOUS
  <2>2. frame = [at |-> "destructor", handles |-> <<>>, payloads |-> payload]
    BY <2>1 DEF Frame
  <2>3. frame \in ClzFrameRecords /\ frame.at = "destructor" /\ frame.handles = <<>>
    BY <2>2 DEF ClzFrameRecords
  <2>4. FrameOK(frame, g)
    BY <2>3 DEF FrameOK
  <2>5. /\ StackOK(st, g)
        /\ \A x \in ClzOperands : \A h : AtIn(st, x, h) <=>
             IF x[2][1] = Len(rest) + 1 THEN x[2][2] \in DOMAIN frame.handles /\ frame.handles[x[2][2]] = h
             ELSE AtIn(rest, x, h)
    BY <1>1, <1>3, <2>1, <2>3, <2>4, StackPushed
  <2>6. DOMAIN frame.handles = {}
    BY <2>3
  <2>7. Len(rest) + 1 \notin DOMAIN rest
    <3>1. rest \in Seq(ClzFrameRecords)
      BY DEF StackOK
    <3>2. Len(rest) \in Nat /\ DOMAIN rest = 1..Len(rest)
      BY <3>1
    <3> QED
      BY <3>2
  <2> QED
    BY <2>5, <2>6, <2>7 DEF AtIn
<1> QED
  BY <1>2, <1>3

LEMMA ClzReleaseStep ==
  ASSUME ClzAssumption, ClzInv, NEW th \in ClzThreads, NEW h \in ClzHandles, Release(th, h)
  PROVE  ClzInv'
<1>1. /\ clzHeld[h] > 0 /\ FoundIn(clzObjects, h) /\ clzHeld' = [clzHeld EXCEPT ![h] = @ - 1]
      /\ ReleaseBy(th, h, clzFrames[th])
  BY FoundIs DEF Release
<1>2. TableOK(clzObjects, clzGiven, clzDestroyed)
  BY DEF ClzInv
<1>3. ReleaseDone(h, th, clzFrames[th])
  BY <1>1, <1>2, ReleaseEffect
<1>4. PICK payload \in SUBSET ClzPayloads :
        clzFrames' = [clzFrames EXCEPT ![th] = IF payload = {} THEN clzFrames[th]
                                               ELSE Append(clzFrames[th], Frame("destructor", <<>>, payload))]
  BY <1>3 DEF ReleaseDone
<1>5. PICK st : st = DestructorOn(clzFrames[th], payload)
  OBVIOUS
<1>6. PICK f \in [ClzThreads -> Seq(ClzFrameRecords)] : f = clzFrames
  BY DEF ClzInv
<1>7. StackOK(f[th], clzGiven)
  BY <1>6 DEF ClzInv
<1>8. StackOK(st, clzGiven) /\ \A k : SameOperands(st, f[th], k)
  BY <1>5, <1>6, <1>7, DestructorPushed
<1>9. PICK f2 : f2 = clzFrames' /\ f2 = [f EXCEPT ![th] = st]
  BY <1>4, <1>5, <1>6 DEF DestructorOn
<1>10. \A k : CallsIn(f2, k) = CallsIn(f, k)
  <2>1. StackSet(f2, f, th, st)
    BY <1>9 DEF StackSet
  <2> QED
    BY <1>8, <2>1, CallsKept
<1>11. f2 \in [ClzThreads -> Seq(ClzFrameRecords)] /\ \A u \in ClzThreads : StackOK(f2[u], clzGiven')
  <2>1. st \in Seq(ClzFrameRecords)
    BY <1>8 DEF StackOK
  <2>2. clzGiven' = clzGiven
    BY <1>3 DEF ReleaseDone
  <2>3. f2[th] = st /\ \A u \in ClzThreads : u # th => f2[u] = f[u]
    BY <1>9
  <2> QED
    BY <1>6, <1>8, <1>9, <2>1, <2>2, <2>3 DEF ClzInv
<1>12. Counted(clzObjects', clzHeld', f2)
  <2>1. ClzHolds \in Nat /\ clzHeld \in [ClzHandles -> 0..ClzHolds] /\ Counted(clzObjects, clzHeld, f)
    BY <1>6 DEF ClzAssumption, ClzInv, Counted
  <2>2. PICK n \in Nat : n = clzHeld[h] - 1 /\ n + 1 = clzHeld[h] /\ n \in 0..ClzHolds
    <3>1. clzHeld[h] \in 0..ClzHolds
      BY <2>1
    <3>2. clzHeld[h] - 1 \in Nat /\ (clzHeld[h] - 1) + 1 = clzHeld[h] /\ clzHeld[h] - 1 \in 0..ClzHolds
      BY <1>1, <2>1, <3>1
    <3> QED
      BY <3>2
  <2>3. clzHeld' = [clzHeld EXCEPT ![h] = n]
    BY <1>1, <2>2
  <2>4. PICK held, held2 : held = clzHeld /\ held2 = clzHeld'
    OBVIOUS
  <2>5. /\ held2 \in [ClzHandles -> 0..ClzHolds] /\ held2[h] = n /\ held[h] = n + 1
        /\ \A k \in ClzHandles : k # h => held2[k] = held[k]
    BY <2>1, <2>2, <2>3, <2>4
  <2>6. PICK o, o2 : o = clzObjects /\ o2 = clzObjects'
    OBVIOUS
  <2>7. ASSUME NEW k \in ClzHandles PROVE held2[k] + Cardinality(CallsIn(f2, k)) = RefsIn(o2, k)
    <3>1. RefsIn(o, k) = RefsIn(o2, k) + (IF k = h THEN 1 ELSE 0) /\ RefsIn(o2, k) \in Nat
      BY <1>3, <2>6 DEF ReleaseDone
    <3>2. PICK b, c \in Nat : b = Cardinality(CallsIn(f, k)) /\ c = RefsIn(o2, k)
      BY <3>1, ClzOperandsFinite
    <3>3. held[k] + b = RefsIn(o, k)
      BY <2>1, <2>4, <2>6, <3>2 DEF Counted
    <3>4. Cardinality(CallsIn(f2, k)) = b
      BY <1>10, <3>2
    <3>5. CASE k = h
      <4>1. n \in Nat
        BY <2>1, <2>2
      <4>2. RefsIn(o, k) = c + 1 /\ held[k] = n + 1 /\ held2[k] = n
        BY <2>5, <3>1, <3>2, <3>5
      <4>3. n + b = c
        <5>1. (n + 1) + b = c + 1
          BY <3>3, <4>2
        <5> QED
          BY <3>2, <4>1, <5>1, OneLess
      <4> QED
        BY <3>2, <3>4, <4>2, <4>3
    <3>6. CASE k # h
      <4>1. RefsIn(o, k) = c
        BY <3>1, <3>2, <3>6
      <4> QED
        BY <2>5, <3>2, <3>3, <3>4, <3>6, <4>1
    <3> QED
      BY <3>5, <3>6
  <2>8. Counted(o2, held2, f2)
    BY <2>5, <2>7 DEF Counted
  <2> QED
    BY <2>4, <2>6, <2>8
<1>13. TableOK(clzObjects', clzGiven', clzDestroyed') /\ Counted(clzObjects', clzHeld', clzFrames')
  BY <1>3, <1>9, <1>12 DEF ReleaseDone
<1>14. ClzTypesOK'
  BY <1>3 DEF ClzInv, ClzTypesOK, clzTables, ReleaseDone
<1>15. clzFrames' \in [ClzThreads -> Seq(ClzFrameRecords)] /\ \A u \in ClzThreads : StackOK(clzFrames'[u], clzGiven')
  BY <1>9, <1>11
<1> QED
  BY <1>13, <1>14, <1>15 DEF ClzInv

LEMMA ClzCallStep ==
  ASSUME ClzAssumption, ClzRefsFit, ClzInv, NEW th \in ClzThreads, NEW H, H \in Seq(ClzHandles),
         Len(H) \in {1, 2}, Call(th, H)
  PROVE  ClzInv'
<1>1. DOMAIN H \subseteq {1, 2} /\ DOMAIN H = 1..Len(H) /\ \A i \in DOMAIN H : H[i] \in ClzHandles
  OBVIOUS
<1>2. PICK P : P = UNION {Object(H[i]).payload : i \in DOMAIN H}
  OBVIOUS
<1>3. PICK frame : frame = Frame("method", H, P)
  OBVIOUS
<1>4. /\ MayCall(th) /\ \A i \in DOMAIN H : FoundIn(clzObjects, H[i])
      /\ clzObjects' = Retained(H)
      /\ clzFrames' = [clzFrames EXCEPT ![th] = Append(clzFrames[th], frame)]
      /\ UNCHANGED <<clzTables, clzHeld, clzGiven, clzDestroyed>>
  <2>1. \A i \in DOMAIN H : FindObject(H[i])
    BY DEF Call
  <2>2. \A i \in DOMAIN H : FoundIn(clzObjects, H[i])
    BY <2>1, FoundIs
  <2> QED
    BY <1>2, <1>3, <2>2 DEF Call
<1>5. TableOK(clzObjects, clzGiven, clzDestroyed) /\ Counted(clzObjects, clzHeld, clzFrames)
  BY DEF ClzInv
<1>6. PICK f \in [ClzThreads -> Seq(ClzFrameRecords)] : f = clzFrames
  BY DEF ClzInv
<1>7. StackOK(f[th], clzGiven)
  BY <1>6 DEF ClzInv
<1>8. Len(f[th]) <= ClzNesting
  <2>1. CASE f[th] = <<>>
    <3>1. Len(f[th]) = 0
      BY <2>1
    <3> QED
      BY <3>1 DEF ClzAssumption
  <2>2. CASE f[th] # <<>>
    BY <1>4, <1>6, <2>2 DEF MayCall
  <2> QED
    BY <2>1, <2>2
<1>9. \A i \in DOMAIN H : /\ H[i] \in DOMAIN clzGiven /\ Object(H[i]).payload = {clzGiven[H[i]]}
                          /\ clzGiven[H[i]] \in ClzPayloads
  <2>1. ASSUME NEW i \in DOMAIN H
        PROVE  /\ H[i] \in DOMAIN clzGiven /\ Object(H[i]).payload = {clzGiven[H[i]]}
               /\ clzGiven[H[i]] \in ClzPayloads
    <3>1. PICK k \in ClzHandles : k = H[i]
      BY <1>1
    <3>2. k = <<k[1], k[2]>>
      BY HandlePairs
    <3>3. k[1] \in DOMAIN clzObjects /\ clzObjects[k[1]].active /\ clzObjects[k[1]].generation = k[2]
      BY <1>4, <3>1 DEF FoundIn
    <3>4. SlotOK(clzObjects[k[1]], k[1], clzGiven)
      BY <1>5, <3>3 DEF TableOK
    <3>5. k \in DOMAIN clzGiven /\ clzObjects[k[1]].payload = {clzGiven[k]}
      BY <3>2, <3>3, <3>4 DEF SlotOK
    <3>6. clzGiven[k] \in ClzPayloads
      BY <1>5, <3>5 DEF TableOK, GivenOK
    <3> QED
      BY <3>1, <3>5, <3>6 DEF Object
  <2> QED
    BY <2>1
<1>10. \A p : p \in P <=> \E i \in DOMAIN H : p = clzGiven[H[i]]
  BY <1>2, <1>9
<1>11. frame \in ClzFrameRecords /\ frame.at = "method" /\ frame.handles = H /\ frame.payloads = P
  <2>1. P \in SUBSET ClzPayloads
    BY <1>9, <1>10
  <2>2. frame = [at |-> "method", handles |-> H, payloads |-> P]
    BY <1>3 DEF Frame
  <2> QED
    BY <2>1, <2>2 DEF ClzFrameRecords
<1>12. FrameOK(frame, clzGiven)
  <2>1. \A p \in P : \E i \in 1..Len(H) : H[i] \in DOMAIN clzGiven /\ p = clzGiven[H[i]]
    BY <1>1, <1>9, <1>10
  <2>2. frame.at = "method" /\ frame.handles = H /\ frame.payloads = P
    BY <1>11
  <2> QED
    BY <2>1, <2>2 DEF FrameOK
<1>13. PICK f2 : f2 = [f EXCEPT ![th] = Append(f[th], frame)] /\ f2 = clzFrames'
  BY <1>4, <1>6
<1>14. ASSUME NEW k
       PROVE  Cardinality(CallsIn(f2, k)) = Cardinality(CallsIn(f, k)) + Cardinality({i \in DOMAIN H : H[i] = k})
  <2>1. DOMAIN frame.handles \subseteq {1, 2}
    BY <1>1, <1>11
  <2>2. PlacesOf(frame.handles, k) = {i \in DOMAIN H : H[i] = k}
    BY <1>11 DEF PlacesOf
  <2>3. Cardinality(CallsIn(f2, k)) = Cardinality(CallsIn(f, k)) + Cardinality(PlacesOf(frame.handles, k))
    <3>1. StackSet(f2, f, th, Append(f[th], frame))
      BY <1>13 DEF StackSet
    <3>2. MethodPushed(f2, f, th, frame, clzGiven)
      BY <1>7, <1>8, <1>11, <1>12, <2>1, <3>1 DEF MethodPushed
    <3> QED
      BY <3>2, CallsPushed
  <2> QED
    BY <2>2, <2>3
<1>15. \A s \in DOMAIN clzObjects : clzObjects[s].refs <= ClzMaxRefs
  BY <1>5, RefsBound
<1>16. ASSUME NEW k \in ClzHandles
       PROVE  /\ clzHeld[k] + Cardinality(CallsIn(f2, k))
                   = RefsIn(clzObjects, k) + Cardinality({i \in DOMAIN H : H[i] = k})
              /\ RefsIn(clzObjects, k) + Cardinality({i \in DOMAIN H : H[i] = k}) <= ClzMaxRefs
  <2>1. ClzHolds \in Nat /\ ClzMaxRefs \in Nat /\ clzHeld[k] \in 0..ClzHolds
    BY <1>5 DEF ClzAssumption, Counted
  <2>2. PICK K : K = {i \in DOMAIN H : H[i] = k}
    OBVIOUS
  <2>3. Cardinality(K) \in Nat
    <3>1. K \in SUBSET {1, 2}
      BY <1>1, <2>2
    <3>2. Cardinality(K) = (IF 1 \in K THEN 1 ELSE 0) + (IF 2 \in K THEN 1 ELSE 0)
      BY <3>1, PlacesCount
    <3> QED
      BY <3>2
  <2>4. PICK a, b, c, e, z \in Nat :
          /\ a = clzHeld[k] /\ b = Cardinality(CallsIn(f, k)) /\ c = Cardinality(K)
          /\ e = Cardinality(CallsIn(f2, k)) /\ z = Cardinality(ClzOperands)
    <3>1. clzHeld[k] \in Nat
      BY <2>1
    <3>2. /\ Cardinality(CallsIn(f, k)) \in Nat /\ Cardinality(CallsIn(f2, k)) \in Nat
          /\ Cardinality(ClzOperands) \in Nat
      BY ClzOperandsFinite
    <3> QED
      BY <2>3, <3>1, <3>2
  <2>5. a <= ClzHolds /\ e <= z /\ ClzHolds + z <= ClzMaxRefs
    BY <2>1, <2>4, ClzOperandsFinite DEF ClzRefsFit
  <2>6. e = b + c
    BY <1>14, <2>2, <2>4
  <2>7. a + b = RefsIn(clzObjects, k)
    BY <1>5, <1>6, <2>4 DEF Counted
  <2>8. a + e = (a + b) + c /\ (a + b) + c <= ClzMaxRefs
    <3>1. a + e = (a + b) + c
      BY <2>6
    <3>2. a + e <= ClzHolds + z
      BY <2>1, <2>5
    <3>3. a + e <= ClzMaxRefs
      BY <2>1, <2>5, <3>2
    <3> QED
      BY <3>1, <3>3
  <2> QED
    BY <2>2, <2>4, <2>7, <2>8
<1>17. /\ TableOK(Retained(H), clzGiven, clzDestroyed)
       /\ \A k \in ClzHandles :
            RefsIn(Retained(H), k) = RefsIn(clzObjects, k) + Cardinality({i \in DOMAIN H : H[i] = k})
  BY <1>1, <1>4, <1>5, <1>15, <1>16, RetainedIs
<1>18. Counted(Retained(H), clzHeld, f2)
  <2>1. clzHeld \in [ClzHandles -> 0..ClzHolds]
    BY <1>5 DEF Counted
  <2> QED
    BY <1>16, <1>17, <2>1 DEF Counted
<1>19. TableOK(clzObjects', clzGiven', clzDestroyed') /\ Counted(clzObjects', clzHeld', clzFrames')
  BY <1>4, <1>13, <1>17, <1>18
<1>20. ClzTypesOK'
  BY <1>4 DEF ClzInv, ClzTypesOK, clzTables
<1>21. f2 \in [ClzThreads -> Seq(ClzFrameRecords)] /\ \A u \in ClzThreads : StackOK(f2[u], clzGiven)
  <2>1. PICK st : st = Append(f[th], frame)
    OBVIOUS
  <2>2. StackOK(st, clzGiven)
    BY <1>7, <1>8, <1>11, <1>12, <2>1, StackPushed
  <2>3. st \in Seq(ClzFrameRecords)
    BY <2>2 DEF StackOK
  <2>4. f2 \in [ClzThreads -> Seq(ClzFrameRecords)] /\ f2[th] = st /\ \A u \in ClzThreads : u # th => f2[u] = f[u]
    BY <1>13, <2>1, <2>3
  <2> QED
    BY <1>6, <2>2, <2>4 DEF ClzInv
<1>22. clzFrames' \in [ClzThreads -> Seq(ClzFrameRecords)] /\ \A u \in ClzThreads : StackOK(clzFrames'[u], clzGiven')
  BY <1>4, <1>13, <1>21
<1> QED
  BY <1>19, <1>20, <1>22 DEF ClzInv

LEMMA ClzLeaveStep ==
  ASSUME ClzAssumption, ClzInv, NEW th \in ClzThreads, Leave(th)
  PROVE  ClzInv'
<1>1. PICK f \in [ClzThreads -> Seq(ClzFrameRecords)] : f = clzFrames
  BY DEF ClzInv
<1>2. PICK s \in Seq(ClzFrameRecords) : s = f[th]
  OBVIOUS
<1>3. StackOK(s, clzGiven) /\ s # <<>>
  BY <1>1, <1>2 DEF ClzInv, Leave
<1>4. PICK n : n = Len(s)
  OBVIOUS
<1>5. n \in Nat /\ n # 0 /\ n \in 1..n /\ DOMAIN s = 1..n
  BY <1>3, <1>4
<1>6. PICK frame \in ClzFrameRecords : frame = s[n] /\ frame = Last(clzFrames[th])
  BY <1>1, <1>2, <1>4, <1>5 DEF Last
<1>7. /\ frame.at # "destructor" /\ frame.at \in {"method", "leave"} /\ FrameOK(frame, clzGiven)
      /\ n <= ClzNesting + 1
  <2>1. frame.at # "destructor"
    BY <1>6 DEF Leave
  <2>2. frame.at \in {"method", "leave"}
    BY <2>1 DEF ClzFrameRecords
  <2> QED
    BY <1>3, <1>4, <1>5, <1>6, <2>1, <2>2 DEF StackOK
<1>8. PICK H \in Seq(ClzHandles) : H = frame.handles
  BY DEF ClzFrameRecords
<1>9. Len(H) \in {1, 2} /\ DOMAIN H = 1..Len(H)
  BY <1>7, <1>8 DEF FrameOK
<1>10. (DOMAIN H = {1} /\ Len(H) = 1) \/ (DOMAIN H = {1, 2} /\ Len(H) = 2)
  BY <1>9
<1>11. PICK h \in ClzHandles : h = H[1] /\ h = Head(frame.handles)
  BY <1>8, <1>10
<1>12. n \in 1..(ClzNesting + 2) /\ ClzNesting \in Nat
  BY <1>5, <1>7 DEF ClzAssumption
<1>13. PICK low : low = Front(s)
  OBVIOUS
<1>14. /\ StackOK(low, clzGiven) /\ Len(low) + 1 = n /\ Len(low) \in Nat
       /\ \A x \in ClzOperands : \A k : AtIn(low, x, k) <=> x[2][1] # n /\ AtIn(s, x, k)
  BY <1>3, <1>4, <1>13, StackPopped
<1>15. PICK rest : rest = IF Len(H) = 1 THEN low ELSE Append(low, Frame("leave", Tail(H), {}))
  OBVIOUS
<1>16. ReleaseBy(th, h, rest) /\ UNCHANGED clzHeld
  <2>1. ReleaseBy(th, Head(frame.handles),
                  IF Len(frame.handles) = 1 THEN Front(clzFrames[th])
                  ELSE Append(Front(clzFrames[th]), Frame("leave", Tail(frame.handles), {})))
    BY <1>6 DEF Leave
  <2> QED
    BY <1>1, <1>2, <1>8, <1>11, <1>13, <1>15, <2>1 DEF Leave
<1>17. /\ StackOK(rest, clzGiven)
       /\ \A x \in ClzOperands : \A k : AtIn(rest, x, k) <=>
            IF x[2][1] = n THEN x[2][2] = 1 /\ DOMAIN H = {1, 2} /\ H[2] = k ELSE AtIn(s, x, k)
  <2>1. CASE Len(H) = 1
    <3>1. rest = low /\ DOMAIN H = {1} /\ 2 \notin {1} /\ 2 \in {1, 2}
      BY <1>10, <1>15, <2>1
    <3> QED
      BY <1>14, <3>1
  <2>2. CASE Len(H) = 2
    <3>1. PICK T : T = Tail(H)
      OBVIOUS
    <3>2. T \in Seq(ClzHandles) /\ Len(T) = 1 /\ T[1] = H[2] /\ DOMAIN T = {1}
      <4>1. T \in Seq(ClzHandles) /\ Len(T) = 1 /\ T[1] = H[2]
        <5>1. H # <<>>
          <6>1. Len(<<>>) = 0 /\ 0 # 2
            OBVIOUS
          <6> QED
            BY <2>2, <6>1
        <5>2. /\ T \in Seq(ClzHandles) /\ Len(T) = Len(H) - 1
              /\ \A i \in 1..Len(T) : T[i] = H[i + 1]
          BY <3>1, <5>1, HeadTailProperties
        <5>3. Len(T) = 1 /\ 1 \in 1..1 /\ 1 + 1 = 2
          BY <2>2, <5>2
        <5>4. T[1] = H[2]
          BY <5>2, <5>3
        <5> QED
          BY <5>2, <5>3, <5>4
      <4>2. DOMAIN T = 1..1
        BY <4>1
      <4> QED
        BY <4>1, <4>2
    <3>3. PICK left : left = Frame("leave", T, {})
      OBVIOUS
    <3>4. left \in ClzFrameRecords /\ left.at = "leave" /\ left.handles = T
      <4>1. left = [at |-> "leave", handles |-> T, payloads |-> {}]
        BY <3>3 DEF Frame
      <4> QED
        BY <3>2, <4>1 DEF ClzFrameRecords
    <3>5. FrameOK(left, clzGiven)
      BY <3>2, <3>4 DEF FrameOK
    <3>6. rest = Append(low, left)
      BY <1>15, <2>2, <3>1, <3>3
    <3>7. Len(low) <= ClzNesting
      BY <1>7, <1>12, <1>14
    <3>8. /\ StackOK(rest, clzGiven)
          /\ \A x \in ClzOperands : \A k : AtIn(rest, x, k) <=>
               IF x[2][1] = Len(low) + 1 THEN x[2][2] \in DOMAIN left.handles /\ left.handles[x[2][2]] = k
               ELSE AtIn(low, x, k)
      BY <1>14, <3>4, <3>5, <3>6, <3>7, StackPushed
    <3>9. DOMAIN H = {1, 2}
      BY <1>10, <2>2
    <3>10. \A i, k : i \in DOMAIN left.handles /\ left.handles[i] = k <=> i = 1 /\ H[2] = k
      BY <3>2, <3>4
    <3>11. ASSUME NEW x \in ClzOperands, NEW k
           PROVE  AtIn(rest, x, k) <=>
                    IF x[2][1] = n THEN x[2][2] = 1 /\ DOMAIN H = {1, 2} /\ H[2] = k ELSE AtIn(s, x, k)
      BY <1>14, <3>8, <3>9, <3>10
    <3> QED
      BY <3>8, <3>11
  <2> QED
    BY <1>9, <2>1, <2>2
<1>18. TableOK(clzObjects, clzGiven, clzDestroyed) /\ Counted(clzObjects, clzHeld, f)
  BY <1>1 DEF ClzInv
<1>19. FoundIn(clzObjects, h)
  <2>1. PICK e : e = <<th, <<n, 1>>>>
    OBVIOUS
  <2>2. e \in ClzOperands
    BY <1>12, <2>1 DEF ClzOperands
  <2>3. 1 \in DOMAIN H
    BY <1>10
  <2>4. AtIn(f[th], e, h)
    BY <1>2, <1>5, <1>6, <1>8, <1>11, <2>1, <2>3 DEF AtIn
  <2>5. e \in CallsIn(f, h)
    BY <2>1, <2>2, <2>4 DEF CallsIn
  <2>6. IsFiniteSet(CallsIn(f, h)) /\ Cardinality(CallsIn(f, h)) \in Nat
    BY ClzOperandsFinite
  <2>7. Cardinality(CallsIn(f, h)) # 0
    BY <2>5, <2>6, FS_EmptySet
  <2>8. ClzHolds \in Nat /\ clzHeld[h] \in 0..ClzHolds
    BY <1>18 DEF Counted, ClzAssumption
  <2>9. PICK a, b \in Nat : a = clzHeld[h] /\ b = Cardinality(CallsIn(f, h))
    BY <2>6, <2>8
  <2>10. RefsIn(clzObjects, h) = a + b /\ a + b # 0
    BY <1>18, <2>7, <2>9 DEF Counted
  <2> QED
    BY <2>10 DEF RefsIn
<1>20. ReleaseDone(h, th, rest)
  BY <1>16, <1>18, <1>19, ReleaseEffect
<1>21. PICK payload \in SUBSET ClzPayloads :
         clzFrames' = [clzFrames EXCEPT ![th] = IF payload = {} THEN rest
                                                ELSE Append(rest, Frame("destructor", <<>>, payload))]
  BY <1>20 DEF ReleaseDone
<1>22. PICK st : st = DestructorOn(rest, payload)
  OBVIOUS
<1>23. StackOK(st, clzGiven) /\ \A k : SameOperands(st, rest, k)
  BY <1>17, <1>22, DestructorPushed
<1>24. PICK f2 : f2 = clzFrames' /\ f2 = [f EXCEPT ![th] = st]
  BY <1>1, <1>21, <1>22 DEF DestructorOn
<1>25. StackSet(f2, f, th, st)
  BY <1>24 DEF StackSet
<1>26. ASSUME NEW k
       PROVE  Cardinality(CallsIn(f, k)) = Cardinality(CallsIn(f2, k)) + (IF H[1] = k THEN 1 ELSE 0)
  <2>1. \A x \in ClzOperands : \A j : AtIn(st, x, j) <=>
          IF x[2][1] = n THEN x[2][2] = 1 /\ DOMAIN H = {1, 2} /\ H[2] = j ELSE AtIn(f[th], x, j)
    BY <1>2, <1>17, <1>23 DEF SameOperands
  <2>2. n = Len(f[th]) /\ H = f[th][n].handles /\ (DOMAIN H = {1} \/ DOMAIN H = {1, 2})
    BY <1>2, <1>4, <1>6, <1>8, <1>10
  <2>3. OperandLeft(f2, f, th, st, n, H)
    BY <1>12, <1>25, <2>1, <2>2 DEF OperandLeft
  <2> QED
    BY <2>3, CallsLeft
<1>27. f2 \in [ClzThreads -> Seq(ClzFrameRecords)] /\ \A u \in ClzThreads : StackOK(f2[u], clzGiven')
  <2>1. st \in Seq(ClzFrameRecords)
    BY <1>23 DEF StackOK
  <2>2. clzGiven' = clzGiven
    BY <1>20 DEF ReleaseDone
  <2>3. f2[th] = st /\ \A u \in ClzThreads : u # th => f2[u] = f[u]
    BY <1>24
  <2> QED
    BY <1>1, <1>23, <1>24, <2>1, <2>2, <2>3 DEF ClzInv
<1>28. PICK o, o2 : o = clzObjects /\ o2 = clzObjects'
  OBVIOUS
<1>29. PICK held : held = clzHeld /\ held = clzHeld'
  BY <1>16
<1>30. Counted(o2, held, f2)
  <2>1. ClzHolds \in Nat /\ held \in [ClzHandles -> 0..ClzHolds]
    BY <1>18, <1>29 DEF ClzAssumption, Counted
  <2>2. ASSUME NEW k \in ClzHandles PROVE held[k] + Cardinality(CallsIn(f2, k)) = RefsIn(o2, k)
    <3>1. RefsIn(o, k) = RefsIn(o2, k) + (IF k = h THEN 1 ELSE 0) /\ RefsIn(o2, k) \in Nat
      BY <1>20, <1>28 DEF ReleaseDone
    <3>2. held[k] \in Nat
      BY <2>1
    <3>3. PICK a, b, c \in Nat : a = held[k] /\ b = Cardinality(CallsIn(f2, k)) /\ c = RefsIn(o2, k)
      BY <3>1, <3>2, ClzOperandsFinite
    <3>4. a + Cardinality(CallsIn(f, k)) = RefsIn(o, k)
      BY <1>18, <1>28, <1>29, <3>3 DEF Counted
    <3>5. CASE k = h
      <4>1. a + (b + 1) = c + 1
        BY <1>11, <1>26, <3>1, <3>3, <3>4, <3>5
      <4>2. a + b = c
        BY <4>1
      <4> QED
        BY <3>3, <4>2
    <3>6. CASE k # h
      <4>1. a + (b + 0) = c + 0
        BY <1>11, <1>26, <3>1, <3>3, <3>4, <3>6
      <4>2. a + b = c
        BY <4>1
      <4> QED
        BY <3>3, <4>2
    <3> QED
      BY <3>5, <3>6
  <2> QED
    BY <2>1, <2>2 DEF Counted
<1>31. TableOK(clzObjects', clzGiven', clzDestroyed') /\ Counted(clzObjects', clzHeld', clzFrames')
  BY <1>20, <1>24, <1>28, <1>29, <1>30 DEF ReleaseDone
<1>32. ClzTypesOK'
  BY <1>20 DEF ClzInv, ClzTypesOK, clzTables, ReleaseDone
<1>33. clzFrames' \in [ClzThreads -> Seq(ClzFrameRecords)] /\ \A u \in ClzThreads : StackOK(clzFrames'[u], clzGiven')
  BY <1>24, <1>27
<1> QED
  BY <1>31, <1>32, <1>33 DEF ClzInv

LEMMA ClzReturnsStep ==
  ASSUME ClzAssumption, ClzInv, NEW th \in ClzThreads, DestructorReturns(th)
  PROVE  ClzInv'
<1>1. PICK f \in [ClzThreads -> Seq(ClzFrameRecords)] : f = clzFrames
  BY DEF ClzInv
<1>2. PICK s \in Seq(ClzFrameRecords) : s = f[th]
  OBVIOUS
<1>3. StackOK(s, clzGiven) /\ s # <<>>
  BY <1>1, <1>2 DEF ClzInv, DestructorReturns
<1>4. PICK n : n = Len(s)
  OBVIOUS
<1>5. n \in Nat /\ n # 0 /\ n \in 1..n /\ DOMAIN s = 1..n
  BY <1>3, <1>4
<1>6. s[n].at = "destructor"
  BY <1>1, <1>2, <1>4 DEF DestructorReturns, Last
<1>7. s[n].handles = <<>>
  BY <1>3, <1>4, <1>5, <1>6 DEF StackOK, FrameOK
<1>8. PICK low : low = Front(s)
  OBVIOUS
<1>9. /\ StackOK(low, clzGiven)
      /\ \A x \in ClzOperands : \A k : AtIn(low, x, k) <=> x[2][1] # n /\ AtIn(s, x, k)
  BY <1>3, <1>4, <1>8, StackPopped
<1>10. ASSUME NEW k PROVE SameOperands(low, f[th], k)
  <2>1. \A x \in ClzOperands : x[2][1] = n => ~AtIn(s, x, k)
    <3>1. DOMAIN s[n].handles = {}
      BY <1>7
    <3> QED
      BY <3>1 DEF AtIn
  <2> QED
    BY <1>2, <1>9, <2>1 DEF SameOperands
<1>11. PICK f2 : f2 = clzFrames' /\ f2 = [f EXCEPT ![th] = low]
  BY <1>1, <1>2, <1>8 DEF DestructorReturns
<1>12. StackSet(f2, f, th, low)
  BY <1>11 DEF StackSet
<1>13. \A k : CallsIn(f2, k) = CallsIn(f, k)
  BY <1>10, <1>12, CallsKept
<1>14. UNCHANGED <<clzTables, clzObjects, clzHeld, clzGiven, clzDestroyed>>
  BY DEF DestructorReturns
<1>15. Counted(clzObjects, clzHeld, f2)
  BY <1>1, <1>13 DEF ClzInv, Counted
<1>16. f2 \in [ClzThreads -> Seq(ClzFrameRecords)] /\ \A u \in ClzThreads : StackOK(f2[u], clzGiven)
  <2>1. low \in Seq(ClzFrameRecords)
    BY <1>9 DEF StackOK
  <2>2. f2[th] = low /\ \A u \in ClzThreads : u # th => f2[u] = f[u]
    BY <1>11
  <2> QED
    BY <1>1, <1>9, <1>11, <2>1, <2>2 DEF ClzInv
<1>17. ClzTypesOK'
  BY <1>14 DEF ClzInv, ClzTypesOK, clzTables
<1>18. TableOK(clzObjects', clzGiven', clzDestroyed') /\ Counted(clzObjects', clzHeld', clzFrames')
  BY <1>11, <1>14, <1>15 DEF ClzInv
<1>19. clzFrames' \in [ClzThreads -> Seq(ClzFrameRecords)] /\ \A u \in ClzThreads : StackOK(clzFrames'[u], clzGiven')
  BY <1>11, <1>14, <1>16
<1> QED
  BY <1>17, <1>18, <1>19 DEF ClzInv

(* Nothing is under way with an operand when all slots are empty. *)
LEMMA ClzResetStep ==
  ASSUME ClzAssumption, ClzInv, NEW th \in ClzThreads, Reset(th)
  PROVE  ClzInv'
<1>1. /\ \A s \in DOMAIN clzObjects : ~clzObjects[s].active
      /\ clzTypes' = <<>> /\ clzMethods' = {} /\ clzMulti' = {} /\ clzObjects' = <<>> /\ clzGiven' = <<>>
      /\ UNCHANGED <<clzHeld, clzFrames, clzDestroyed>>
  BY DEF Reset
<1>2. TableOK(clzObjects, clzGiven, clzDestroyed) /\ Counted(clzObjects, clzHeld, clzFrames)
  BY DEF ClzInv
<1>3. \A k : RefsIn(clzObjects, k) = 0
  BY <1>1 DEF RefsIn, FoundIn
<1>4. <<>> \in Seq(ClzSlotRecords) /\ DOMAIN <<>> = {}
  OBVIOUS
<1>5. \A k : RefsIn(<<>>, k) = 0
  BY <1>4 DEF RefsIn, FoundIn
<1>6. Counted(<<>>, clzHeld, clzFrames)
  BY <1>2, <1>3, <1>5 DEF Counted
<1>7. TableOK(<<>>, <<>>, clzDestroyed)
  <2>1. clzDestroyed \in [ClzPayloads -> {0, 1}]
    BY <1>2 DEF TableOK
  <2> QED
    BY <1>4, <2>1 DEF TableOK
<1>8. ASSUME NEW u \in ClzThreads PROVE StackOK(clzFrames[u], <<>>)
  <2>1. PICK s \in Seq(ClzFrameRecords) : s = clzFrames[u]
    BY DEF ClzInv
  <2>2. StackOK(s, clzGiven)
    BY <2>1 DEF ClzInv
  <2>3. DOMAIN s = 1..Len(s)
    OBVIOUS
  <2>4. ASSUME NEW f \in 1..Len(s) PROVE s[f].at # "method"
    <3>1. SUFFICES ASSUME s[f].at = "method" PROVE FALSE
      OBVIOUS
    <3>2. FrameOK(s[f], clzGiven) /\ f <= ClzNesting + 1
      BY <2>2, <3>1 DEF StackOK
    <3>3. PICK H \in Seq(ClzHandles) : H = s[f].handles
      <4>1. s[f] \in ClzFrameRecords
        BY <2>3
      <4> QED
        BY <4>1 DEF ClzFrameRecords
    <3>4. Len(H) \in {1, 2} /\ DOMAIN H = 1..Len(H)
      BY <3>1, <3>2, <3>3 DEF FrameOK
    <3>5. 1 \in DOMAIN H
      BY <3>4
    <3>6. PICK h \in ClzHandles : h = H[1]
      BY <3>5
    <3>7. PICK e : e = <<u, <<f, 1>>>>
      OBVIOUS
    <3>8. f \in 1..(ClzNesting + 2)
      <4>1. ClzNesting \in Nat /\ f \in Nat /\ 1 <= f
        BY <2>3 DEF ClzAssumption
      <4> QED
        BY <3>2, <4>1
    <3>9. e \in ClzOperands
      BY <3>7, <3>8 DEF ClzOperands
    <3>10. AtIn(clzFrames[u], e, h)
      BY <2>1, <2>3, <3>3, <3>5, <3>6, <3>7 DEF AtIn
    <3>11. e \in CallsIn(clzFrames, h)
      BY <3>7, <3>9, <3>10 DEF CallsIn
    <3>12. IsFiniteSet(CallsIn(clzFrames, h)) /\ Cardinality(CallsIn(clzFrames, h)) \in Nat
      BY ClzOperandsFinite
    <3>13. Cardinality(CallsIn(clzFrames, h)) # 0
      BY <3>11, <3>12, FS_EmptySet
    <3>14. ClzHolds \in Nat /\ clzHeld[h] \in 0..ClzHolds
      BY <1>2 DEF Counted, ClzAssumption
    <3>15. PICK a, b \in Nat : a = clzHeld[h] /\ b = Cardinality(CallsIn(clzFrames, h))
      BY <3>12, <3>14
    <3>16. a + b = 0 /\ b # 0
      BY <1>2, <1>3, <3>13, <3>15 DEF Counted
    <3> QED
      BY <3>16
  <2>5. \A f \in 1..Len(s) : FrameOK(s[f], <<>>) /\ (s[f].at # "destructor" => f <= ClzNesting + 1)
    BY <2>2, <2>4 DEF StackOK, FrameOK
  <2>6. StackOK(s, <<>>)
    BY <2>5 DEF StackOK
  <2> QED
    BY <2>1, <2>6
<1>9. ClzTypesOK'
  <2>1. <<>> \in Seq(ClzTypeRecords) /\ Len(<<>>) = 0 /\ 0 <= ClzTypeCount
    BY DEF ClzAssumption
  <2>2. \A t \in 1..Len(<<>>) : FALSE
    BY <2>1
  <2>3. clzTypes' \in Seq(ClzTypeRecords) /\ Len(clzTypes') <= ClzTypeCount
    BY <1>1, <2>1
  <2>4. \A t \in 1..Len(clzTypes') : FALSE
    BY <1>1, <2>2
  <2>5. clzMulti' \subseteq ClzMethodIds \X Nat \X Nat
    BY <1>1
  <2> QED
    BY <2>3, <2>4, <2>5 DEF ClzTypesOK
<1>10. TableOK(clzObjects', clzGiven', clzDestroyed') /\ Counted(clzObjects', clzHeld', clzFrames')
  BY <1>1, <1>6, <1>7
<1>11. clzFrames' \in [ClzThreads -> Seq(ClzFrameRecords)] /\ \A u \in ClzThreads : StackOK(clzFrames'[u], clzGiven')
  BY <1>1, <1>8 DEF ClzInv
<1> QED
  BY <1>9, <1>10, <1>11 DEF ClzInv

LEMMA ClzObjectsKept ==
  ASSUME ClzInv, UNCHANGED <<clzObjects, clzHeld, clzFrames, clzGiven, clzDestroyed>>, ClzTypesOK'
  PROVE  ClzInv'
BY DEF ClzInv

LEMMA ClzTypesStep ==
  ASSUME ClzAssumption, ClzInv, ClzTypesNext
  PROVE  ClzInv'
<1>1. PICK types \in Seq(ClzTypeRecords) : types = clzTypes
  BY DEF ClzInv, ClzTypesOK
<1>2. PICK n \in Nat : n = Len(types) /\ n <= ClzTypeCount /\ DOMAIN types = 1..n
  BY <1>1 DEF ClzInv, ClzTypesOK
<1>3. \A t \in 1..n : types[t].base \in 0..(t - 1)
  BY <1>1, <1>2 DEF ClzInv, ClzTypesOK
<1>4. clzMulti \subseteq ClzMethodIds \X Nat \X Nat
  BY DEF ClzInv, ClzTypesOK
<1>5. ASSUME NEW base \in 0..ClzTypeCount, NEW i \in BOOLEAN, RegisterType(base, i) PROVE ClzInv'
  <2>1. PICK r : r = [base |-> base, interface |-> i, interfaces |-> {}]
    OBVIOUS
  <2>2. /\ clzTypes' = Append(types, r) /\ base \in 0..n /\ n < ClzTypeCount
        /\ UNCHANGED <<clzMethods, clzMulti, clzObjects, clzHeld, clzFrames, clzGiven, clzDestroyed>>
    BY <1>1, <1>2, <1>5, <2>1 DEF RegisterType, TypeIds
  <2>3. r \in ClzTypeRecords /\ r.base = base
    BY <1>2, <2>1, <2>2 DEF ClzTypeRecords
  <2>4. PICK types2 : types2 = Append(types, r)
    OBVIOUS
  <2>5. /\ types2 \in Seq(ClzTypeRecords) /\ Len(types2) = n + 1 /\ types2[n + 1] = r
        /\ \A t \in 1..n : types2[t] = types[t]
    BY <1>2, <2>3, <2>4
  <2>6. n + 1 <= ClzTypeCount
    BY <1>2, <2>2 DEF ClzAssumption
  <2>7. ASSUME NEW t \in 1..(n + 1) PROVE types2[t].base \in 0..(t - 1)
    <3>1. CASE t = n + 1
      <4>1. types2[t].base = base /\ t - 1 = n
        BY <2>3, <2>5, <3>1
      <4> QED
        BY <2>2, <4>1
    <3>2. CASE t # n + 1
      <4>1. t \in 1..n
        BY <3>2
      <4> QED
        BY <1>3, <2>5, <4>1
    <3> QED
      BY <3>1, <3>2
  <2>8. ClzTypesOK'
    BY <1>4, <2>2, <2>4, <2>5, <2>6, <2>7 DEF ClzTypesOK
  <2> QED
    BY <2>2, <2>8, ClzObjectsKept
<1>6. ASSUME NEW t \in 1..ClzTypeCount, NEW i \in 1..ClzTypeCount, AddInterface(t, i) PROVE ClzInv'
  <2>1. /\ t \in 1..n /\ i \in Nat
        /\ UNCHANGED <<clzMethods, clzMulti, clzObjects, clzHeld, clzFrames, clzGiven, clzDestroyed>>
    BY <1>1, <1>2, <1>6 DEF AddInterface, TypeIds
  <2>2. PICK r \in ClzTypeRecords : r = types[t]
    BY <1>2, <2>1
  <2>3. PICK r2 : r2 = [r EXCEPT !.interfaces = @ \cup {i}]
    OBVIOUS
  <2>4. clzTypes' = [types EXCEPT ![t] = r2]
    BY <1>1, <1>2, <1>6, <2>1, <2>2, <2>3 DEF AddInterface
  <2>5. r.interfaces \cup {i} \in SUBSET Nat
    BY <2>1, <2>2 DEF ClzTypeRecords
  <2>6. r2 \in ClzTypeRecords /\ r2.base = r.base
    BY <2>2, <2>3, <2>5 DEF ClzTypeRecords
  <2>7. PICK types2 : types2 = [types EXCEPT ![t] = r2]
    OBVIOUS
  <2>8. /\ types2 \in Seq(ClzTypeRecords) /\ Len(types2) = n
        /\ \A u \in 1..n : types2[u] = IF u = t THEN r2 ELSE types[u]
    BY <1>2, <2>1, <2>6, <2>7
  <2>9. \A u \in 1..n : types2[u].base \in 0..(u - 1)
    BY <1>3, <2>2, <2>6, <2>8
  <2>10. ClzTypesOK'
    BY <1>2, <1>4, <2>1, <2>4, <2>7, <2>8, <2>9 DEF ClzTypesOK
  <2> QED
    BY <2>1, <2>10, ClzObjectsKept
<1>7. ASSUME NEW m \in ClzMethodIds, NEW t \in 1..ClzTypeCount, RegisterMethod(t, m) PROVE ClzInv'
  <2>1. UNCHANGED <<clzTypes, clzMulti, clzObjects, clzHeld, clzFrames, clzGiven, clzDestroyed>>
    BY <1>7 DEF RegisterMethod
  <2>2. ClzTypesOK'
    BY <2>1 DEF ClzInv, ClzTypesOK
  <2> QED
    BY <2>1, <2>2, ClzObjectsKept
<1>8. ASSUME NEW m \in ClzMethodIds, NEW t \in 1..ClzTypeCount, NEW u \in 1..ClzTypeCount, RegisterMulti(m, t, u)
      PROVE  ClzInv'
  <2>1. /\ clzMulti' = clzMulti \cup {<<m, t, u>>}
        /\ UNCHANGED <<clzTypes, clzMethods, clzObjects, clzHeld, clzFrames, clzGiven, clzDestroyed>>
    BY <1>8 DEF RegisterMulti
  <2>2. clzMulti' \subseteq ClzMethodIds \X Nat \X Nat
    BY <1>4, <2>1
  <2>3. ClzTypesOK'
    BY <2>1, <2>2 DEF ClzInv, ClzTypesOK
  <2> QED
    BY <2>1, <2>3, ClzObjectsKept
<1> QED
  BY <1>5, <1>6, <1>7, <1>8 DEF ClzTypesNext

LEMMA ClzStep ==
  ASSUME ClzAssumption, ClzRefsFit, ClzInv, [ClzNext]_clzVars
  PROVE  ClzInv'
<1>1. CASE ClzTypesNext
  BY <1>1, ClzTypesStep
<1>2. ASSUME NEW th \in ClzThreads, NEW t \in TypeIds, NEW p \in ClzPayloads, Wrap(th, t, p) PROVE ClzInv'
  BY <1>2, ClzWrapStep
<1>3. ASSUME NEW th \in ClzThreads, NEW h \in ClzHandles, NEW interfaces, Retain(th, h, interfaces) PROVE ClzInv'
  BY <1>3, ClzRetainStep
<1>4. ASSUME NEW th \in ClzThreads, NEW h \in ClzHandles, Release(th, h) PROVE ClzInv'
  BY <1>4, ClzReleaseStep
<1>5. ASSUME NEW th \in ClzThreads, NEW h \in ClzHandles, NEW m, Invoke(th, m, h) PROVE ClzInv'
  <2>1. PICK H : H = <<h>>
    OBVIOUS
  <2>2. H \in Seq(ClzHandles) /\ Len(H) = 1
    BY <2>1
  <2>3. Call(th, H)
    BY <1>5, <2>1 DEF Invoke
  <2> QED
    BY <2>2, <2>3, ClzCallStep
<1>6. ASSUME NEW th \in ClzThreads, NEW h \in ClzHandles, NEW r \in ClzHandles, NEW m, InvokeMulti(th, m, h, r)
      PROVE  ClzInv'
  <2>1. PICK H : H = <<h, r>>
    OBVIOUS
  <2>2. H \in Seq(ClzHandles) /\ Len(H) = 2
    BY <2>1
  <2>3. Call(th, H)
    BY <1>6, <2>1 DEF InvokeMulti
  <2> QED
    BY <2>2, <2>3, ClzCallStep
<1>7. ASSUME NEW th \in ClzThreads, Leave(th) \/ DestructorReturns(th) \/ Reset(th) PROVE ClzInv'
  BY <1>7, ClzLeaveStep, ClzReturnsStep, ClzResetStep
<1>8. CASE UNCHANGED clzVars
  <2>1. UNCHANGED <<clzTypes, clzMethods, clzMulti, clzObjects, clzHeld, clzFrames, clzGiven, clzDestroyed>>
    BY <1>8 DEF clzVars
  <2> QED
    BY <2>1, ClzObjectsKept DEF ClzInv, ClzTypesOK
<1> QED
  BY <1>1, <1>2, <1>3, <1>4, <1>5, <1>6, <1>7, <1>8 DEF ClzNext

LEMMA ClzStart ==
  ASSUME ClzAssumption, ClzInit
  PROVE  ClzInv
<1>1. \A k : RefsIn(<<>>, k) = 0
  BY DEF RefsIn, FoundIn
<1>2. TableOK(clzObjects, clzGiven, clzDestroyed)
  BY DEF ClzInit, TableOK
<1>3. PICK f : f = clzFrames
  OBVIOUS
<1>4. f \in [ClzThreads -> Seq(ClzFrameRecords)] /\ \A th \in ClzThreads : f[th] = <<>>
  BY <1>3 DEF ClzInit
<1>5. ASSUME NEW k PROVE CallsIn(f, k) = {}
  <2>1. ASSUME NEW x \in ClzOperands PROVE ~AtIn(f[x[1]], x, k)
    <3>1. f[x[1]] = <<>>
      BY <1>4, OperandPlaces
    <3> QED
      BY <3>1 DEF AtIn
  <2> QED
    BY <2>1 DEF CallsIn
<1>6. Counted(clzObjects, clzHeld, clzFrames)
  <2>1. 0 \in 0..ClzHolds
    BY DEF ClzAssumption
  <2>2. \A k : Cardinality(CallsIn(f, k)) = 0
    BY <1>5, FS_EmptySet
  <2>3. clzHeld \in [ClzHandles -> 0..ClzHolds] /\ \A k \in ClzHandles : clzHeld[k] = 0
    BY <2>1 DEF ClzInit
  <2>4. clzObjects = <<>> /\ 0 + 0 = 0
    BY DEF ClzInit
  <2> QED
    BY <1>1, <1>3, <2>2, <2>3, <2>4 DEF Counted
<1>7. \A th \in ClzThreads : StackOK(clzFrames[th], clzGiven)
  <2>1. <<>> \in Seq(ClzFrameRecords) /\ \A i \in 1..Len(<<>>) : FALSE
    OBVIOUS
  <2> QED
    BY <1>3, <1>4, <2>1 DEF StackOK
<1>8. ClzTypesOK
  <2>1. <<>> \in Seq(ClzTypeRecords) /\ Len(<<>>) = 0 /\ 0 <= ClzTypeCount
    BY DEF ClzAssumption
  <2> QED
    BY <2>1 DEF ClzTypesOK, ClzInit
<1> QED
  BY <1>2, <1>3, <1>4, <1>6, <1>7, <1>8 DEF ClzInv

LEMMA ClzInvExact ==
  ASSUME ClzAssumption, ClzTypesFit, ClzInv
  PROVE  ClzObjectsExact
<1>1. TableOK(clzObjects, clzGiven, clzDestroyed) /\ Counted(clzObjects, clzHeld, clzFrames)
  BY DEF ClzInv
<1>2. RefsAccounted
  <2>1. ASSUME NEW h \in ClzHandles
        PROVE  clzHeld[h] + Cardinality(CallRefs(h)) = IF FindObject(h) THEN Object(h).refs ELSE 0
    <3>1. CallRefs(h) = CallsIn(clzFrames, h)
      BY DEF CallRefs, CallsIn, AtIn
    <3>2. RefsIn(clzObjects, h) = IF FindObject(h) THEN Object(h).refs ELSE 0
      BY FoundIs DEF RefsIn, Object
    <3> QED
      BY <1>1, <3>1, <3>2 DEF Counted
  <2> QED
    BY <2>1 DEF RefsAccounted
<1>3. \A p \in ClzPayloads : clzDestroyed[p] <= 1
  <2>1. clzDestroyed \in [ClzPayloads -> {0, 1}]
    BY <1>1 DEF TableOK
  <2> QED
    BY <2>1
<1>4. \A s \in DOMAIN clzObjects :
        clzObjects[s].active <=> clzObjects[s].refs > 0 /\ clzObjects[s].payload # {}
  <2>1. PICK o \in Seq(ClzSlotRecords) : o = clzObjects
    BY <1>1 DEF TableOK
  <2>2. ASSUME NEW s \in DOMAIN o PROVE o[s].active <=> o[s].refs > 0 /\ o[s].payload # {}
    <3>1. o[s] \in ClzSlotRecords
      OBVIOUS
    <3>2. o[s].refs \in Nat /\ o[s].active \in BOOLEAN
      BY <3>1 DEF ClzSlotRecords
    <3>3. SlotOK(o[s], s, clzGiven)
      BY <1>1, <2>1 DEF TableOK
    <3>4. o[s].active => o[s].refs # 0 /\ o[s].payload # {}
      BY <3>3 DEF SlotOK
    <3>5. ~o[s].active => o[s].refs = 0
      BY <3>3 DEF SlotOK
    <3> QED
      BY <3>2, <3>4, <3>5
  <2> QED
    BY <2>1, <2>2
<1>5. ASSUME NEW h \in DOMAIN clzGiven
      PROVE  /\ FindObject(h) => Object(h).payload = {clzGiven[h]} /\ clzDestroyed[clzGiven[h]] = 0
             /\ ~FindObject(h) => clzDestroyed[clzGiven[h]] = 1
  <2>1. GivenOK(clzObjects, clzGiven, clzDestroyed, h)
    BY <1>1 DEF TableOK
  <2>2. h \in ClzHandles /\ clzDestroyed[clzGiven[h]] = IF FindObject(h) THEN 0 ELSE 1
    BY <2>1, FoundIs DEF GivenOK
  <2>3. ASSUME FindObject(h) PROVE Object(h).payload = {clzGiven[h]}
    <3>1. /\ h[1] \in DOMAIN clzObjects /\ clzObjects[h[1]].active
          /\ clzObjects[h[1]].generation = h[2]
      BY <2>3, FoundIs DEF FoundIn
    <3>2. SlotOK(clzObjects[h[1]], h[1], clzGiven)
      BY <1>1, <3>1 DEF TableOK
    <3>3. <<h[1], h[2]>> = h
      BY <2>2, HandlePairs
    <3> QED
      BY <3>1, <3>2, <3>3 DEF SlotOK, Object
  <2> QED
    BY <2>2, <2>3
<1>6. ASSUME NEW th \in ClzThreads, NEW f \in DOMAIN clzFrames[th], clzFrames[th][f].at = "method",
             NEW p \in clzFrames[th][f].payloads
      PROVE  clzDestroyed[p] = 0
  <2>1. PICK s \in Seq(ClzFrameRecords) : s = clzFrames[th] /\ StackOK(s, clzGiven)
    BY DEF ClzInv
  <2>2. f \in 1..Len(s) /\ f \in DOMAIN s
    BY <2>1
  <2>3. FrameOK(s[f], clzGiven) /\ f <= ClzNesting + 1
    BY <1>6, <2>1, <2>2 DEF StackOK
  <2>4. PICK H \in Seq(ClzHandles) : H = s[f].handles
    <3>1. s[f] \in ClzFrameRecords
      BY <2>2
    <3> QED
      BY <3>1 DEF ClzFrameRecords
  <2>5. PICK i \in 1..Len(H) : H[i] \in DOMAIN clzGiven /\ p = clzGiven[H[i]]
    BY <1>6, <2>1, <2>3, <2>4 DEF FrameOK
  <2>6. i \in {1, 2} /\ i \in DOMAIN H
    <3>1. Len(H) \in {1, 2}
      BY <1>6, <2>1, <2>3, <2>4 DEF FrameOK
    <3> QED
      BY <3>1
  <2>7. PICK h \in ClzHandles : h = H[i]
    BY <2>6
  <2>8. PICK e : e = <<th, <<f, i>>>>
    OBVIOUS
  <2>9. f \in 1..(ClzNesting + 2)
    <3>1. ClzNesting \in Nat /\ f \in Nat /\ 1 <= f
      BY <2>2 DEF ClzAssumption
    <3> QED
      BY <2>3, <3>1
  <2>10. e \in ClzOperands
    BY <2>6, <2>8, <2>9 DEF ClzOperands
  <2>11. AtIn(clzFrames[th], e, h)
    BY <2>1, <2>2, <2>4, <2>6, <2>7, <2>8 DEF AtIn
  <2>12. e \in CallsIn(clzFrames, h)
    BY <2>8, <2>10, <2>11 DEF CallsIn
  <2>13. IsFiniteSet(CallsIn(clzFrames, h)) /\ Cardinality(CallsIn(clzFrames, h)) \in Nat
    BY ClzOperandsFinite
  <2>14. Cardinality(CallsIn(clzFrames, h)) # 0
    BY <2>12, <2>13, FS_EmptySet
  <2>15. ClzHolds \in Nat /\ clzHeld[h] \in 0..ClzHolds
    BY <1>1 DEF Counted, ClzAssumption
  <2>16. PICK a, b \in Nat : a = clzHeld[h] /\ b = Cardinality(CallsIn(clzFrames, h))
    BY <2>13, <2>15
  <2>17. RefsIn(clzObjects, h) = a + b /\ a + b # 0
    BY <1>1, <2>14, <2>16 DEF Counted
  <2>18. FindObject(h)
    BY <2>17, FoundIs DEF RefsIn
  <2> QED
    BY <1>5, <2>5, <2>7, <2>18
<1>7. PayloadsDestroyedOnce
  BY <1>3, <1>4, <1>5, <1>6 DEF PayloadsDestroyedOnce
<1>8. DispatchInherited
  BY DispatchIsInherited DEF ClzInv
<1> QED
  BY <1>2, <1>7, <1>8 DEF ClzObjectsExact

(* However many threads call, and methods and destructors call back: whoever has a *)
(* reference finds the object, a payload is destroyed once, after the last reference, *)
(* and a type answers what its bases answer.                                 *)
THEOREM ClzAlwaysExact ==
  ASSUME ClzTypesFit, ClzRefsFit
  PROVE  ClzSpec => []ClzObjectsExact
<1>1. ClzInit => ClzInv
  BY ClzAssumption, ClzStart
<1>2. ClzInv /\ [ClzNext]_clzVars => ClzInv'
  BY ClzAssumption, ClzStep
<1>3. ClzInv => ClzObjectsExact
  BY ClzAssumption, ClzInvExact
<1> QED
  BY <1>1, <1>2, <1>3, PTL DEF ClzSpec

-----------------------------------------------------------------------------
(* The C interface bridge: references and their places *)

(* References are sequences of descriptors; the places of one in it. *)
LEMMA OccurrencesOf ==
  ASSUME NEW r \in Seq(CapiTypes), NEW d
  PROVE  /\ IsFiniteSet(CapiOccurrences(r, d)) /\ Cardinality(CapiOccurrences(r, d)) \in Nat
         /\ CapiOccurrences(r, d) \in SUBSET (1..Len(r))
<1>1. Len(r) \in Nat /\ DOMAIN r = 1..Len(r)
  OBVIOUS
<1>2. CapiOccurrences(r, d) \in SUBSET (1..Len(r))
  BY <1>1 DEF CapiOccurrences
<1>3. IsFiniteSet(1..Len(r))
  <2>1. 1 \in Int /\ Len(r) \in Int
    BY <1>1
  <2> QED
    BY <2>1, FS_Interval
<1>4. IsFiniteSet(CapiOccurrences(r, d))
  BY <1>2, <1>3, FS_Subset
<1> QED
  BY <1>2, <1>4, FS_CardinalityType

(* No references, one, and one list after the other. *)
LEMMA OccurrencesNone ==
  ASSUME NEW d
  PROVE  CapiOccurrences(<<>>, d) = {} /\ Cardinality(CapiOccurrences(<<>>, d)) = 0
<1>1. CapiOccurrences(<<>>, d) = {}
  BY DEF CapiOccurrences
<1> QED
  BY <1>1, FS_EmptySet

LEMMA OccurrencesOne ==
  ASSUME NEW d, NEW e
  PROVE  Cardinality(CapiOccurrences(<<d>>, e)) = IF d = e THEN 1 ELSE 0
<1>1. DOMAIN <<d>> = {1} /\ <<d>>[1] = d
  OBVIOUS
<1>2. CASE d = e
  <2>1. CapiOccurrences(<<d>>, e) = {1}
    BY <1>1, <1>2 DEF CapiOccurrences
  <2> QED
    BY <1>2, <2>1, FS_Singleton
<1>3. CASE d # e
  <2>1. CapiOccurrences(<<d>>, e) = {}
    BY <1>1, <1>3 DEF CapiOccurrences
  <2> QED
    BY <1>3, <2>1, FS_EmptySet
<1> QED
  BY <1>2, <1>3

(* The numbers k + 1 .. k + n, for a set of numbers 1 .. n. *)
Shifted(S, k) == {i + k : i \in S}
LEMMA ShiftedCount ==
  ASSUME NEW S \in SUBSET Nat, IsFiniteSet(S), NEW k \in Nat
  PROVE  IsFiniteSet(Shifted(S, k)) /\ Cardinality(Shifted(S, k)) = Cardinality(S)
<1> DEFINE f == [i \in S |-> i + k]
<1>1. f \in [S -> Shifted(S, k)]
  BY DEF Shifted
<1>2. \A a, b \in S : f[a] = f[b] => a = b
  OBVIOUS
<1>3. \A c \in Shifted(S, k) : \E a \in S : f[a] = c
  BY DEF Shifted
<1> HIDE DEF f
<1>4. f \in Bijection(S, Shifted(S, k))
  BY <1>1, <1>2, <1>3 DEF Bijection, Injection, Surjection, IsInjective
<1>5. ExistsBijection(S, Shifted(S, k))
  BY <1>4 DEF ExistsBijection
<1> QED
  BY <1>5, FS_Bijection

LEMMA OccurrencesAfter ==
  ASSUME NEW r \in Seq(CapiTypes), NEW q \in Seq(CapiTypes), NEW d
  PROVE  Cardinality(CapiOccurrences(r \o q, d))
           = Cardinality(CapiOccurrences(r, d)) + Cardinality(CapiOccurrences(q, d))
<1> DEFINE O == CapiOccurrences(r, d)
           P == Shifted(CapiOccurrences(q, d), Len(r))
<1>1. PICK k \in Nat : k = Len(r)
  OBVIOUS
<1>2. PICK n \in Nat : n = Len(q)
  OBVIOUS
<1>3. PICK w : w = r \o q
  OBVIOUS
<1>4. /\ w \in Seq(CapiTypes) /\ Len(w) = k + n
      /\ \A i \in 1..(k + n) : w[i] = IF i <= k THEN r[i] ELSE q[i - k]
  BY <1>1, <1>2, <1>3, ConcatProperties
<1>5. DOMAIN r = 1..k /\ DOMAIN q = 1..n /\ DOMAIN w = 1..(k + n)
  BY <1>1, <1>2, <1>4
<1>6. CapiOccurrences(w, d) = O \cup P
  <2>1. ASSUME NEW i \in CapiOccurrences(w, d) PROVE i \in O \cup P
    <3>1. i \in 1..(k + n) /\ w[i] = d
      BY <1>5, <2>1 DEF CapiOccurrences
    <3>2. CASE i <= k
      BY <1>4, <1>5, <3>1, <3>2 DEF CapiOccurrences
    <3>3. CASE ~(i <= k)
      <4>1. i - k \in 1..n /\ (i - k) + k = i
        BY <3>1, <3>3
      <4>2. i - k \in CapiOccurrences(q, d)
        BY <1>4, <1>5, <3>1, <3>3, <4>1 DEF CapiOccurrences
      <4> QED
        BY <1>1, <4>1, <4>2 DEF Shifted
    <3> QED
      BY <3>2, <3>3
  <2>2. ASSUME NEW i \in O PROVE i \in CapiOccurrences(w, d)
    <3>1. i \in 1..k /\ r[i] = d
      BY <1>5, <2>2 DEF CapiOccurrences
    <3>2. i \in 1..(k + n) /\ i <= k
      BY <3>1
    <3>3. w[i] = d
      BY <1>4, <3>1, <3>2
    <3> QED
      BY <1>5, <3>2, <3>3 DEF CapiOccurrences
  <2>3. ASSUME NEW i \in P PROVE i \in CapiOccurrences(w, d)
    <3>1. PICK j \in CapiOccurrences(q, d) : i = j + k
      BY <1>1, <2>3 DEF Shifted
    <3>2. j \in 1..n /\ q[j] = d
      BY <1>5, <3>1 DEF CapiOccurrences
    <3>3. i \in 1..(k + n) /\ ~(i <= k) /\ i - k = j
      BY <3>1, <3>2
    <3>4. w[i] = d
      BY <1>4, <3>2, <3>3
    <3> QED
      BY <1>5, <3>3, <3>4 DEF CapiOccurrences
  <2> QED
    BY <2>1, <2>2, <2>3
<1>7. O \cap P = {}
  <2>1. ASSUME NEW i \in O, i \in P PROVE FALSE
    <3>1. i \in 1..k
      BY <1>5, <2>1 DEF CapiOccurrences
    <3>2. PICK j \in CapiOccurrences(q, d) : i = j + k
      BY <1>1, <2>1 DEF Shifted
    <3>3. j \in 1..n
      BY <1>5, <3>2 DEF CapiOccurrences
    <3> QED
      BY <3>1, <3>2, <3>3
  <2> QED
    BY <2>1
<1>8. IsFiniteSet(O) /\ Cardinality(O) \in Nat
  BY OccurrencesOf
<1>9. IsFiniteSet(P) /\ Cardinality(P) = Cardinality(CapiOccurrences(q, d)) /\ Cardinality(P) \in Nat
  <2>1. /\ IsFiniteSet(CapiOccurrences(q, d)) /\ Cardinality(CapiOccurrences(q, d)) \in Nat
        /\ CapiOccurrences(q, d) \in SUBSET (1..Len(q))
    BY OccurrencesOf
  <2>2. CapiOccurrences(q, d) \in SUBSET Nat /\ Len(r) \in Nat
    BY <1>2, <2>1
  <2> QED
    BY <2>1, <2>2, ShiftedCount
<1>10. Cardinality(O \cup P) = Cardinality(O) + Cardinality(P) - Cardinality(O \cap P)
  BY <1>8, <1>9, FS_Union
<1>11. Cardinality(O \cap P) = 0
  BY <1>7, FS_EmptySet
<1> HIDE DEF O, P
<1>12. Cardinality(O \cup P) = Cardinality(O) + Cardinality(P)
  BY <1>8, <1>9, <1>10, <1>11
<1> QED
  BY <1>3, <1>6, <1>9, <1>12 DEF O

(* The places <<k, i>> of a table, i of the set o[k]. *)
PlacesIn(K, o) == {x \in K \X (1..CapiArgMax) : x[2] \in o[x[1]]}
PlaceTable(K, o) == \A k \in K : o[k] \in SUBSET (1..CapiArgMax)

LEMMA PlacesFinite ==
  ASSUME NEW K, IsFiniteSet(K), NEW o
  PROVE  IsFiniteSet(PlacesIn(K, o)) /\ Cardinality(PlacesIn(K, o)) \in Nat
<1>1. IsFiniteSet(1..CapiArgMax)
  <2>1. 1 \in Int /\ CapiArgMax \in Int
    BY CapiAssumption
  <2> QED
    BY <2>1, FS_Interval
<1>2. IsFiniteSet(K \X (1..CapiArgMax))
  BY <1>1, FS_Product
<1>3. PlacesIn(K, o) \in SUBSET (K \X (1..CapiArgMax))
  BY DEF PlacesIn
<1>4. IsFiniteSet(PlacesIn(K, o))
  BY <1>2, <1>3, FS_Subset
<1> QED
  BY <1>4, FS_CardinalityType

(* Those of one key, and those of the others. *)
LEMMA PlacesSplit ==
  ASSUME NEW K, IsFiniteSet(K), NEW o, PlaceTable(K, o), NEW k \in K
  PROVE  Cardinality(PlacesIn(K, o)) = Cardinality(PlacesIn(K \ {k}, o)) + Cardinality(o[k])
<1> DEFINE A == PlacesIn(K \ {k}, o)
           B == {k} \X o[k]
<1>1. PlacesIn(K, o) = A \cup B
  <2>1. ASSUME NEW x \in PlacesIn(K, o) PROVE x \in A \cup B
    <3>1. x \in K \X (1..CapiArgMax) /\ x[2] \in o[x[1]]
      BY <2>1 DEF PlacesIn
    <3>2. x = <<x[1], x[2]>> /\ x[1] \in K /\ x[2] \in 1..CapiArgMax
      BY <3>1
    <3>3. CASE x[1] = k
      <4>1. x[1] \in {k} /\ x[2] \in o[k]
        BY <3>1, <3>3
      <4> QED
        BY <3>2, <4>1
    <3>4. CASE x[1] # k
      <4>1. x \in (K \ {k}) \X (1..CapiArgMax)
        BY <3>2, <3>4
      <4> QED
        BY <3>1, <4>1 DEF PlacesIn
    <3> QED
      BY <3>3, <3>4
  <2>2. ASSUME NEW x \in A PROVE x \in PlacesIn(K, o)
    BY <2>2 DEF PlacesIn
  <2>3. ASSUME NEW x \in B PROVE x \in PlacesIn(K, o)
    <3>1. x[1] = k /\ x[2] \in o[k] /\ x = <<x[1], x[2]>>
      BY <2>3
    <3>2. x[2] \in 1..CapiArgMax
      BY <3>1 DEF PlaceTable
    <3>3. x \in K \X (1..CapiArgMax)
      BY <3>1, <3>2
    <3> QED
      BY <3>1, <3>3 DEF PlacesIn
  <2> QED
    BY <2>1, <2>2, <2>3
<1>2. A \cap B = {}
  BY DEF PlacesIn
<1>3. IsFiniteSet(A) /\ Cardinality(A) \in Nat
  <2>1. IsFiniteSet(K \ {k})
    BY FS_Subset
  <2> QED
    BY <2>1, PlacesFinite
<1>4. IsFiniteSet(o[k]) /\ Cardinality(o[k]) \in Nat
  <2>1. 1 \in Int /\ CapiArgMax \in Int
    BY CapiAssumption
  <2>2. IsFiniteSet(1..CapiArgMax)
    BY <2>1, FS_Interval
  <2>3. o[k] \in SUBSET (1..CapiArgMax)
    BY DEF PlaceTable
  <2>4. IsFiniteSet(o[k])
    BY <2>2, <2>3, FS_Subset
  <2> QED
    BY <2>4, FS_CardinalityType
<1>5. IsFiniteSet(B) /\ Cardinality(B) = Cardinality(o[k])
  <2>1. IsFiniteSet({k}) /\ Cardinality({k}) = 1
    BY FS_Singleton
  <2>2. IsFiniteSet(B) /\ Cardinality(B) = 1 * Cardinality(o[k])
    <3>1. IsFiniteSet(B) /\ Cardinality(B) = Cardinality({k}) * Cardinality(o[k])
      BY <1>4, <2>1, FS_Product
    <3> QED
      BY <2>1, <3>1
  <2> HIDE DEF B
  <2> QED
    BY <1>4, <2>2
<1>6. Cardinality(A \cup B) = Cardinality(A) + Cardinality(B) - Cardinality(A \cap B)
  BY <1>3, <1>5, FS_Union
<1>7. Cardinality(A \cap B) = 0
  BY <1>2, FS_EmptySet
<1> HIDE DEF A, B
<1>8. Cardinality(A \cup B) = Cardinality(A) + Cardinality(o[k])
  BY <1>3, <1>4, <1>5, <1>6, <1>7
<1> QED
  BY <1>1, <1>8 DEF A

(* One key changes: so much is gone, and so much has come. *)
LEMMA PlacesChange ==
  ASSUME NEW K, IsFiniteSet(K), NEW o, NEW p, PlaceTable(K, o), PlaceTable(K, p), NEW k \in K,
         \A j \in K \ {k} : o[j] = p[j]
  PROVE  Cardinality(PlacesIn(K, p)) + Cardinality(o[k]) = Cardinality(PlacesIn(K, o)) + Cardinality(p[k])
<1>1. PlacesIn(K \ {k}, o) = PlacesIn(K \ {k}, p)
  BY DEF PlacesIn
<1>2. Cardinality(PlacesIn(K, o)) = Cardinality(PlacesIn(K \ {k}, o)) + Cardinality(o[k])
  BY PlacesSplit
<1>3. Cardinality(PlacesIn(K, p)) = Cardinality(PlacesIn(K \ {k}, o)) + Cardinality(p[k])
  BY <1>1, PlacesSplit
<1>4. IsFiniteSet(1..CapiArgMax)
  <2>1. 1 \in Int /\ CapiArgMax \in Int
    BY CapiAssumption
  <2> QED
    BY <2>1, FS_Interval
<1>5. Cardinality(o[k]) \in Nat /\ Cardinality(p[k]) \in Nat
  <2>1. o[k] \in SUBSET (1..CapiArgMax) /\ p[k] \in SUBSET (1..CapiArgMax)
    BY DEF PlaceTable
  <2>2. IsFiniteSet(o[k]) /\ IsFiniteSet(p[k])
    BY <1>4, <2>1, FS_Subset
  <2> QED
    BY <2>2, FS_CardinalityType
<1>6. Cardinality(PlacesIn(K \ {k}, o)) \in Nat
  <2>1. IsFiniteSet(K \ {k})
    BY FS_Subset
  <2> QED
    BY <2>1, PlacesFinite
<1> QED
  BY <1>2, <1>3, <1>5, <1>6

-----------------------------------------------------------------------------
(* The C interface bridge: what a release does *)

CapiTypeRecords == [count : Nat, held : BOOLEAN, final : BOOLEAN, fields : Seq(CapiTypes)]
CapiTypesOK(types) ==
  types \in [CapiTypes -> CapiTypeRecords] /\ \A d \in CapiTypes : Len(types[d].fields) <= CapiArgMax

HeldOne(type) == IF type.held THEN 1 ELSE 0
FieldOccurrences(types, d) == [t \in CapiTypes |-> CapiOccurrences(types[t].fields, d)]
FieldDomains(types) == [t \in CapiTypes |-> DOMAIN types[t].fields]
FieldsTo(types, d) == PlacesIn(CapiTypes, FieldOccurrences(types, d))
FieldPlaces(types) == PlacesIn(CapiTypes, FieldDomains(types))

(* owed: the references from outside the types; refs: those still to be released. *)
OwedTo(types, owed, refs, d) ==
  HeldOne(types[d]) + Cardinality(FieldsTo(types, d)) + owed[d] + Cardinality(CapiOccurrences(refs, d))
Balanced(types, owed, refs) == \A d \in CapiTypes : types[d].count = OwedTo(types, owed, refs, d)

ReleaseOK(types, owed, refs) ==
  CapiTypesOK(types) /\ owed \in [CapiTypes -> Nat] /\ refs \in Seq(CapiTypes) /\ Balanced(types, owed, refs)

LEMMA FieldsCounted ==
  ASSUME NEW types, CapiTypesOK(types), NEW d
  PROVE  /\ PlaceTable(CapiTypes, FieldOccurrences(types, d)) /\ PlaceTable(CapiTypes, FieldDomains(types))
         /\ Cardinality(FieldsTo(types, d)) \in Nat /\ Cardinality(FieldPlaces(types)) \in Nat
<1>1. ASSUME NEW t \in CapiTypes
      PROVE  /\ FieldOccurrences(types, d)[t] \in SUBSET (1..CapiArgMax)
             /\ FieldDomains(types)[t] \in SUBSET (1..CapiArgMax)
  <2>1. types[t] \in CapiTypeRecords /\ Len(types[t].fields) <= CapiArgMax
    BY DEF CapiTypesOK
  <2>2. PICK r \in Seq(CapiTypes) : r = types[t].fields
    BY <2>1 DEF CapiTypeRecords
  <2>3. Len(r) \in Nat /\ Len(r) <= CapiArgMax /\ DOMAIN r = 1..Len(r) /\ CapiArgMax \in Nat
    BY <2>1, <2>2, CapiAssumption
  <2>4. DOMAIN r \in SUBSET (1..CapiArgMax) /\ CapiOccurrences(r, d) \in SUBSET (1..CapiArgMax)
    BY <2>3 DEF CapiOccurrences
  <2> QED
    BY <2>2, <2>4 DEF FieldOccurrences, FieldDomains
<1>2. IsFiniteSet(CapiTypes)
  BY CapiAssumption
<1> QED
  BY <1>1, <1>2, PlacesFinite DEF PlaceTable, FieldsTo, FieldPlaces

(* types2 differs from types in the fields of d only. *)
FieldsSet(types2, types, d) ==
  /\ CapiTypesOK(types) /\ CapiTypesOK(types2) /\ d \in CapiTypes
  /\ \A t \in CapiTypes : t # d => types2[t].fields = types[t].fields

LEMMA FieldsChange ==
  ASSUME NEW types, NEW types2, NEW d, FieldsSet(types2, types, d), NEW e
  PROVE  Cardinality(FieldsTo(types2, e)) + Cardinality(CapiOccurrences(types[d].fields, e))
           = Cardinality(FieldsTo(types, e)) + Cardinality(CapiOccurrences(types2[d].fields, e))
<1>1. PICK o : o = FieldOccurrences(types, e)
  OBVIOUS
<1>2. PICK p : p = FieldOccurrences(types2, e)
  OBVIOUS
<1>3. PlaceTable(CapiTypes, o) /\ PlaceTable(CapiTypes, p)
  BY <1>1, <1>2, FieldsCounted DEF FieldsSet
<1>4. \A t \in CapiTypes \ {d} : o[t] = p[t]
  BY <1>1, <1>2 DEF FieldsSet, FieldOccurrences
<1>5. o[d] = CapiOccurrences(types[d].fields, e) /\ p[d] = CapiOccurrences(types2[d].fields, e)
  BY <1>1, <1>2 DEF FieldsSet, FieldOccurrences
<1>6. IsFiniteSet(CapiTypes) /\ d \in CapiTypes
  BY CapiAssumption DEF FieldsSet
<1>7. Cardinality(PlacesIn(CapiTypes, p)) + Cardinality(o[d])
        = Cardinality(PlacesIn(CapiTypes, o)) + Cardinality(p[d])
  BY <1>3, <1>4, <1>6, PlacesChange
<1> QED
  BY <1>1, <1>2, <1>5, <1>7 DEF FieldsTo

LEMMA FieldPlacesChange ==
  ASSUME NEW types, NEW types2, NEW d, FieldsSet(types2, types, d)
  PROVE  Cardinality(FieldPlaces(types2)) + Len(types[d].fields)
           = Cardinality(FieldPlaces(types)) + Len(types2[d].fields)
<1>1. PICK o : o = FieldDomains(types)
  OBVIOUS
<1>2. PICK p : p = FieldDomains(types2)
  OBVIOUS
<1>3. PlaceTable(CapiTypes, o) /\ PlaceTable(CapiTypes, p)
  BY <1>1, <1>2, FieldsCounted DEF FieldsSet
<1>4. \A t \in CapiTypes \ {d} : o[t] = p[t]
  BY <1>1, <1>2 DEF FieldsSet, FieldDomains
<1>5. o[d] = DOMAIN types[d].fields /\ p[d] = DOMAIN types2[d].fields
  BY <1>1, <1>2 DEF FieldsSet, FieldDomains
<1>6. IsFiniteSet(CapiTypes) /\ d \in CapiTypes
  BY CapiAssumption DEF FieldsSet
<1>7. Cardinality(PlacesIn(CapiTypes, p)) + Cardinality(o[d])
        = Cardinality(PlacesIn(CapiTypes, o)) + Cardinality(p[d])
  BY <1>3, <1>4, <1>6, PlacesChange
<1>8. ASSUME NEW r \in Seq(CapiTypes) PROVE Cardinality(DOMAIN r) = Len(r)
  <2>1. DOMAIN r = 1..Len(r) /\ Len(r) \in Nat /\ 1 \in Int /\ Len(r) \in Int
    OBVIOUS
  <2>2. Cardinality(1..Len(r)) = IF 1 > Len(r) THEN 0 ELSE Len(r) - 1 + 1
    BY <2>1, FS_Interval
  <2> QED
    BY <2>1, <2>2
<1>9. types[d].fields \in Seq(CapiTypes) /\ types2[d].fields \in Seq(CapiTypes)
  BY <1>6 DEF FieldsSet, CapiTypesOK, CapiTypeRecords
<1> QED
  BY <1>1, <1>2, <1>5, <1>7, <1>8, <1>9 DEF FieldPlaces

LEMMA NoTypeOK == NoType \in CapiTypeRecords /\ NoType.fields = <<>> /\ NoType.count = 0 /\ ~NoType.held
<1>1. <<>> \in Seq(CapiTypes) /\ 0 \in Nat
  OBVIOUS
<1> QED
  BY <1>1 DEF NoType, CapiTypeRecords

TypeFreed(types2, types, d) == types2 = [types EXCEPT ![d] = NoType]
TypeLeft(types2, types, d) == types2 = [types EXCEPT ![d].count = @ - 1]

(* The last reference to d: nobody holds it, no field is of it, and its own fields are next. *)
LEMMA FreedLast ==
  ASSUME NEW types, NEW owed, NEW d \in CapiTypes, NEW rest \in Seq(CapiTypes), NEW types2,
         ReleaseOK(types, owed, <<d>> \o rest), types[d].count = 1,
         TypeFreed(types2, types, d)
  PROVE  /\ ReleaseOK(types2, owed, rest \o types[d].fields)
         /\ Cardinality(FieldPlaces(types2)) + Len(types[d].fields) = Cardinality(FieldPlaces(types))
<1>1. /\ CapiTypesOK(types) /\ owed \in [CapiTypes -> Nat]
      /\ \A e \in CapiTypes : types[e].count = OwedTo(types, owed, <<d>> \o rest, e)
  BY DEF ReleaseOK, Balanced
<1>2. types \in [CapiTypes -> CapiTypeRecords] /\ types[d] \in CapiTypeRecords
  BY <1>1 DEF CapiTypesOK
<1>3. PICK r \in Seq(CapiTypes) : r = types[d].fields
  BY <1>2 DEF CapiTypeRecords
<1>4. types2[d] = NoType /\ \A e \in CapiTypes : e # d => types2[e] = types[e]
  BY <1>2 DEF TypeFreed
<1>5. CapiTypesOK(types2)
  <2>1. types2 \in [CapiTypes -> CapiTypeRecords]
    BY <1>2, NoTypeOK DEF TypeFreed
  <2>2. Len(NoType.fields) <= CapiArgMax
    <3>1. Len(<<>>) = 0 /\ CapiArgMax \in Nat
      BY CapiAssumption
    <3> QED
      BY <3>1, NoTypeOK
  <2>3. \A e \in CapiTypes : Len(types2[e].fields) <= CapiArgMax
    BY <1>1, <1>4, <2>2 DEF CapiTypesOK
  <2> QED
    BY <2>1, <2>3 DEF CapiTypesOK
<1>6. FieldsSet(types2, types, d)
  BY <1>1, <1>4, <1>5 DEF FieldsSet
<1>7. types2[d].fields = <<>>
  BY <1>4, NoTypeOK
<1>8. ASSUME NEW e \in CapiTypes
      PROVE  /\ Cardinality(FieldsTo(types2, e)) + Cardinality(CapiOccurrences(r, e))
                  = Cardinality(FieldsTo(types, e))
             /\ Cardinality(CapiOccurrences(<<d>> \o rest, e))
                  = (IF d = e THEN 1 ELSE 0) + Cardinality(CapiOccurrences(rest, e))
             /\ Cardinality(CapiOccurrences(rest \o r, e))
                  = Cardinality(CapiOccurrences(rest, e)) + Cardinality(CapiOccurrences(r, e))
             /\ Cardinality(FieldsTo(types2, e)) \in Nat /\ Cardinality(FieldsTo(types, e)) \in Nat
             /\ Cardinality(CapiOccurrences(r, e)) \in Nat /\ Cardinality(CapiOccurrences(rest, e)) \in Nat
  <2>1. Cardinality(FieldsTo(types2, e)) \in Nat /\ Cardinality(FieldsTo(types, e)) \in Nat
    BY <1>1, <1>5, FieldsCounted
  <2>2. Cardinality(FieldsTo(types2, e)) + Cardinality(CapiOccurrences(r, e))
          = Cardinality(FieldsTo(types, e)) + Cardinality(CapiOccurrences(types2[d].fields, e))
    <3>1. Cardinality(FieldsTo(types2, e)) + Cardinality(CapiOccurrences(types[d].fields, e))
            = Cardinality(FieldsTo(types, e)) + Cardinality(CapiOccurrences(types2[d].fields, e))
      BY <1>6, FieldsChange
    <3> QED
      BY <1>3, <3>1
  <2>3. Cardinality(CapiOccurrences(types2[d].fields, e)) = 0
    BY <1>7, OccurrencesNone
  <2>4. <<d>> \in Seq(CapiTypes)
    OBVIOUS
  <2>5. Cardinality(CapiOccurrences(<<d>> \o rest, e))
          = Cardinality(CapiOccurrences(<<d>>, e)) + Cardinality(CapiOccurrences(rest, e))
    BY <2>4, OccurrencesAfter
  <2>6. Cardinality(CapiOccurrences(<<d>>, e)) = IF d = e THEN 1 ELSE 0
    BY OccurrencesOne
  <2>7. Cardinality(CapiOccurrences(r, e)) \in Nat /\ Cardinality(CapiOccurrences(rest, e)) \in Nat
    BY OccurrencesOf
  <2>8. Cardinality(CapiOccurrences(rest \o r, e))
          = Cardinality(CapiOccurrences(rest, e)) + Cardinality(CapiOccurrences(r, e))
    BY OccurrencesAfter
  <2>9. Cardinality(FieldsTo(types2, e)) + Cardinality(CapiOccurrences(r, e)) = Cardinality(FieldsTo(types, e))
    BY <2>1, <2>2, <2>3
  <2> QED
    BY <2>1, <2>5, <2>6, <2>7, <2>8, <2>9
<1>9. ASSUME NEW e \in CapiTypes PROVE types2[e].count = OwedTo(types2, owed, rest \o r, e)
  <2>1. PICK f2 \in Nat, f \in Nat, o \in Nat, p \in Nat, w \in Nat :
          /\ f2 = Cardinality(FieldsTo(types2, e)) /\ f = Cardinality(FieldsTo(types, e))
          /\ o = Cardinality(CapiOccurrences(r, e)) /\ p = Cardinality(CapiOccurrences(rest, e)) /\ w = owed[e]
    BY <1>1, <1>8
  <2>2. f2 + o = f
    BY <1>8, <2>1
  <2>3. types[e].count = HeldOne(types[e]) + f + w + ((IF d = e THEN 1 ELSE 0) + p)
    BY <1>1, <1>8, <2>1 DEF OwedTo
  <2>4. OwedTo(types2, owed, rest \o r, e) = HeldOne(types2[e]) + f2 + w + (p + o)
    BY <1>8, <2>1 DEF OwedTo
  <2>5. CASE e = d
    <3>1. HeldOne(types[e]) \in Nat /\ HeldOne(types2[e]) = 0
      BY <1>4, <2>5, NoTypeOK DEF HeldOne
    <3>2. 1 = HeldOne(types[e]) + f + w + (1 + p)
      BY <2>3, <2>5
    <3>3. f = 0 /\ w = 0 /\ p = 0
      BY <3>1, <3>2
    <3>4. f2 = 0 /\ o = 0
      BY <2>2, <3>3
    <3>5. types2[e].count = 0
      BY <1>4, <2>5, NoTypeOK
    <3> QED
      BY <2>4, <3>1, <3>3, <3>4, <3>5
  <2>6. CASE e # d
    <3>1. PICK h \in Nat : h = HeldOne(types[e])
      BY DEF HeldOne
    <3>2. types2[e] = types[e]
      BY <1>4, <2>6
    <3>3. types2[e].count = h + f + w + (0 + p)
      BY <2>3, <2>6, <3>1, <3>2
    <3>4. OwedTo(types2, owed, rest \o r, e) = h + f2 + w + (p + o)
      BY <2>4, <3>1, <3>2
    <3> QED
      BY <2>2, <3>3, <3>4
  <2> QED
    BY <2>5, <2>6
<1>10. rest \o r \in Seq(CapiTypes)
  BY ConcatProperties
<1>11. ReleaseOK(types2, owed, rest \o r)
  BY <1>1, <1>5, <1>9, <1>10 DEF ReleaseOK, Balanced
<1>12. Cardinality(FieldPlaces(types2)) + Len(types[d].fields) = Cardinality(FieldPlaces(types))
  <2>1. Cardinality(FieldPlaces(types2)) + Len(types[d].fields)
          = Cardinality(FieldPlaces(types)) + Len(types2[d].fields)
    BY <1>6, FieldPlacesChange, Zenon
  <2>2. Cardinality(FieldPlaces(types)) \in Nat /\ Len(<<>>) = 0
    BY <1>1, FieldsCounted
  <2> QED
    BY <1>7, <2>1, <2>2
<1> QED
  BY <1>3, <1>11, <1>12

(* The fields of no type change: nor do the places. *)
LEMMA FieldsKept ==
  ASSUME NEW types, NEW types2, \A t \in CapiTypes : types2[t].fields = types[t].fields
  PROVE  FieldPlaces(types2) = FieldPlaces(types) /\ \A d : FieldsTo(types2, d) = FieldsTo(types, d)
<1>1. FieldDomains(types2) = FieldDomains(types) /\ \A d : FieldOccurrences(types2, d) = FieldOccurrences(types, d)
  BY DEF FieldDomains, FieldOccurrences
<1> QED
  BY <1>1 DEF FieldPlaces, FieldsTo

(* One reference of several is released. *)
LEMMA FreedOne ==
  ASSUME NEW types, NEW owed, NEW d \in CapiTypes, NEW rest \in Seq(CapiTypes), NEW types2,
         ReleaseOK(types, owed, <<d>> \o rest), types[d].count # 1,
         TypeLeft(types2, types, d)
  PROVE  ReleaseOK(types2, owed, rest) /\ FieldPlaces(types2) = FieldPlaces(types)
<1>1. /\ CapiTypesOK(types) /\ owed \in [CapiTypes -> Nat]
      /\ \A e \in CapiTypes : types[e].count = OwedTo(types, owed, <<d>> \o rest, e)
  BY DEF ReleaseOK, Balanced
<1>2. types \in [CapiTypes -> CapiTypeRecords] /\ types[d] \in CapiTypeRecords
  BY <1>1 DEF CapiTypesOK
<1>3. PICK a \in CapiTypeRecords : a = types[d]
  BY <1>2
<1>4. ASSUME NEW e \in CapiTypes
      PROVE  /\ Cardinality(CapiOccurrences(<<d>> \o rest, e))
                  = (IF d = e THEN 1 ELSE 0) + Cardinality(CapiOccurrences(rest, e))
             /\ Cardinality(CapiOccurrences(rest, e)) \in Nat /\ Cardinality(FieldsTo(types, e)) \in Nat
             /\ owed[e] \in Nat /\ HeldOne(types[e]) \in Nat
  <2>1. <<d>> \in Seq(CapiTypes)
    OBVIOUS
  <2>2. Cardinality(CapiOccurrences(<<d>> \o rest, e))
          = Cardinality(CapiOccurrences(<<d>>, e)) + Cardinality(CapiOccurrences(rest, e))
    BY <2>1, OccurrencesAfter
  <2>3. Cardinality(CapiOccurrences(<<d>>, e)) = IF d = e THEN 1 ELSE 0
    BY OccurrencesOne
  <2>4. Cardinality(CapiOccurrences(rest, e)) \in Nat /\ Cardinality(FieldsTo(types, e)) \in Nat
    BY <1>1, FieldsCounted, OccurrencesOf
  <2>5. owed[e] \in Nat /\ HeldOne(types[e]) \in Nat
    BY <1>1 DEF HeldOne
  <2> QED
    BY <2>2, <2>3, <2>4, <2>5
<1>5. a.count \in Nat /\ a.count - 1 \in Nat
  <2>1. a.count \in Nat
    BY DEF CapiTypeRecords
  <2>2. a.count = HeldOne(types[d]) + Cardinality(FieldsTo(types, d)) + owed[d]
                    + Cardinality(CapiOccurrences(<<d>> \o rest, d))
    BY <1>1, <1>3 DEF OwedTo
  <2>3. Cardinality(CapiOccurrences(<<d>> \o rest, d)) = 1 + Cardinality(CapiOccurrences(rest, d))
    BY <1>4
  <2>4. a.count >= 1
    BY <1>4, <2>2, <2>3
  <2> QED
    BY <2>1, <2>4
<1>6. PICK b : b = [count |-> a.count - 1, held |-> a.held, final |-> a.final, fields |-> a.fields]
  OBVIOUS
<1>7. b \in CapiTypeRecords /\ b.fields = a.fields /\ b.held = a.held /\ b.count = a.count - 1
  BY <1>5, <1>6 DEF CapiTypeRecords
<1>8. types2[d] = b /\ \A e \in CapiTypes : e # d => types2[e] = types[e]
  <2>1. types2[d] = [a EXCEPT !.count = a.count - 1]
    BY <1>2, <1>3 DEF TypeLeft
  <2>2. [a EXCEPT !.count = a.count - 1] = b
    BY <1>6 DEF CapiTypeRecords
  <2>3. \A e \in CapiTypes : e # d => types2[e] = types[e]
    BY <1>2 DEF TypeLeft
  <2> QED
    BY <2>1, <2>2, <2>3
<1>9. types2 \in [CapiTypes -> CapiTypeRecords]
  <2>1. \A e \in CapiTypes : types2[e] \in CapiTypeRecords
    BY <1>2, <1>7, <1>8
  <2>2. types2 = [e \in CapiTypes |-> types2[e]]
    BY <1>2 DEF TypeLeft
  <2> QED
    BY <2>1, <2>2
<1>10. \A e \in CapiTypes : types2[e].fields = types[e].fields
  BY <1>3, <1>7, <1>8
<1>11. CapiTypesOK(types2)
  BY <1>1, <1>9, <1>10 DEF CapiTypesOK
<1>12. FieldPlaces(types2) = FieldPlaces(types) /\ \A e : FieldsTo(types2, e) = FieldsTo(types, e)
  BY <1>10, FieldsKept
<1>13. ASSUME NEW e \in CapiTypes PROVE types2[e].count = OwedTo(types2, owed, rest, e)
  <2>1. PICK f \in Nat, p \in Nat, w \in Nat, h \in Nat :
          /\ f = Cardinality(FieldsTo(types, e)) /\ p = Cardinality(CapiOccurrences(rest, e))
          /\ w = owed[e] /\ h = HeldOne(types[e])
    BY <1>4
  <2>2. types[e].count = h + f + w + ((IF d = e THEN 1 ELSE 0) + p)
    BY <1>1, <1>4, <2>1 DEF OwedTo
  <2>3. HeldOne(types2[e]) = h
    BY <1>3, <1>7, <1>8, <2>1 DEF HeldOne
  <2>4. OwedTo(types2, owed, rest, e) = h + f + w + p
    BY <1>12, <2>1, <2>3 DEF OwedTo
  <2>5. CASE e = d
    <3>1. types2[e].count = a.count - 1 /\ a.count = h + f + w + (1 + p)
      BY <1>3, <1>7, <1>8, <2>2, <2>5
    <3> QED
      BY <2>4, <3>1
  <2>6. CASE e # d
    <3>1. types2[e].count = h + f + w + (0 + p)
      BY <1>8, <2>2, <2>6
    <3> QED
      BY <2>4, <3>1
  <2> QED
    BY <2>5, <2>6
<1> QED
  BY <1>1, <1>11, <1>12, <1>13 DEF ReleaseOK, Balanced

StateOK(s, owed) == ReleaseOK(s.types, owed, s.refs)
StateMeasure(s) == Len(s.refs) + Cardinality(FieldPlaces(s.types))

LEMMA HeadFirst ==
  ASSUME NEW refs \in Seq(CapiTypes), refs # <<>>
  PROVE  /\ Head(refs) \in CapiTypes /\ Tail(refs) \in Seq(CapiTypes) /\ <<Head(refs)>> \o Tail(refs) = refs
         /\ Len(refs) \in Nat /\ Len(Tail(refs)) = Len(refs) - 1 /\ Len(Tail(refs)) \in Nat
<1>1. /\ Head(refs) \in CapiTypes /\ Tail(refs) \in Seq(CapiTypes) /\ Len(Tail(refs)) = Len(refs) - 1
      /\ \A i \in 1..Len(Tail(refs)) : Tail(refs)[i] = refs[i + 1]
  BY HeadTailProperties
<1>2. PICK d \in CapiTypes : d = Head(refs)
  BY <1>1
<1>3. PICK q \in Seq(CapiTypes) : q = Tail(refs)
  BY <1>1
<1>4. PICK n \in Nat : n = Len(q)
  OBVIOUS
<1>5. d = refs[1] /\ Len(refs) = n + 1 /\ \A i \in 1..n : q[i] = refs[i + 1]
  BY <1>1, <1>2, <1>3, <1>4
<1>6. <<d>> \in Seq(CapiTypes) /\ Len(<<d>>) = 1 /\ <<d>>[1] = d
  OBVIOUS
<1>7. PICK w : w = <<d>> \o q
  OBVIOUS
<1>8. /\ w \in Seq(CapiTypes) /\ Len(w) = 1 + n
      /\ \A i \in 1..(1 + n) : w[i] = IF i <= 1 THEN <<d>>[i] ELSE q[i - 1]
  BY <1>4, <1>6, <1>7, ConcatProperties
<1>9. ASSUME NEW i \in 1..Len(w) PROVE w[i] = refs[i]
  <2>1. CASE i = 1
    BY <1>5, <1>6, <1>8, <2>1
  <2>2. CASE i # 1
    <3>1. ~(i <= 1) /\ i - 1 \in 1..n /\ (i - 1) + 1 = i
      BY <1>8, <2>2
    <3>2. w[i] = q[i - 1]
      BY <1>8, <3>1
    <3> QED
      BY <1>5, <3>1, <3>2
  <2> QED
    BY <2>1, <2>2
<1>10. Len(w) = Len(refs)
  BY <1>5, <1>8
<1>11. w = refs
  BY <1>8, <1>9, <1>10, SeqEqual
<1> QED
  BY <1>1, <1>2, <1>3, <1>4, <1>7, <1>11

LEMMA ReleaseSteps ==
  ASSUME NEW s, NEW owed, StateOK(s, owed)
  PROVE  /\ StateOK(ReleaseFirst(s), owed) /\ StateMeasure(s) \in Nat
         /\ s.refs # <<>> => StateMeasure(ReleaseFirst(s)) + 1 = StateMeasure(s)
<1>1. PICK types, refs : types = s.types /\ refs = s.refs
  OBVIOUS
<1>2. ReleaseOK(types, owed, refs)
  BY <1>1 DEF StateOK
<1>3. CapiTypesOK(types) /\ refs \in Seq(CapiTypes)
  BY <1>2 DEF ReleaseOK
<1>4. PICK m \in Nat : m = Cardinality(FieldPlaces(types))
  BY <1>3, FieldsCounted
<1>5. StateMeasure(s) = Len(refs) + m /\ Len(refs) \in Nat
  BY <1>1, <1>3, <1>4 DEF StateMeasure
<1>6. CASE refs = <<>>
  <2>1. ReleaseFirst(s) = s
    BY <1>1, <1>6 DEF ReleaseFirst
  <2> QED
    BY <1>1, <1>5, <1>6, <2>1
<1>7. CASE refs # <<>>
  <2>1. PICK d \in CapiTypes, rest \in Seq(CapiTypes) :
          /\ d = Head(refs) /\ rest = Tail(refs) /\ <<d>> \o rest = refs
          /\ Len(rest) = Len(refs) - 1 /\ Len(rest) \in Nat
    BY <1>3, <1>7, HeadFirst
  <2>2. ReleaseOK(types, owed, <<d>> \o rest)
    BY <1>2, <2>1
  <2>3. CASE types[d].count = 1
    <3>1. PICK types2 : TypeFreed(types2, types, d)
      BY DEF TypeFreed
    <3>2. PICK r : r = types[d].fields
      OBVIOUS
    <3>3. d \in CapiTypes /\ types[d].count = 1
      BY <2>3
    <3>4. ReleaseFirst(s) = [types |-> types2, refs |-> rest \o r]
      BY <1>1, <1>7, <2>1, <2>3, <3>1, <3>2 DEF ReleaseFirst, TypeFreed
    <3>5. /\ ReleaseOK(types2, owed, rest \o types[d].fields)
          /\ Cardinality(FieldPlaces(types2)) + Len(types[d].fields) = Cardinality(FieldPlaces(types))
      BY <2>2, <3>1, <3>3, FreedLast
    <3>6. r \in Seq(CapiTypes)
      BY <1>3, <3>2 DEF CapiTypesOK, CapiTypeRecords
    <3>7. CapiTypesOK(types2)
      BY <3>5 DEF ReleaseOK
    <3>8. Cardinality(FieldPlaces(types2)) \in Nat
      BY <3>7, FieldsCounted
    <3>9. Len(rest \o r) = Len(rest) + Len(r) /\ Len(r) \in Nat
      BY <3>6, ConcatProperties
    <3>10. StateMeasure(ReleaseFirst(s)) = Len(rest \o r) + Cardinality(FieldPlaces(types2))
      BY <3>4 DEF StateMeasure
    <3>11. Cardinality(FieldPlaces(types2)) + Len(r) = m
      BY <1>4, <3>2, <3>5
    <3>12. StateMeasure(ReleaseFirst(s)) + 1 = StateMeasure(s)
      <4>1. PICK f \in Nat, l \in Nat, k \in Nat :
              f = Cardinality(FieldPlaces(types2)) /\ l = Len(r) /\ k = Len(rest)
        BY <2>1, <3>8, <3>9
      <4>2. StateMeasure(ReleaseFirst(s)) = (k + l) + f /\ f + l = m
        BY <3>9, <3>10, <3>11, <4>1
      <4>3. StateMeasure(s) = Len(refs) + m /\ k = Len(refs) - 1 /\ Len(refs) \in Nat
        BY <1>5, <2>1, <4>1
      <4>4. StateMeasure(s) = (k + 1) + m
        BY <4>3
      <4> QED
        BY <4>2, <4>4
    <3>13. StateOK(ReleaseFirst(s), owed)
      BY <3>2, <3>4, <3>5 DEF StateOK
    <3> QED
      BY <1>5, <3>12, <3>13
  <2>4. CASE types[d].count # 1
    <3>1. PICK types2 : TypeLeft(types2, types, d)
      BY DEF TypeLeft
    <3>2. d \in CapiTypes /\ types[d].count # 1
      BY <2>4
    <3>3. ReleaseFirst(s) = [types |-> types2, refs |-> rest]
      BY <1>1, <1>7, <2>1, <2>4, <3>1 DEF ReleaseFirst, TypeLeft
    <3>4. ReleaseOK(types2, owed, rest) /\ FieldPlaces(types2) = FieldPlaces(types)
      BY <2>2, <3>1, <3>2, FreedOne
    <3>5. StateMeasure(ReleaseFirst(s)) = Len(rest) + m
      BY <1>4, <3>3, <3>4 DEF StateMeasure
    <3>6. StateMeasure(ReleaseFirst(s)) + 1 = StateMeasure(s)
      BY <1>5, <2>1, <3>5
    <3>7. StateOK(ReleaseFirst(s), owed)
      BY <3>3, <3>4 DEF StateOK
    <3> QED
      BY <1>5, <3>6, <3>7
  <2> QED
    BY <2>3, <2>4
<1> QED
  BY <1>6, <1>7

(* The states of a release, one after the other. *)
IsAfter(f, s, n) == f = [i \in 0..n |-> IF i = 0 THEN s ELSE ReleaseFirst(f[i - 1])]

LEMMA AfterSteps ==
  ASSUME NEW s, NEW n \in Nat, NEW f, IsAfter(f, s, n)
  PROVE  f[0] = s /\ \A i \in 0..n : i < n => f[i + 1] = ReleaseFirst(f[i])
<1>1. f = [i \in 0..n |-> IF i = 0 THEN s ELSE ReleaseFirst(f[i - 1])]
  BY DEF IsAfter
<1>2. 0 \in 0..n
  OBVIOUS
<1>3. ASSUME NEW i \in 0..n, i < n PROVE f[i + 1] = ReleaseFirst(f[i])
  <2>1. i + 1 \in 0..n /\ i + 1 # 0 /\ (i + 1) - 1 = i
    BY <1>3
  <2>2. f[i + 1] = ReleaseFirst(f[(i + 1) - 1])
    BY <1>1, <2>1
  <2> QED
    BY <2>1, <2>2
<1> QED
  BY <1>1, <1>2, <1>3

LEMMA AfterExists ==
  ASSUME NEW s, NEW n \in Nat
  PROVE  \E f : IsAfter(f, s, n)
<1> DEFINE G == {m \in Nat : \E f : IsAfter(f, s, m)}
<1>1. 0 \in G
  <2>1. [i \in 0..0 |-> s] = [i \in 0..0 |-> IF i = 0 THEN s ELSE ReleaseFirst([j \in 0..0 |-> s][i - 1])]
    OBVIOUS
  <2> QED
    BY <2>1 DEF IsAfter
<1>2. ASSUME NEW m \in 0..n, m < n, m \in G PROVE m + 1 \in G
  <2>1. PICK f : IsAfter(f, s, m)
    BY <1>2
  <2>2. m \in Nat /\ m + 1 \in Nat
    OBVIOUS
  <2>3. f[0] = s /\ \A i \in 0..m : i < m => f[i + 1] = ReleaseFirst(f[i])
    BY <2>1, <2>2, AfterSteps
  <2> DEFINE g == [i \in 0..(m + 1) |-> IF i = m + 1 THEN ReleaseFirst(f[m]) ELSE f[i]]
  <2>4. ASSUME NEW i \in 0..(m + 1)
        PROVE  g[i] = IF i = 0 THEN s ELSE ReleaseFirst(g[i - 1])
    <3>1. CASE i = 0
      BY <2>2, <2>3, <3>1
    <3>2. CASE i = m + 1
      <4>1. i - 1 = m /\ m \in 0..(m + 1) /\ m # m + 1 /\ i # 0
        BY <2>2, <3>2
      <4>2. g[m] = f[m] /\ g[i] = ReleaseFirst(f[m])
        BY <3>2, <4>1
      <4> QED
        BY <3>2, <4>1, <4>2
    <3>3. CASE i # 0 /\ i # m + 1
      <4>1. i - 1 \in 0..m /\ i - 1 < m /\ (i - 1) + 1 = i /\ i - 1 \in 0..(m + 1) /\ i - 1 # m + 1
        BY <2>2, <3>3
      <4>2. g[i] = f[i] /\ g[i - 1] = f[i - 1]
        BY <3>3, <4>1
      <4>3. f[i] = ReleaseFirst(f[i - 1])
        BY <2>3, <4>1
      <4> QED
        BY <3>3, <4>2, <4>3
    <3> QED
      BY <3>1, <3>2, <3>3
  <2>5. g = [i \in 0..(m + 1) |-> g[i]]
    OBVIOUS
  <2> HIDE DEF g
  <2>6. g = [i \in 0..(m + 1) |-> IF i = 0 THEN s ELSE ReleaseFirst(g[i - 1])]
    BY <2>4, <2>5
  <2>7. IsAfter(g, s, m + 1)
    BY <2>6 DEF IsAfter
  <2> QED
    BY <2>2, <2>7
<1>3. n \in G
  <2> HIDE DEF G
  <2> QED
    BY <1>1, <1>2, CountUp
<1> QED
  BY <1>3

(* A release ends: with nothing left to release, the counts are exact again. *)
LEMMA ReleaseExact ==
  ASSUME NEW types, NEW owed, NEW refs, ReleaseOK(types, owed, refs)
  PROVE  ReleaseOK(TypeRelease(types, refs), owed, <<>>)
<1>1. PICK s : s = [types |-> types, refs |-> refs]
  OBVIOUS
<1>2. StateOK(s, owed)
  BY <1>1 DEF StateOK
<1>3. PICK n \in Nat : n = StateMeasure(s)
  BY <1>2, ReleaseSteps
<1> DEFINE f == CHOOSE g : IsAfter(g, s, n)
<1>4. IsAfter(f, s, n)
  BY AfterExists
<1>5. TypeRelease(types, refs) = f[n].types
  <2>1. n = Len(refs) + Cardinality({x \in CapiFieldPlaces : x[2] \in DOMAIN types[x[1]].fields})
    <3>1. FieldPlaces(types) = {x \in CapiFieldPlaces : x[2] \in DOMAIN types[x[1]].fields}
      BY DEF FieldPlaces, PlacesIn, FieldDomains, CapiFieldPlaces
    <3> QED
      BY <1>1, <1>3, <3>1 DEF StateMeasure
  <2> QED
    BY <1>1, <2>1 DEF TypeRelease, IsAfter
<1> HIDE DEF f
<1>6. f[0] = s /\ \A i \in 0..n : i < n => f[i + 1] = ReleaseFirst(f[i])
  BY <1>4, AfterSteps
<1> DEFINE G == {m \in 0..n : StateOK(f[m], owed) /\ (f[m].refs # <<>> => StateMeasure(f[m]) + m = n)}
<1>7. 0 \in G
  BY <1>2, <1>3, <1>6
<1>8. ASSUME NEW m \in 0..n, m < n, m \in G PROVE m + 1 \in G
  <2>1. PICK a : a = f[m]
    OBVIOUS
  <2>2. PICK b : b = f[m + 1]
    OBVIOUS
  <2>3. b = ReleaseFirst(a)
    BY <1>6, <1>8, <2>1, <2>2
  <2>4. StateOK(a, owed) /\ (a.refs # <<>> => StateMeasure(a) + m = n)
    BY <1>8, <2>1
  <2>5. StateOK(b, owed) /\ (a.refs # <<>> => StateMeasure(b) + 1 = StateMeasure(a))
    BY <2>3, <2>4, ReleaseSteps
  <2>6. ASSUME b.refs # <<>> PROVE StateMeasure(b) + (m + 1) = n
    <3>1. a.refs # <<>>
      BY <2>3, <2>6 DEF ReleaseFirst
    <3>2. StateMeasure(b) \in Nat /\ StateMeasure(a) \in Nat
      BY <2>4, <2>5, ReleaseSteps
    <3> QED
      BY <2>4, <2>5, <3>1, <3>2
  <2>7. m + 1 \in 0..n
    BY <1>8
  <2> QED
    BY <2>2, <2>5, <2>6, <2>7
<1>9. n \in G
  <2> HIDE DEF G
  <2> QED
    BY <1>7, <1>8, CountUp
<1>10. PICK z : z = f[n]
  OBVIOUS
<1>11. StateOK(z, owed) /\ (z.refs # <<>> => StateMeasure(z) + n = n)
  BY <1>9, <1>10
<1>12. z.refs = <<>>
  <2> SUFFICES ASSUME z.refs # <<>> PROVE FALSE
    OBVIOUS
  <2>1. StateMeasure(z) \in Nat
    BY <1>11, ReleaseSteps
  <2>2. StateMeasure(z) = 0
    BY <1>11, <2>1
  <2>3. z.refs \in Seq(CapiTypes) /\ CapiTypesOK(z.types)
    BY <1>11 DEF StateOK, ReleaseOK
  <2>4. Len(z.refs) \in Nat /\ Len(Tail(z.refs)) = Len(z.refs) - 1 /\ Len(Tail(z.refs)) \in Nat
    BY <2>3, HeadFirst
  <2>5. Cardinality(FieldPlaces(z.types)) \in Nat
    BY <2>3, FieldsCounted
  <2> QED
    BY <2>2, <2>4, <2>5 DEF StateMeasure
<1> QED
  BY <1>5, <1>10, <1>11, <1>12 DEF StateOK

-----------------------------------------------------------------------------
(* The C interface bridge: calls, argument lists and what they owe *)

CapiListRecords == [live : BOOLEAN, args : Seq(CapiTypes), return : Seq(CapiTypes)]
CapiListsOK(lists) ==
  /\ lists \in [CapiLists -> CapiListRecords]
  /\ \A l \in CapiLists : Len(lists[l].args) <= CapiArgMax /\ Len(lists[l].return) <= 1

ArgOccurrences(lists, d) == [l \in CapiLists |-> CapiOccurrences(lists[l].args, d)]
ArgsTo(lists, d) == PlacesIn(CapiLists, ArgOccurrences(lists, d))
ReturnsTo(lists, d) == {l \in CapiLists : lists[l].return = <<d>>}
OwedBy(lists) == [d \in CapiTypes |-> Cardinality(ArgsTo(lists, d)) + Cardinality(ReturnsTo(lists, d))]

(* The descriptors and their owners agree. *)
CapiExact(types, lists) == CapiListsOK(lists) /\ ReleaseOK(types, OwedBy(lists), <<>>)

LEMMA OwedIs ==
  ASSUME NEW lists, CapiListsOK(lists), NEW d
  PROVE  /\ PlaceTable(CapiLists, ArgOccurrences(lists, d))
         /\ Cardinality(ArgsTo(lists, d)) \in Nat
         /\ IsFiniteSet(ReturnsTo(lists, d)) /\ Cardinality(ReturnsTo(lists, d)) \in Nat
<1>1. ASSUME NEW l \in CapiLists PROVE ArgOccurrences(lists, d)[l] \in SUBSET (1..CapiArgMax)
  <2>1. lists[l] \in CapiListRecords /\ Len(lists[l].args) <= CapiArgMax
    BY DEF CapiListsOK
  <2>2. PICK r \in Seq(CapiTypes) : r = lists[l].args
    BY <2>1 DEF CapiListRecords
  <2>3. Len(r) \in Nat /\ Len(r) <= CapiArgMax /\ DOMAIN r = 1..Len(r) /\ CapiArgMax \in Nat
    BY <2>1, <2>2, CapiAssumption
  <2>4. CapiOccurrences(r, d) \in SUBSET (1..CapiArgMax)
    BY <2>3 DEF CapiOccurrences
  <2> QED
    BY <2>2, <2>4 DEF ArgOccurrences
<1>2. IsFiniteSet(CapiLists)
  BY CapiAssumption
<1>3. ReturnsTo(lists, d) \in SUBSET CapiLists
  BY DEF ReturnsTo
<1>4. IsFiniteSet(ReturnsTo(lists, d))
  BY <1>2, <1>3, FS_Subset
<1>5. Cardinality(ReturnsTo(lists, d)) \in Nat
  BY <1>4, FS_CardinalityType
<1> QED
  BY <1>1, <1>2, <1>4, <1>5, PlacesFinite DEF PlaceTable, ArgsTo

LEMMA OwedNat == ASSUME NEW lists, CapiListsOK(lists) PROVE OwedBy(lists) \in [CapiTypes -> Nat]
<1>1. ASSUME NEW d \in CapiTypes PROVE Cardinality(ArgsTo(lists, d)) + Cardinality(ReturnsTo(lists, d)) \in Nat
  <2>1. Cardinality(ArgsTo(lists, d)) \in Nat /\ Cardinality(ReturnsTo(lists, d)) \in Nat
    BY OwedIs
  <2> QED
    BY <2>1
<1> QED
  BY <1>1 DEF OwedBy

(* lists2 differs from lists in l only. *)
ListSet(lists2, lists, l) ==
  /\ CapiListsOK(lists) /\ CapiListsOK(lists2) /\ l \in CapiLists
  /\ \A k \in CapiLists : k # l => lists2[k] = lists[k]

LEMMA ArgsChange ==
  ASSUME NEW lists, NEW lists2, NEW l, ListSet(lists2, lists, l), NEW e
  PROVE  Cardinality(ArgsTo(lists2, e)) + Cardinality(CapiOccurrences(lists[l].args, e))
           = Cardinality(ArgsTo(lists, e)) + Cardinality(CapiOccurrences(lists2[l].args, e))
<1>1. PICK o : o = ArgOccurrences(lists, e)
  OBVIOUS
<1>2. PICK p : p = ArgOccurrences(lists2, e)
  OBVIOUS
<1>3. PlaceTable(CapiLists, o) /\ PlaceTable(CapiLists, p)
  BY <1>1, <1>2, OwedIs DEF ListSet
<1>4. \A k \in CapiLists \ {l} : o[k] = p[k]
  BY <1>1, <1>2 DEF ListSet, ArgOccurrences
<1>5. o[l] = CapiOccurrences(lists[l].args, e) /\ p[l] = CapiOccurrences(lists2[l].args, e)
  BY <1>1, <1>2 DEF ListSet, ArgOccurrences
<1>6. IsFiniteSet(CapiLists) /\ l \in CapiLists
  BY CapiAssumption DEF ListSet
<1>7. Cardinality(PlacesIn(CapiLists, p)) + Cardinality(o[l])
        = Cardinality(PlacesIn(CapiLists, o)) + Cardinality(p[l])
  BY <1>3, <1>4, <1>6, PlacesChange
<1> QED
  BY <1>1, <1>2, <1>5, <1>7 DEF ArgsTo

(* A return type is one reference or none. *)
LEMMA ReturnOne ==
  ASSUME NEW lists, CapiListsOK(lists), NEW l \in CapiLists, NEW e
  PROVE  Cardinality(ReturnsTo(lists, e))
           = Cardinality(ReturnsTo(lists, e) \ {l}) + Cardinality(CapiOccurrences(lists[l].return, e))
<1>1. lists[l] \in CapiListRecords /\ Len(lists[l].return) <= 1
  BY DEF CapiListsOK
<1>2. PICK r \in Seq(CapiTypes) : r = lists[l].return
  BY <1>1 DEF CapiListRecords
<1>3. Len(r) \in Nat /\ Len(r) <= 1 /\ DOMAIN r = 1..Len(r)
  BY <1>1, <1>2
<1> DEFINE R == ReturnsTo(lists, e)
<1>4. IsFiniteSet(R) /\ Cardinality(R) \in Nat
  BY OwedIs
<1>5. l \in R <=> r = <<e>>
  BY <1>2 DEF ReturnsTo
<1>6. IsFiniteSet(R \ {l}) /\ Cardinality(R \ {l}) = IF l \in R THEN Cardinality(R) - 1 ELSE Cardinality(R)
  BY <1>4, FS_RemoveElement
<1> HIDE DEF R
<1>7. CASE r = <<e>>
  <2>1. Cardinality(CapiOccurrences(r, e)) = 1
    BY <1>7, OccurrencesOne
  <2>2. Cardinality(R) = Cardinality(R \ {l}) + Cardinality(CapiOccurrences(r, e))
    BY <1>4, <1>5, <1>6, <1>7, <2>1
  <2> QED
    BY <1>2, <2>2 DEF R
<1>8. CASE r # <<e>>
  <2>1. CapiOccurrences(r, e) = {}
    <3>1. ASSUME NEW i \in DOMAIN r, r[i] = e PROVE FALSE
      <4>1. Len(r) = 1 /\ i = 1 /\ r[1] = e
        BY <1>3, <3>1
      <4>2. <<e>> \in Seq({e}) /\ Len(<<e>>) = 1 /\ <<e>>[1] = e
        OBVIOUS
      <4>3. \A j \in 1..Len(r) : r[j] = <<e>>[j]
        BY <4>1, <4>2
      <4>4. e \in CapiTypes
        BY <1>3, <4>1
      <4>5. <<e>> \in Seq(CapiTypes)
        BY <4>4
      <4>6. r = <<e>>
        BY <4>1, <4>2, <4>3, <4>5, SeqEqual
      <4> QED
        BY <1>8, <4>6
    <3> QED
      BY <3>1 DEF CapiOccurrences
  <2>2. Cardinality(CapiOccurrences(r, e)) = 0
    BY <2>1, FS_EmptySet
  <2>3. Cardinality(R) = Cardinality(R \ {l}) + Cardinality(CapiOccurrences(r, e))
    BY <1>4, <1>5, <1>6, <1>8, <2>2
  <2> QED
    BY <1>2, <2>3 DEF R
<1> QED
  BY <1>7, <1>8

LEMMA ReturnsChange ==
  ASSUME NEW lists, NEW lists2, NEW l, ListSet(lists2, lists, l), NEW e
  PROVE  Cardinality(ReturnsTo(lists2, e)) + Cardinality(CapiOccurrences(lists[l].return, e))
           = Cardinality(ReturnsTo(lists, e)) + Cardinality(CapiOccurrences(lists2[l].return, e))
<1>1. CapiListsOK(lists) /\ CapiListsOK(lists2) /\ l \in CapiLists
  BY DEF ListSet
<1>2. ReturnsTo(lists, e) \ {l} = ReturnsTo(lists2, e) \ {l}
  BY DEF ListSet, ReturnsTo
<1>3. PICK n \in Nat : n = Cardinality(ReturnsTo(lists, e) \ {l})
  <2>1. IsFiniteSet(ReturnsTo(lists, e))
    BY <1>1, OwedIs
  <2>2. IsFiniteSet(ReturnsTo(lists, e) \ {l})
    BY <2>1, FS_Subset
  <2> QED
    BY <2>2, FS_CardinalityType
<1>4. lists[l].return \in Seq(CapiTypes) /\ lists2[l].return \in Seq(CapiTypes)
  BY <1>1 DEF CapiListsOK, CapiListRecords
<1>5. PICK o \in Nat, p \in Nat :
        /\ o = Cardinality(CapiOccurrences(lists[l].return, e))
        /\ p = Cardinality(CapiOccurrences(lists2[l].return, e))
  BY <1>4, OccurrencesOf
<1>6. Cardinality(ReturnsTo(lists, e)) = n + o
  BY <1>1, <1>3, <1>5, ReturnOne
<1>7. Cardinality(ReturnsTo(lists2, e)) = n + p
  BY <1>1, <1>2, <1>3, <1>5, ReturnOne
<1>8. (n + p) + o = (n + o) + p
  OBVIOUS
<1> QED
  BY <1>5, <1>6, <1>7, <1>8

(* What a list owes: so much more of the new arguments and return type, so much less of the old. *)
ListOwes(list, d) == Cardinality(CapiOccurrences(list.args, d)) + Cardinality(CapiOccurrences(list.return, d))

LEMMA OwedChange ==
  ASSUME NEW lists, NEW lists2, NEW l, ListSet(lists2, lists, l), NEW e \in CapiTypes
  PROVE  /\ OwedBy(lists2)[e] + ListOwes(lists[l], e) = OwedBy(lists)[e] + ListOwes(lists2[l], e)
         /\ ListOwes(lists[l], e) \in Nat /\ ListOwes(lists2[l], e) \in Nat
<1>1. CapiListsOK(lists) /\ CapiListsOK(lists2) /\ l \in CapiLists
  BY DEF ListSet
<1>2. PICK a \in Nat, a2 \in Nat, r \in Nat, r2 \in Nat :
        /\ a = Cardinality(ArgsTo(lists, e)) /\ a2 = Cardinality(ArgsTo(lists2, e))
        /\ r = Cardinality(ReturnsTo(lists, e)) /\ r2 = Cardinality(ReturnsTo(lists2, e))
  BY <1>1, OwedIs
<1>3. lists[l] \in CapiListRecords /\ lists2[l] \in CapiListRecords
  BY <1>1 DEF CapiListsOK
<1>4. /\ lists[l].args \in Seq(CapiTypes) /\ lists2[l].args \in Seq(CapiTypes)
      /\ lists[l].return \in Seq(CapiTypes) /\ lists2[l].return \in Seq(CapiTypes)
  BY <1>3 DEF CapiListRecords
<1>5. PICK o \in Nat, o2 \in Nat, p \in Nat, p2 \in Nat :
        /\ o = Cardinality(CapiOccurrences(lists[l].args, e))
        /\ o2 = Cardinality(CapiOccurrences(lists2[l].args, e))
        /\ p = Cardinality(CapiOccurrences(lists[l].return, e))
        /\ p2 = Cardinality(CapiOccurrences(lists2[l].return, e))
  BY <1>4, OccurrencesOf
<1>6. a2 + o = a + o2
  BY <1>2, <1>5, ArgsChange
<1>7. r2 + p = r + p2
  BY <1>2, <1>5, ReturnsChange
<1>8. OwedBy(lists2)[e] = a2 + r2 /\ OwedBy(lists)[e] = a + r
  BY <1>2 DEF OwedBy
<1>9. ListOwes(lists[l], e) = o + p /\ ListOwes(lists2[l], e) = o2 + p2
  BY <1>5 DEF ListOwes
<1>10. (a2 + r2) + (o + p) = (a + r) + (o2 + p2)
  BY <1>6, <1>7
<1> QED
  BY <1>8, <1>9, <1>10

-----------------------------------------------------------------------------
(* The C interface bridge: the actions *)

LEMMA RetainCounts ==
  ASSUME NEW types, CapiTypesOK(types), NEW r \in Seq(CapiTypes), NEW types2, types2 = TypeRetain(types, r)
  PROVE  /\ CapiTypesOK(types2)
         /\ \A d \in CapiTypes : /\ types2[d].count = types[d].count + Cardinality(CapiOccurrences(r, d))
                                 /\ types2[d].held = types[d].held /\ types2[d].fields = types[d].fields
<1>1. types \in [CapiTypes -> CapiTypeRecords] /\ \A d \in CapiTypes : Len(types[d].fields) <= CapiArgMax
  BY DEF CapiTypesOK
<1>2. ASSUME NEW d \in CapiTypes
      PROVE  /\ types2[d] \in CapiTypeRecords
             /\ types2[d].count = types[d].count + Cardinality(CapiOccurrences(r, d))
             /\ types2[d].held = types[d].held /\ types2[d].fields = types[d].fields
  <2>1. PICK a \in CapiTypeRecords : a = types[d]
    BY <1>1
  <2>2. PICK n \in Nat : n = Cardinality(CapiOccurrences(r, d))
    BY OccurrencesOf
  <2>3. types2[d] = [a EXCEPT !.count = a.count + n]
    BY <2>1, <2>2 DEF TypeRetain
  <2>4. a.count + n \in Nat
    BY DEF CapiTypeRecords
  <2>5. [a EXCEPT !.count = a.count + n]
          = [count |-> a.count + n, held |-> a.held, final |-> a.final, fields |-> a.fields]
    BY DEF CapiTypeRecords
  <2>6. [count |-> a.count + n, held |-> a.held, final |-> a.final, fields |-> a.fields] \in CapiTypeRecords
    BY <2>4 DEF CapiTypeRecords
  <2> QED
    BY <2>1, <2>2, <2>3, <2>5, <2>6
<1>3. types2 \in [CapiTypes -> CapiTypeRecords]
  <2>1. types2 = [d \in CapiTypes |-> types2[d]]
    BY DEF TypeRetain
  <2> QED
    BY <1>2, <2>1
<1>4. \A d \in CapiTypes : Len(types2[d].fields) <= CapiArgMax
  BY <1>1, <1>2
<1> QED
  BY <1>2, <1>3, <1>4 DEF CapiTypesOK

(* A reference given up by its owner is one to release. *)
LEMMA GivenUp ==
  ASSUME NEW types, NEW owed, NEW refs, ReleaseOK(types, owed, refs), NEW owed2 \in [CapiTypes -> Nat],
         NEW refs2 \in Seq(CapiTypes),
         \A d \in CapiTypes : owed2[d] + Cardinality(CapiOccurrences(refs2, d))
                                = owed[d] + Cardinality(CapiOccurrences(refs, d))
  PROVE  ReleaseOK(types, owed2, refs2)
<1>1. /\ CapiTypesOK(types) /\ owed \in [CapiTypes -> Nat] /\ refs \in Seq(CapiTypes)
      /\ \A d \in CapiTypes : types[d].count = OwedTo(types, owed, refs, d)
  BY DEF ReleaseOK, Balanced
<1>2. ASSUME NEW d \in CapiTypes PROVE types[d].count = OwedTo(types, owed2, refs2, d)
  <2>1. PICK h \in Nat, f \in Nat, w \in Nat, w2 \in Nat, o \in Nat, o2 \in Nat :
          /\ h = HeldOne(types[d]) /\ f = Cardinality(FieldsTo(types, d)) /\ w = owed[d] /\ w2 = owed2[d]
          /\ o = Cardinality(CapiOccurrences(refs, d)) /\ o2 = Cardinality(CapiOccurrences(refs2, d))
    <3>1. HeldOne(types[d]) \in Nat /\ owed[d] \in Nat /\ owed2[d] \in Nat
      BY <1>1 DEF HeldOne
    <3>2. Cardinality(FieldsTo(types, d)) \in Nat
      BY <1>1, FieldsCounted
    <3>3. Cardinality(CapiOccurrences(refs, d)) \in Nat /\ Cardinality(CapiOccurrences(refs2, d)) \in Nat
      BY <1>1, OccurrencesOf
    <3> QED
      BY <3>1, <3>2, <3>3
  <2>2. types[d].count = h + f + w + o /\ w2 + o2 = w + o
    BY <1>1, <2>1 DEF OwedTo
  <2>3. OwedTo(types, owed2, refs2, d) = h + f + w2 + o2
    BY <2>1 DEF OwedTo
  <2>4. w2 + o2 = w + o
    BY <2>2
  <2>5. h + f + w2 + o2 = h + f + w + o
    BY <2>4
  <2> QED
    BY <2>2, <2>3, <2>5
<1> QED
  BY <1>1, <1>2 DEF ReleaseOK, Balanced

(* A list that gives up the references r. *)
LEMMA ListDrops ==
  ASSUME NEW types, NEW lists, CapiExact(types, lists), NEW lists2, NEW l, ListSet(lists2, lists, l),
         NEW r \in Seq(CapiTypes),
         \A d \in CapiTypes : ListOwes(lists[l], d) = ListOwes(lists2[l], d) + Cardinality(CapiOccurrences(r, d))
  PROVE  CapiExact(TypeRelease(types, r), lists2)
<1>1. CapiListsOK(lists2) /\ CapiListsOK(lists) /\ ReleaseOK(types, OwedBy(lists), <<>>)
  BY DEF CapiExact, ListSet
<1>2. PICK w \in [CapiTypes -> Nat] : w = OwedBy(lists)
  BY <1>1, OwedNat
<1>3. PICK w2 \in [CapiTypes -> Nat] : w2 = OwedBy(lists2)
  BY <1>1, OwedNat
<1>4. ASSUME NEW d \in CapiTypes
      PROVE  w2[d] + Cardinality(CapiOccurrences(r, d)) = w[d] + Cardinality(CapiOccurrences(<<>>, d))
  <2>1. PICK a \in Nat, b \in Nat : a = ListOwes(lists[l], d) /\ b = ListOwes(lists2[l], d)
    BY OwedChange
  <2>2. w2[d] + a = w[d] + b
    BY <1>2, <1>3, <2>1, OwedChange
  <2>3. PICK o \in Nat : o = Cardinality(CapiOccurrences(r, d))
    BY OccurrencesOf
  <2>4. a = b + o
    BY <2>1, <2>3
  <2>5. w2[d] \in Nat /\ w[d] \in Nat
    BY <1>2, <1>3
  <2>6. w2[d] + o = w[d]
    <3>1. PICK x \in Nat, y \in Nat : x = w2[d] /\ y = w[d]
      BY <2>5
    <3>2. x + a = y + b
      BY <2>2, <3>1
    <3>3. x + o = y
      BY <2>4, <3>2
    <3> QED
      BY <3>1, <3>3
  <2>7. Cardinality(CapiOccurrences(<<>>, d)) = 0
    BY OccurrencesNone
  <2> QED
    BY <2>3, <2>5, <2>6, <2>7
<1>5. ReleaseOK(types, w, <<>>)
  BY <1>1, <1>2
<1>6. ReleaseOK(types, w2, r)
  BY <1>4, <1>5, GivenUp
<1>7. ReleaseOK(TypeRelease(types, r), w2, <<>>)
  BY <1>6, ReleaseExact
<1> QED
  BY <1>1, <1>3, <1>7 DEF CapiExact

(* A list that takes the references r. *)
LEMMA ListTakes ==
  ASSUME NEW types, NEW lists, CapiExact(types, lists), NEW lists2, NEW l, ListSet(lists2, lists, l),
         NEW r \in Seq(CapiTypes),
         \A d \in CapiTypes : ListOwes(lists2[l], d) = ListOwes(lists[l], d) + Cardinality(CapiOccurrences(r, d))
  PROVE  CapiExact(TypeRetain(types, r), lists2)
<1>1. CapiListsOK(lists2) /\ CapiListsOK(lists) /\ ReleaseOK(types, OwedBy(lists), <<>>)
  BY DEF CapiExact, ListSet
<1>2. PICK w \in [CapiTypes -> Nat] : w = OwedBy(lists)
  BY <1>1, OwedNat
<1>3. PICK w2 \in [CapiTypes -> Nat] : w2 = OwedBy(lists2)
  BY <1>1, OwedNat
<1>4. PICK types2 : types2 = TypeRetain(types, r)
  OBVIOUS
<1>5. CapiTypesOK(types) /\ \A d \in CapiTypes : types[d].count = OwedTo(types, w, <<>>, d)
  BY <1>1, <1>2 DEF ReleaseOK, Balanced
<1>6. /\ CapiTypesOK(types2)
      /\ \A d \in CapiTypes : /\ types2[d].count = types[d].count + Cardinality(CapiOccurrences(r, d))
                              /\ types2[d].held = types[d].held /\ types2[d].fields = types[d].fields
  BY <1>4, <1>5, RetainCounts
<1>7. \A d : FieldsTo(types2, d) = FieldsTo(types, d)
  BY <1>6, FieldsKept
<1>8. ASSUME NEW d \in CapiTypes PROVE types2[d].count = OwedTo(types2, w2, <<>>, d)
  <2>1. PICK a \in Nat, b \in Nat : a = ListOwes(lists[l], d) /\ b = ListOwes(lists2[l], d)
    BY OwedChange
  <2>2. w2[d] + a = w[d] + b
    BY <1>2, <1>3, <2>1, OwedChange
  <2>3. PICK o \in Nat : o = Cardinality(CapiOccurrences(r, d))
    BY OccurrencesOf
  <2>4. b = a + o
    BY <2>1, <2>3
  <2>5. w2[d] \in Nat /\ w[d] \in Nat
    BY <1>2, <1>3
  <2>6. w2[d] = w[d] + o
    <3>1. PICK x \in Nat, y \in Nat : x = w2[d] /\ y = w[d]
      BY <2>5
    <3>2. x + a = y + b
      BY <2>2, <3>1
    <3>3. x = y + o
      BY <2>4, <3>2
    <3> QED
      BY <3>1, <3>3
  <2>7. Cardinality(CapiOccurrences(<<>>, d)) = 0
    BY OccurrencesNone
  <2>8. PICK h \in Nat, f \in Nat : h = HeldOne(types[d]) /\ f = Cardinality(FieldsTo(types, d))
    <3>1. HeldOne(types[d]) \in Nat
      BY DEF HeldOne
    <3>2. Cardinality(FieldsTo(types, d)) \in Nat
      BY <1>5, FieldsCounted
    <3> QED
      BY <3>1, <3>2
  <2>9. types[d].count = h + f + w[d] + 0
    BY <1>5, <2>7, <2>8 DEF OwedTo
  <2>10. HeldOne(types2[d]) = h
    BY <1>6, <2>8 DEF HeldOne
  <2>11. OwedTo(types2, w2, <<>>, d) = h + f + w2[d] + 0
    BY <1>7, <2>7, <2>8, <2>10 DEF OwedTo
  <2>12. types2[d].count = (h + f + w[d] + 0) + o
    BY <1>6, <2>3, <2>9
  <2> QED
    BY <2>5, <2>6, <2>11, <2>12
<1>9. <<>> \in Seq(CapiTypes)
  OBVIOUS
<1>10. ReleaseOK(types2, w2, <<>>)
  BY <1>6, <1>8, <1>9 DEF ReleaseOK, Balanced
<1> QED
  BY <1>1, <1>3, <1>4, <1>10 DEF CapiExact

(* A descriptor whose own fields and count change. *)
TypeSet(types2, types, d, type) ==
  d \in CapiTypes /\ type \in CapiTypeRecords /\ Len(type.fields) <= CapiArgMax
    /\ types2 = [types EXCEPT ![d] = type]

LEMMA TypeSetOK ==
  ASSUME NEW types, CapiTypesOK(types), NEW types2, NEW d, NEW type, TypeSet(types2, types, d, type)
  PROVE  /\ CapiTypesOK(types2) /\ FieldsSet(types2, types, d) /\ types2[d] = type /\ d \in CapiTypes
         /\ \A e \in CapiTypes : e # d => types2[e] = types[e]
<1>1. types \in [CapiTypes -> CapiTypeRecords] /\ \A e \in CapiTypes : Len(types[e].fields) <= CapiArgMax
  BY DEF CapiTypesOK
<1>2. types2 \in [CapiTypes -> CapiTypeRecords]
  BY <1>1 DEF TypeSet
<1>3. types2[d] = type /\ d \in CapiTypes /\ \A e \in CapiTypes : e # d => types2[e] = types[e]
  BY <1>1 DEF TypeSet
<1>4. \A e \in CapiTypes : Len(types2[e].fields) <= CapiArgMax
  BY <1>1, <1>3 DEF TypeSet
<1>5. CapiTypesOK(types2)
  BY <1>2, <1>4 DEF CapiTypesOK
<1> QED
  BY <1>3, <1>5 DEF FieldsSet

(* A descriptor changes hands: what its holder gives up is one to release. *)
TypeTurned(types, owed, types2, d, type, refs, n) ==
  /\ ReleaseOK(types, owed, <<>>) /\ TypeSet(types2, types, d, type) /\ type.fields = types[d].fields
  /\ refs \in Seq(CapiTypes) /\ n \in Nat
  /\ \A e \in CapiTypes : Cardinality(CapiOccurrences(refs, e)) = IF e = d THEN n ELSE 0
  /\ type.count + HeldOne(types[d]) = types[d].count + HeldOne(type) + n

LEMMA TypeHandled ==
  ASSUME NEW types, NEW owed, NEW types2, NEW d, NEW type, NEW refs, NEW n,
         TypeTurned(types, owed, types2, d, type, refs, n)
  PROVE  ReleaseOK(types2, owed, refs)
<1>0. /\ ReleaseOK(types, owed, <<>>) /\ TypeSet(types2, types, d, type) /\ type.fields = types[d].fields
      /\ refs \in Seq(CapiTypes) /\ n \in Nat
      /\ \A e \in CapiTypes : Cardinality(CapiOccurrences(refs, e)) = IF e = d THEN n ELSE 0
      /\ type.count + HeldOne(types[d]) = types[d].count + HeldOne(type) + n
  BY DEF TypeTurned
<1>1. /\ CapiTypesOK(types) /\ owed \in [CapiTypes -> Nat]
      /\ \A e \in CapiTypes : types[e].count = OwedTo(types, owed, <<>>, e)
  BY <1>0 DEF ReleaseOK, Balanced
<1>2. /\ CapiTypesOK(types2) /\ types2[d] = type /\ d \in CapiTypes
      /\ \A e \in CapiTypes : e # d => types2[e] = types[e]
  BY <1>0, <1>1, TypeSetOK
<1>3. \A t \in CapiTypes : types2[t].fields = types[t].fields
  BY <1>0, <1>2
<1>4. \A e : FieldsTo(types2, e) = FieldsTo(types, e)
  BY <1>3, FieldsKept
<1>5. ASSUME NEW e \in CapiTypes PROVE types2[e].count = OwedTo(types2, owed, refs, e)
  <2>1. PICK h \in Nat, h2 \in Nat, f \in Nat, w \in Nat :
          /\ h = HeldOne(types[e]) /\ h2 = HeldOne(types2[e])
          /\ f = Cardinality(FieldsTo(types, e)) /\ w = owed[e]
    <3>1. HeldOne(types[e]) \in Nat /\ HeldOne(types2[e]) \in Nat /\ owed[e] \in Nat
      BY <1>1 DEF HeldOne
    <3>2. Cardinality(FieldsTo(types, e)) \in Nat
      BY <1>1, FieldsCounted
    <3> QED
      BY <3>1, <3>2
  <2>2. Cardinality(CapiOccurrences(<<>>, e)) = 0
    BY OccurrencesNone
  <2>3. types[e].count = h + f + w + 0
    BY <1>1, <2>1, <2>2 DEF OwedTo
  <2>4. PICK o \in Nat : o = Cardinality(CapiOccurrences(refs, e))
    BY <1>0, OccurrencesOf
  <2>5. OwedTo(types2, owed, refs, e) = h2 + f + w + o
    BY <1>4, <2>1, <2>4 DEF OwedTo
  <2>6. CASE e = d
    <3>1. type \in CapiTypeRecords /\ type.count \in Nat /\ o = n
      BY <1>0, <2>4, <2>6 DEF TypeSet, CapiTypeRecords
    <3>2. type.count + h = (h + f + w + 0) + h2 + n
      BY <1>0, <1>2, <2>1, <2>3, <2>6
    <3>3. PICK c \in Nat : c = type.count
      BY <3>1
    <3>4. c + h = (h + f + w + 0) + h2 + n
      BY <3>2, <3>3
    <3>5. c = h2 + f + w + n
      <4>1. n \in Nat
        BY <1>0
      <4> QED
        BY <3>4, <4>1
    <3> QED
      BY <1>2, <2>5, <2>6, <3>1, <3>3, <3>5
  <2>7. CASE e # d
    <3>1. types2[e] = types[e] /\ o = 0 /\ h2 = h
      BY <1>0, <1>2, <2>1, <2>4, <2>7
    <3> QED
      BY <2>3, <2>5, <3>1
  <2> QED
    BY <2>6, <2>7
<1> QED
  BY <1>0, <1>1, <1>2, <1>5 DEF ReleaseOK, Balanced

(* One field of a descriptor is set. *)
LEMMA FieldSetIs ==
  ASSUME NEW a \in CapiTypeRecords, NEW x
  PROVE  /\ [a EXCEPT !.count = x] = [count |-> x, held |-> a.held, final |-> a.final, fields |-> a.fields]
         /\ [a EXCEPT !.held = x] = [count |-> a.count, held |-> x, final |-> a.final, fields |-> a.fields]
         /\ [a EXCEPT !.final = x] = [count |-> a.count, held |-> a.held, final |-> x, fields |-> a.fields]
         /\ [a EXCEPT !.fields = x] = [count |-> a.count, held |-> a.held, final |-> a.final, fields |-> x]
  BY DEF CapiTypeRecords

TypeMade(types2, types, d) == types2 = [types EXCEPT ![d].count = 1, ![d].held = TRUE]
TypeClosed(types2, types, d) == types2 = [types EXCEPT ![d].final = TRUE]
TypeUnheld(types1, types, d) == types1 = [types EXCEPT ![d].held = FALSE]
FieldsPut(types1, types, d, nested) == types1 = [types EXCEPT ![d].fields = @ \o nested]

LEMMA TypeNewExact ==
  ASSUME NEW types, NEW lists, CapiExact(types, lists), NEW d \in CapiTypes, types[d] = NoType,
         NEW types2, TypeMade(types2, types, d)
  PROVE  CapiExact(types2, lists)
<1>1. CapiListsOK(lists) /\ ReleaseOK(types, OwedBy(lists), <<>>) /\ CapiTypesOK(types)
  BY DEF CapiExact, ReleaseOK
<1>2. PICK type : type = [count |-> 1, held |-> TRUE, final |-> FALSE, fields |-> <<>>]
  OBVIOUS
<1>3. types \in [CapiTypes -> CapiTypeRecords]
  BY <1>1 DEF CapiTypesOK
<1>4. TypeSet(types2, types, d, type)
  <2>1. types2 = [types EXCEPT ![d] = type]
    <3>1. types2 = [types EXCEPT ![d] = [[NoType EXCEPT !.count = 1] EXCEPT !.held = TRUE]]
      BY <1>3 DEF TypeMade
    <3>2. PICK b : b = [count |-> 1, held |-> FALSE, final |-> FALSE, fields |-> <<>>]
      OBVIOUS
    <3>3. [NoType EXCEPT !.count = 1] = b
      BY <3>2, FieldSetIs, NoTypeOK DEF NoType
    <3>4. b \in CapiTypeRecords /\ b.count = 1 /\ b.final = FALSE /\ b.fields = <<>>
      <4>1. <<>> \in Seq(CapiTypes) /\ 1 \in Nat
        OBVIOUS
      <4> QED
        BY <3>2, <4>1 DEF CapiTypeRecords
    <3>5. [b EXCEPT !.held = TRUE] = [count |-> b.count, held |-> TRUE, final |-> b.final, fields |-> b.fields]
      BY <3>4, FieldSetIs, Zenon
    <3>6. [b EXCEPT !.held = TRUE] = type
      BY <1>2, <3>4, <3>5, Zenon
    <3> QED
      BY <3>1, <3>3, <3>6, Zenon
  <2>2. <<>> \in Seq(CapiTypes) /\ Len(<<>>) = 0 /\ CapiArgMax \in Nat
    BY CapiAssumption
  <2>3. type \in CapiTypeRecords /\ Len(type.fields) <= CapiArgMax
    BY <1>2, <2>2 DEF CapiTypeRecords
  <2> QED
    BY <2>1, <2>3 DEF TypeSet
<1>5. type.fields = types[d].fields /\ type.count = 1 /\ HeldOne(type) = 1
        /\ types[d].count = 0 /\ HeldOne(types[d]) = 0
  BY <1>2, NoTypeOK DEF HeldOne
<1>6. type.count + HeldOne(types[d]) = types[d].count + HeldOne(type) + 0
  BY <1>5
<1>7. \A e \in CapiTypes : Cardinality(CapiOccurrences(<<>>, e)) = IF e = d THEN 0 ELSE 0
  BY OccurrencesNone
<1>8. <<>> \in Seq(CapiTypes) /\ 0 \in Nat
  OBVIOUS
<1>9. ReleaseOK(types2, OwedBy(lists), <<>>)
  <2>1. TypeTurned(types, OwedBy(lists), types2, d, type, <<>>, 0)
    BY <1>1, <1>4, <1>5, <1>6, <1>7, <1>8 DEF TypeTurned
  <2> QED
    BY <2>1, TypeHandled
<1> QED
  BY <1>1, <1>9 DEF CapiExact

LEMMA TypeFinalExact ==
  ASSUME NEW types, NEW lists, CapiExact(types, lists), NEW d \in CapiTypes,
         NEW types2, TypeClosed(types2, types, d)
  PROVE  CapiExact(types2, lists)
<1>1. CapiListsOK(lists) /\ ReleaseOK(types, OwedBy(lists), <<>>) /\ CapiTypesOK(types)
  BY DEF CapiExact, ReleaseOK
<1>2. types \in [CapiTypes -> CapiTypeRecords] /\ Len(types[d].fields) <= CapiArgMax
  BY <1>1 DEF CapiTypesOK
<1>3. PICK a \in CapiTypeRecords : a = types[d]
  BY <1>2
<1>4. PICK type : type = [count |-> a.count, held |-> a.held, final |-> TRUE, fields |-> a.fields]
  OBVIOUS
<1>5. TypeSet(types2, types, d, type)
  <2>1. types2 = [types EXCEPT ![d] = type]
    <3>1. types2 = [types EXCEPT ![d] = [a EXCEPT !.final = TRUE]]
      BY <1>2, <1>3 DEF TypeClosed
    <3>2. [a EXCEPT !.final = TRUE] = type
      BY <1>4, FieldSetIs, Zenon
    <3> QED
      BY <3>1, <3>2
  <2>2. type \in CapiTypeRecords /\ Len(type.fields) <= CapiArgMax
    BY <1>2, <1>3, <1>4 DEF CapiTypeRecords
  <2> QED
    BY <2>1, <2>2 DEF TypeSet
<1>6. type.fields = types[d].fields /\ type.count = types[d].count /\ HeldOne(type) = HeldOne(types[d])
        /\ HeldOne(type) \in Nat /\ types[d].count \in Nat
  BY <1>3, <1>4 DEF HeldOne, CapiTypeRecords
<1>7. type.count + HeldOne(types[d]) = types[d].count + HeldOne(type) + 0
  BY <1>6
<1>8. \A e \in CapiTypes : Cardinality(CapiOccurrences(<<>>, e)) = IF e = d THEN 0 ELSE 0
  BY OccurrencesNone
<1>9. <<>> \in Seq(CapiTypes) /\ 0 \in Nat
  OBVIOUS
<1>10. ReleaseOK(types2, OwedBy(lists), <<>>)
  <2>1. TypeTurned(types, OwedBy(lists), types2, d, type, <<>>, 0)
    BY <1>1, <1>5, <1>6, <1>7, <1>8, <1>9 DEF TypeTurned
  <2> QED
    BY <2>1, TypeHandled
<1> QED
  BY <1>1, <1>10 DEF CapiExact

LEMMA TypeFreeExact ==
  ASSUME NEW types, NEW lists, CapiExact(types, lists), NEW d \in CapiTypes, types[d].held,
         NEW types1, TypeUnheld(types1, types, d)
  PROVE  CapiExact(TypeRelease(types1, <<d>>), lists)
<1>1. CapiListsOK(lists) /\ ReleaseOK(types, OwedBy(lists), <<>>) /\ CapiTypesOK(types)
  BY DEF CapiExact, ReleaseOK
<1>2. types \in [CapiTypes -> CapiTypeRecords] /\ Len(types[d].fields) <= CapiArgMax
  BY <1>1 DEF CapiTypesOK
<1>3. PICK a \in CapiTypeRecords : a = types[d]
  BY <1>2
<1>4. PICK type : type = [count |-> a.count, held |-> FALSE, final |-> a.final, fields |-> a.fields]
  OBVIOUS
<1>5. TypeSet(types1, types, d, type)
  <2>1. types1 = [types EXCEPT ![d] = type]
    <3>1. types1 = [types EXCEPT ![d] = [a EXCEPT !.held = FALSE]]
      BY <1>2, <1>3 DEF TypeUnheld
    <3>2. [a EXCEPT !.held = FALSE] = type
      BY <1>4, FieldSetIs, Zenon
    <3> QED
      BY <3>1, <3>2
  <2>2. type \in CapiTypeRecords /\ Len(type.fields) <= CapiArgMax
    BY <1>2, <1>3, <1>4 DEF CapiTypeRecords
  <2> QED
    BY <2>1, <2>2 DEF TypeSet
<1>6. type.fields = types[d].fields /\ type.count = types[d].count /\ HeldOne(type) = 0
        /\ HeldOne(types[d]) = 1 /\ types[d].count \in Nat
  BY <1>3, <1>4 DEF HeldOne, CapiTypeRecords
<1>7. type.count + HeldOne(types[d]) = types[d].count + HeldOne(type) + 1
  BY <1>6
<1>8. \A e \in CapiTypes : Cardinality(CapiOccurrences(<<d>>, e)) = IF e = d THEN 1 ELSE 0
  BY OccurrencesOne
<1>9. <<d>> \in Seq(CapiTypes) /\ 1 \in Nat
  OBVIOUS
<1>10. ReleaseOK(types1, OwedBy(lists), <<d>>)
  <2>1. TypeTurned(types, OwedBy(lists), types1, d, type, <<d>>, 1)
    BY <1>1, <1>5, <1>6, <1>7, <1>8, <1>9 DEF TypeTurned
  <2> QED
    BY <2>1, TypeHandled
<1>11. ReleaseOK(TypeRelease(types1, <<d>>), OwedBy(lists), <<>>)
  BY <1>10, ReleaseExact
<1> QED
  BY <1>1, <1>11 DEF CapiExact

LEMMA FieldsAddedExact ==
  ASSUME NEW types, NEW lists, CapiExact(types, lists), NEW d \in CapiTypes, NEW nested \in Seq(CapiTypes),
         Len(types[d].fields) + Len(nested) <= CapiArgMax,
         NEW types1, FieldsPut(types1, types, d, nested)
  PROVE  CapiExact(TypeRetain(types1, nested), lists)
<1>1. /\ CapiListsOK(lists) /\ CapiTypesOK(types)
      /\ \A e \in CapiTypes : types[e].count = OwedTo(types, OwedBy(lists), <<>>, e)
  BY DEF CapiExact, ReleaseOK, Balanced
<1>2. types \in [CapiTypes -> CapiTypeRecords]
  BY <1>1 DEF CapiTypesOK
<1>3. PICK a \in CapiTypeRecords : a = types[d]
  BY <1>2
<1>4. PICK r \in Seq(CapiTypes) : r = a.fields
  BY DEF CapiTypeRecords
<1>5. PICK type : type = [count |-> a.count, held |-> a.held, final |-> a.final, fields |-> r \o nested]
  OBVIOUS
<1>6. TypeSet(types1, types, d, type)
  <2>1. types1 = [types EXCEPT ![d] = type]
    <3>1. types1 = [types EXCEPT ![d] = [a EXCEPT !.fields = r \o nested]]
      BY <1>2, <1>3, <1>4 DEF FieldsPut
    <3>2. [a EXCEPT !.fields = r \o nested] = type
      BY <1>5, FieldSetIs, Zenon
    <3> QED
      BY <3>1, <3>2
  <2>2. r \o nested \in Seq(CapiTypes) /\ Len(r \o nested) = Len(r) + Len(nested)
    BY ConcatProperties
  <2>3. type \in CapiTypeRecords
    BY <1>5, <2>2 DEF CapiTypeRecords
  <2>4. Len(type.fields) <= CapiArgMax
    BY <1>3, <1>4, <1>5, <2>2
  <2> QED
    BY <2>1, <2>3, <2>4 DEF TypeSet
<1>7. /\ CapiTypesOK(types1) /\ FieldsSet(types1, types, d) /\ types1[d] = type
      /\ \A e \in CapiTypes : e # d => types1[e] = types[e]
  BY <1>1, <1>6, TypeSetOK
<1>8. PICK types2 : types2 = TypeRetain(types1, nested)
  OBVIOUS
<1>9. /\ CapiTypesOK(types2)
      /\ \A e \in CapiTypes : /\ types2[e].count = types1[e].count + Cardinality(CapiOccurrences(nested, e))
                              /\ types2[e].held = types1[e].held /\ types2[e].fields = types1[e].fields
  BY <1>7, <1>8, RetainCounts
<1>10. \A e : FieldsTo(types2, e) = FieldsTo(types1, e)
  BY <1>9, FieldsKept
<1>11. PICK w \in [CapiTypes -> Nat] : w = OwedBy(lists)
  BY <1>1, OwedNat
<1>12. ASSUME NEW e \in CapiTypes PROVE types2[e].count = OwedTo(types2, w, <<>>, e)
  <2>1. PICK h \in Nat, f \in Nat, f1 \in Nat, u \in Nat, o \in Nat, p \in Nat :
          /\ h = HeldOne(types[e]) /\ f = Cardinality(FieldsTo(types, e)) /\ f1 = Cardinality(FieldsTo(types1, e))
          /\ u = w[e] /\ o = Cardinality(CapiOccurrences(nested, e)) /\ p = Cardinality(CapiOccurrences(r, e))
    <3>1. HeldOne(types[e]) \in Nat /\ w[e] \in Nat
      BY DEF HeldOne
    <3>2. Cardinality(FieldsTo(types, e)) \in Nat /\ Cardinality(FieldsTo(types1, e)) \in Nat
      BY <1>1, <1>7, FieldsCounted
    <3>3. Cardinality(CapiOccurrences(nested, e)) \in Nat /\ Cardinality(CapiOccurrences(r, e)) \in Nat
      BY OccurrencesOf
    <3> QED
      BY <3>1, <3>2, <3>3
  <2>2. Cardinality(CapiOccurrences(<<>>, e)) = 0
    BY OccurrencesNone
  <2>3. types[e].count = h + f + u + 0
    BY <1>1, <1>11, <2>1, <2>2 DEF OwedTo
  <2>4. Cardinality(FieldsTo(types1, e)) + Cardinality(CapiOccurrences(types[d].fields, e))
          = Cardinality(FieldsTo(types, e)) + Cardinality(CapiOccurrences(types1[d].fields, e))
    BY <1>7, FieldsChange
  <2>5. Cardinality(CapiOccurrences(r \o nested, e)) = p + o
    BY <2>1, OccurrencesAfter
  <2>6. types[d].fields = r /\ types1[d].fields = r \o nested
    <3>1. type.fields = r \o nested
      BY <1>5
    <3> QED
      BY <1>3, <1>4, <1>7, <3>1
  <2>7. f1 + p = f + (p + o)
    BY <2>1, <2>4, <2>5, <2>6
  <2>8. f1 = f + o
    BY <2>7
  <2>9. types1[e].count = types[e].count /\ types1[e].held = types[e].held
    <3>1. type.count = a.count /\ type.held = a.held
      BY <1>5
    <3> QED
      BY <1>3, <1>7, <3>1
  <2>10. types2[e].count = (h + f + u + 0) + o
    BY <1>9, <2>1, <2>3, <2>9
  <2>11. HeldOne(types2[e]) = h
    BY <1>9, <2>1, <2>9 DEF HeldOne
  <2>12. OwedTo(types2, w, <<>>, e) = h + f1 + u + 0
    BY <1>10, <2>1, <2>2, <2>11 DEF OwedTo
  <2> QED
    BY <2>8, <2>10, <2>12
<1>13. <<>> \in Seq(CapiTypes)
  OBVIOUS
<1>14. ReleaseOK(types2, w, <<>>)
  BY <1>9, <1>12, <1>13 DEF ReleaseOK, Balanced
<1> QED
  BY <1>1, <1>8, <1>11, <1>14 DEF CapiExact

ListPut(lists2, lists, l, list) ==
  /\ l \in CapiLists /\ list \in CapiListRecords /\ Len(list.args) <= CapiArgMax /\ Len(list.return) <= 1
  /\ lists2 = [lists EXCEPT ![l] = list]

LEMMA ListPutSet ==
  ASSUME NEW lists, CapiListsOK(lists), NEW lists2, NEW l, NEW list, ListPut(lists2, lists, l, list)
  PROVE  ListSet(lists2, lists, l) /\ lists2[l] = list
<1>1. /\ lists \in [CapiLists -> CapiListRecords]
      /\ \A k \in CapiLists : Len(lists[k].args) <= CapiArgMax /\ Len(lists[k].return) <= 1
  BY DEF CapiListsOK
<1>2. lists2 \in [CapiLists -> CapiListRecords] /\ l \in CapiLists
  BY <1>1 DEF ListPut
<1>3. lists2[l] = list /\ \A k \in CapiLists : k # l => lists2[k] = lists[k]
  BY <1>1 DEF ListPut
<1>4. \A k \in CapiLists : Len(lists2[k].args) <= CapiArgMax /\ Len(lists2[k].return) <= 1
  BY <1>1, <1>3 DEF ListPut
<1>5. CapiListsOK(lists2)
  BY <1>2, <1>4 DEF CapiListsOK
<1> QED
  BY <1>2, <1>3, <1>5 DEF ListSet

(* One field of a list is set. *)
LEMMA ListFieldIs ==
  ASSUME NEW a \in CapiListRecords, NEW x
  PROVE  /\ [a EXCEPT !.live = x] = [live |-> x, args |-> a.args, return |-> a.return]
         /\ [a EXCEPT !.args = x] = [live |-> a.live, args |-> x, return |-> a.return]
         /\ [a EXCEPT !.return = x] = [live |-> a.live, args |-> a.args, return |-> x]
  BY DEF CapiListRecords

LEMMA ListIs ==
  ASSUME NEW lists, CapiListsOK(lists), NEW l \in CapiLists
  PROVE  \E a \in CapiListRecords :
           /\ a = lists[l] /\ a.args \in Seq(CapiTypes) /\ a.return \in Seq(CapiTypes) /\ a.live \in BOOLEAN
           /\ Len(a.args) <= CapiArgMax /\ Len(a.return) <= 1
<1>1. lists[l] \in CapiListRecords /\ Len(lists[l].args) <= CapiArgMax /\ Len(lists[l].return) <= 1
  BY DEF CapiListsOK
<1> QED
  BY <1>1 DEF CapiListRecords

ListLive(lists2, lists, l) == lists2 = [lists EXCEPT ![l].live = TRUE]
ListArgs(lists2, lists, l, args) == lists2 = [lists EXCEPT ![l].args = args]
ListReturn(lists2, lists, l, return) == lists2 = [lists EXCEPT ![l].return = return]
ListGone(lists2, lists, l) == lists2 = [lists EXCEPT ![l] = NoList]

LEMMA ListChanges ==
  ASSUME NEW lists, CapiListsOK(lists), NEW l \in CapiLists, NEW lists2
  PROVE  /\ ListLive(lists2, lists, l) =>
              /\ ListSet(lists2, lists, l)
              /\ lists2[l].args = lists[l].args /\ lists2[l].return = lists[l].return
         /\ \A r \in Seq(CapiTypes) : ListArgs(lists2, lists, l, r) /\ Len(r) <= CapiArgMax =>
              /\ ListSet(lists2, lists, l) /\ lists2[l].args = r /\ lists2[l].return = lists[l].return
         /\ \A r \in Seq(CapiTypes) : ListReturn(lists2, lists, l, r) /\ Len(r) <= 1 =>
              /\ ListSet(lists2, lists, l) /\ lists2[l].args = lists[l].args /\ lists2[l].return = r
         /\ ListGone(lists2, lists, l) =>
              /\ ListSet(lists2, lists, l) /\ lists2[l].args = <<>> /\ lists2[l].return = <<>>
<1>1. PICK a \in CapiListRecords :
        /\ a = lists[l] /\ a.args \in Seq(CapiTypes) /\ a.return \in Seq(CapiTypes) /\ a.live \in BOOLEAN
        /\ Len(a.args) <= CapiArgMax /\ Len(a.return) <= 1
  BY ListIs
<1>2. lists \in [CapiLists -> CapiListRecords]
  BY DEF CapiListsOK
<1>3. ASSUME ListLive(lists2, lists, l)
      PROVE  ListSet(lists2, lists, l) /\ lists2[l].args = lists[l].args /\ lists2[l].return = lists[l].return
  <2>1. PICK b : b = [live |-> TRUE, args |-> a.args, return |-> a.return]
    OBVIOUS
  <2>2. lists2 = [lists EXCEPT ![l] = [a EXCEPT !.live = TRUE]]
    BY <1>1, <1>2, <1>3 DEF ListLive
  <2>3. [a EXCEPT !.live = TRUE] = b
    BY <2>1, ListFieldIs, Zenon
  <2>4. b \in CapiListRecords /\ b.args = a.args /\ b.return = a.return
    BY <1>1, <2>1 DEF CapiListRecords
  <2>5. lists2 = [lists EXCEPT ![l] = b]
    BY <2>2, <2>3, Zenon
  <2>6. ListPut(lists2, lists, l, b)
    BY <1>1, <2>4, <2>5 DEF ListPut
  <2>7. ListSet(lists2, lists, l) /\ lists2[l] = b
    BY <2>6, ListPutSet
  <2> QED
    BY <1>1, <2>4, <2>7
<1>4. ASSUME NEW r \in Seq(CapiTypes), ListArgs(lists2, lists, l, r), Len(r) <= CapiArgMax
      PROVE  ListSet(lists2, lists, l) /\ lists2[l].args = r /\ lists2[l].return = lists[l].return
  <2>1. PICK b : b = [live |-> a.live, args |-> r, return |-> a.return]
    OBVIOUS
  <2>2. lists2 = [lists EXCEPT ![l] = [a EXCEPT !.args = r]]
    BY <1>1, <1>2, <1>4 DEF ListArgs
  <2>3. [a EXCEPT !.args = r] = b
    BY <2>1, ListFieldIs, Zenon
  <2>4. b \in CapiListRecords /\ b.args = r /\ b.return = a.return
    BY <1>1, <2>1 DEF CapiListRecords
  <2>5. lists2 = [lists EXCEPT ![l] = b]
    BY <2>2, <2>3, Zenon
  <2>6. ListPut(lists2, lists, l, b)
    BY <1>1, <1>4, <2>4, <2>5 DEF ListPut
  <2>7. ListSet(lists2, lists, l) /\ lists2[l] = b
    BY <2>6, ListPutSet
  <2> QED
    BY <1>1, <2>4, <2>7
<1>5. ASSUME NEW r \in Seq(CapiTypes), ListReturn(lists2, lists, l, r), Len(r) <= 1
      PROVE  ListSet(lists2, lists, l) /\ lists2[l].args = lists[l].args /\ lists2[l].return = r
  <2>1. PICK b : b = [live |-> a.live, args |-> a.args, return |-> r]
    OBVIOUS
  <2>2. lists2 = [lists EXCEPT ![l] = [a EXCEPT !.return = r]]
    BY <1>1, <1>2, <1>5 DEF ListReturn
  <2>3. [a EXCEPT !.return = r] = b
    BY <2>1, ListFieldIs, Zenon
  <2>4. b \in CapiListRecords /\ b.args = a.args /\ b.return = r
    BY <1>1, <2>1 DEF CapiListRecords
  <2>5. lists2 = [lists EXCEPT ![l] = b]
    BY <2>2, <2>3, Zenon
  <2>6. ListPut(lists2, lists, l, b)
    BY <1>1, <1>5, <2>4, <2>5 DEF ListPut
  <2>7. ListSet(lists2, lists, l) /\ lists2[l] = b
    BY <2>6, ListPutSet
  <2> QED
    BY <1>1, <2>4, <2>7
<1>6. ASSUME ListGone(lists2, lists, l)
      PROVE  ListSet(lists2, lists, l) /\ lists2[l].args = <<>> /\ lists2[l].return = <<>>
  <2>1. NoList \in CapiListRecords /\ NoList.args = <<>> /\ NoList.return = <<>>
    <3>1. <<>> \in Seq(CapiTypes)
      OBVIOUS
    <3> QED
      BY <3>1 DEF NoList, CapiListRecords
  <2>2. Len(<<>>) = 0 /\ 0 <= CapiArgMax /\ 0 <= 1
    BY CapiAssumption
  <2>3. ListPut(lists2, lists, l, NoList)
    BY <1>6, <2>1, <2>2 DEF ListPut, ListGone
  <2>4. ListSet(lists2, lists, l) /\ lists2[l] = NoList
    BY <2>3, ListPutSet
  <2> QED
    BY <2>1, <2>4
<1> QED
  BY <1>3, <1>4, <1>5, <1>6

LEMMA CallNewExact ==
  ASSUME NEW types, NEW lists, CapiExact(types, lists), NEW l \in CapiLists,
         NEW lists2, ListLive(lists2, lists, l)
  PROVE  CapiExact(types, lists2)
<1>1. CapiListsOK(lists) /\ ReleaseOK(types, OwedBy(lists), <<>>)
  BY DEF CapiExact
<1>2. ListSet(lists2, lists, l) /\ lists2[l].args = lists[l].args /\ lists2[l].return = lists[l].return
  BY <1>1, ListChanges
<1>3. CapiListsOK(lists2)
      /\ \A k \in CapiLists : lists2[k].args = lists[k].args /\ lists2[k].return = lists[k].return
  BY <1>2 DEF ListSet
<1>4. \A d : ArgOccurrences(lists2, d) = ArgOccurrences(lists, d) /\ ReturnsTo(lists2, d) = ReturnsTo(lists, d)
  BY <1>3 DEF ArgOccurrences, ReturnsTo
<1>5. OwedBy(lists2) = OwedBy(lists)
  BY <1>4 DEF OwedBy, ArgsTo
<1> QED
  BY <1>1, <1>3, <1>5 DEF CapiExact

LEMMA ArgsTakenExact ==
  ASSUME NEW types, NEW lists, CapiExact(types, lists), NEW l \in CapiLists, NEW r \in Seq(CapiTypes),
         Len(lists[l].args) + Len(r) <= CapiArgMax,
         NEW lists2, ListArgs(lists2, lists, l, lists[l].args \o r)
  PROVE  CapiExact(TypeRetain(types, r), lists2)
<1>1. CapiListsOK(lists)
  BY DEF CapiExact
<1>2. PICK q \in Seq(CapiTypes) : q = lists[l].args
  <2>1. PICK a \in CapiListRecords :
          /\ a = lists[l] /\ a.args \in Seq(CapiTypes) /\ a.return \in Seq(CapiTypes) /\ a.live \in BOOLEAN
          /\ Len(a.args) <= CapiArgMax /\ Len(a.return) <= 1
    BY <1>1, ListIs
  <2> QED
    BY <2>1
<1>3. PICK w : w = q \o r
  OBVIOUS
<1>4. w \in Seq(CapiTypes) /\ Len(w) = Len(q) + Len(r)
  BY <1>3, ConcatProperties
<1>5. ListArgs(lists2, lists, l, w) /\ Len(w) <= CapiArgMax
  BY <1>2, <1>3, <1>4
<1>6. ListSet(lists2, lists, l) /\ lists2[l].args = w /\ lists2[l].return = lists[l].return
  <2>1. \A u \in Seq(CapiTypes) : ListArgs(lists2, lists, l, u) /\ Len(u) <= CapiArgMax =>
          /\ ListSet(lists2, lists, l) /\ lists2[l].args = u /\ lists2[l].return = lists[l].return
    BY <1>1, ListChanges
  <2> QED
    BY <1>4, <1>5, <2>1
<1>7. ASSUME NEW d \in CapiTypes
      PROVE  ListOwes(lists2[l], d) = ListOwes(lists[l], d) + Cardinality(CapiOccurrences(r, d))
  <2>1. PICK a \in Nat, b \in Nat : a = Cardinality(CapiOccurrences(q, d)) /\ b = Cardinality(CapiOccurrences(r, d))
    BY OccurrencesOf
  <2>2. Cardinality(CapiOccurrences(w, d)) = a + b
    BY <1>3, <2>1, OccurrencesAfter
  <2>3. PICK c \in Nat : c = Cardinality(CapiOccurrences(lists[l].return, d))
    <3>1. lists[l].return \in Seq(CapiTypes)
      BY <1>1 DEF CapiListsOK, CapiListRecords
    <3> QED
      BY <3>1, OccurrencesOf
  <2>4. ListOwes(lists2[l], d) = (a + b) + c /\ ListOwes(lists[l], d) = a + c
    BY <1>2, <1>6, <2>1, <2>2, <2>3 DEF ListOwes
  <2>5. (a + b) + c = (a + c) + b
    OBVIOUS
  <2> QED
    BY <2>1, <2>4, <2>5
<1> QED
  BY <1>6, <1>7, ListTakes

LEMMA ArgsClearedExact ==
  ASSUME NEW types, NEW lists, CapiExact(types, lists), NEW l \in CapiLists,
         NEW lists2, ListArgs(lists2, lists, l, <<>>)
  PROVE  CapiExact(TypeRelease(types, lists[l].args), lists2)
<1>1. CapiListsOK(lists)
  BY DEF CapiExact
<1>2. PICK q \in Seq(CapiTypes) : q = lists[l].args
  BY <1>1 DEF CapiListsOK, CapiListRecords
<1>3. ListSet(lists2, lists, l) /\ lists2[l].args = <<>> /\ lists2[l].return = lists[l].return
  <2>1. \A u \in Seq(CapiTypes) : ListArgs(lists2, lists, l, u) /\ Len(u) <= CapiArgMax =>
          /\ ListSet(lists2, lists, l) /\ lists2[l].args = u /\ lists2[l].return = lists[l].return
    BY <1>1, ListChanges
  <2>2. <<>> \in Seq(CapiTypes) /\ Len(<<>>) = 0 /\ 0 <= CapiArgMax
    BY CapiAssumption
  <2> QED
    BY <2>1, <2>2
<1>4. ASSUME NEW d \in CapiTypes
      PROVE  ListOwes(lists[l], d) = ListOwes(lists2[l], d) + Cardinality(CapiOccurrences(q, d))
  <2>1. PICK a \in Nat : a = Cardinality(CapiOccurrences(q, d))
    BY OccurrencesOf
  <2>2. Cardinality(CapiOccurrences(<<>>, d)) = 0
    BY OccurrencesNone
  <2>3. PICK c \in Nat : c = Cardinality(CapiOccurrences(lists[l].return, d))
    <3>1. lists[l].return \in Seq(CapiTypes)
      BY <1>1 DEF CapiListsOK, CapiListRecords
    <3> QED
      BY <3>1, OccurrencesOf
  <2>4. ListOwes(lists2[l], d) = 0 + c /\ ListOwes(lists[l], d) = a + c
    BY <1>2, <1>3, <2>1, <2>2, <2>3 DEF ListOwes
  <2>5. a + c = (0 + c) + a
    OBVIOUS
  <2> QED
    BY <2>1, <2>4, <2>5
<1>5. CapiExact(TypeRelease(types, q), lists2)
  BY <1>3, <1>4, ListDrops
<1> QED
  BY <1>2, <1>5

LEMMA CallFreedExact ==
  ASSUME NEW types, NEW lists, CapiExact(types, lists), NEW l \in CapiLists,
         NEW lists2, ListGone(lists2, lists, l)
  PROVE  CapiExact(TypeRelease(types, lists[l].args \o lists[l].return), lists2)
<1>1. CapiListsOK(lists)
  BY DEF CapiExact
<1>2. PICK q \in Seq(CapiTypes), p \in Seq(CapiTypes) : q = lists[l].args /\ p = lists[l].return
  BY <1>1 DEF CapiListsOK, CapiListRecords
<1>3. ListSet(lists2, lists, l) /\ lists2[l].args = <<>> /\ lists2[l].return = <<>>
  BY <1>1, ListChanges
<1>4. PICK w \in Seq(CapiTypes) : w = q \o p
  BY ConcatProperties
<1>5. ASSUME NEW d \in CapiTypes
      PROVE  ListOwes(lists[l], d) = ListOwes(lists2[l], d) + Cardinality(CapiOccurrences(w, d))
  <2>1. PICK a \in Nat, b \in Nat : a = Cardinality(CapiOccurrences(q, d)) /\ b = Cardinality(CapiOccurrences(p, d))
    BY OccurrencesOf
  <2>2. Cardinality(CapiOccurrences(<<>>, d)) = 0
    BY OccurrencesNone
  <2>3. Cardinality(CapiOccurrences(w, d)) = a + b
    BY <1>4, <2>1, OccurrencesAfter
  <2>4. ListOwes(lists2[l], d) = 0 + 0 /\ ListOwes(lists[l], d) = a + b
    BY <1>2, <1>3, <2>1, <2>2 DEF ListOwes
  <2>5. a + b = (0 + 0) + (a + b)
    OBVIOUS
  <2> QED
    BY <2>3, <2>4, <2>5
<1>6. CapiExact(TypeRelease(types, w), lists2)
  BY <1>3, <1>5, ListDrops
<1> QED
  BY <1>2, <1>4, <1>6

(* The return type set before is given up, and the new one taken. *)
LEMMA ReturnSetExact ==
  ASSUME NEW types, NEW lists, CapiExact(types, lists), NEW l \in CapiLists, NEW d \in CapiTypes,
         NEW lists2, ListReturn(lists2, lists, l, <<d>>)
  PROVE  CapiExact(TypeRetain(TypeRelease(types, lists[l].return), <<d>>), lists2)
<1>1. CapiListsOK(lists)
  BY DEF CapiExact
<1>2. PICK q \in Seq(CapiTypes), p \in Seq(CapiTypes) : q = lists[l].args /\ p = lists[l].return
  BY <1>1 DEF CapiListsOK, CapiListRecords
<1>3. PICK lists1 : ListReturn(lists1, lists, l, <<>>)
  BY DEF ListReturn
<1>4. ListSet(lists1, lists, l) /\ lists1[l].args = q /\ lists1[l].return = <<>>
  <2>1. \A u \in Seq(CapiTypes) : ListReturn(lists1, lists, l, u) /\ Len(u) <= 1 =>
          /\ ListSet(lists1, lists, l) /\ lists1[l].args = lists[l].args /\ lists1[l].return = u
    BY <1>1, ListChanges
  <2>2. <<>> \in Seq(CapiTypes) /\ Len(<<>>) = 0 /\ 0 <= 1
    OBVIOUS
  <2> QED
    BY <1>2, <1>3, <2>1, <2>2
<1>5. ListSet(lists2, lists, l) /\ lists2[l].args = q /\ lists2[l].return = <<d>>
  <2>1. \A u \in Seq(CapiTypes) : ListReturn(lists2, lists, l, u) /\ Len(u) <= 1 =>
          /\ ListSet(lists2, lists, l) /\ lists2[l].args = lists[l].args /\ lists2[l].return = u
    BY <1>1, ListChanges
  <2>2. <<d>> \in Seq(CapiTypes) /\ Len(<<d>>) = 1 /\ 1 <= 1
    OBVIOUS
  <2> QED
    BY <1>2, <2>1, <2>2
<1>6. ListSet(lists2, lists1, l)
  BY <1>4, <1>5 DEF ListSet
<1>7. ASSUME NEW e \in CapiTypes
      PROVE  /\ ListOwes(lists[l], e) = ListOwes(lists1[l], e) + Cardinality(CapiOccurrences(p, e))
             /\ ListOwes(lists2[l], e) = ListOwes(lists1[l], e) + Cardinality(CapiOccurrences(<<d>>, e))
  <2>1. <<d>> \in Seq(CapiTypes)
    OBVIOUS
  <2>2. PICK a \in Nat, b \in Nat, c \in Nat :
          /\ a = Cardinality(CapiOccurrences(q, e)) /\ b = Cardinality(CapiOccurrences(p, e))
          /\ c = Cardinality(CapiOccurrences(<<d>>, e))
    BY <2>1, OccurrencesOf
  <2>3. Cardinality(CapiOccurrences(<<>>, e)) = 0
    BY OccurrencesNone
  <2>4. ListOwes(lists[l], e) = a + b /\ ListOwes(lists1[l], e) = a + 0 /\ ListOwes(lists2[l], e) = a + c
    BY <1>2, <1>4, <1>5, <2>2, <2>3 DEF ListOwes
  <2>5. a + b = (a + 0) + b /\ a + c = (a + 0) + c
    OBVIOUS
  <2> QED
    BY <2>2, <2>4, <2>5
<1>8. PICK types1 : types1 = TypeRelease(types, p)
  OBVIOUS
<1>9. CapiExact(types1, lists1)
  BY <1>4, <1>7, <1>8, ListDrops
<1>10. PICK z \in Seq(CapiTypes) : z = <<d>>
  <2>1. <<d>> \in Seq(CapiTypes)
    OBVIOUS
  <2> QED
    BY <2>1, Zenon
<1>11. \A e \in CapiTypes : ListOwes(lists2[l], e) = ListOwes(lists1[l], e) + Cardinality(CapiOccurrences(z, e))
  BY <1>7, <1>10
<1>12. CapiExact(TypeRetain(types1, z), lists2)
  BY <1>6, <1>9, <1>11, ListTakes
<1> QED
  BY <1>2, <1>8, <1>10, <1>12

-----------------------------------------------------------------------------
(* The C interface bridge: the events of a callback *)

(* The numbers of the events are of those captured, and each is in one place. *)
EventsOnce(queue, pending, capture, events, taken) ==
  /\ events \in Nat /\ queue \in Seq(1..events) /\ pending = Len(queue)
  /\ capture \in [CapiThreads -> 0..events] /\ taken \in SUBSET (1..events)
  /\ \A i, j \in 1..Len(queue) : queue[i] = queue[j] => i = j
  /\ \A t, u \in CapiThreads : capture[t] = capture[u] /\ capture[t] # 0 => t = u
  /\ \A i \in 1..Len(queue) : queue[i] \notin taken /\ \A t \in CapiThreads : queue[i] # capture[t]
  /\ \A t \in CapiThreads : capture[t] \notin taken

LEMMA EventCaptured ==
  ASSUME NEW queue, NEW pending, NEW capture, NEW events, NEW taken,
         EventsOnce(queue, pending, capture, events, taken), NEW t \in CapiThreads, capture[t] = 0
  PROVE  EventsOnce(queue, pending, [capture EXCEPT ![t] = events + 1], events + 1, taken)
<1>1. /\ events \in Nat /\ queue \in Seq(1..events) /\ pending = Len(queue)
      /\ capture \in [CapiThreads -> 0..events] /\ taken \in SUBSET (1..events)
  BY DEF EventsOnce
<1>2. PICK c : c = [capture EXCEPT ![t] = events + 1]
  OBVIOUS
<1>3. PICK m \in Nat : m = events + 1
  BY <1>1
<1>4. m \notin 0..events /\ m \in 1..m /\ 0..events \subseteq 0..m /\ 1..events \subseteq 1..m /\ m # 0
  BY <1>1, <1>3
<1>5. c[t] = m /\ \A u \in CapiThreads : u # t => c[u] = capture[u]
  BY <1>1, <1>2, <1>3
<1>6. c \in [CapiThreads -> 0..m]
  <2>1. \A u \in CapiThreads : c[u] \in 0..m
    <3>1. \A u \in CapiThreads : capture[u] \in 0..events
      BY <1>1
    <3>2. m \in 0..m
      BY <1>3
    <3> QED
      BY <1>4, <1>5, <3>1, <3>2
  <2>2. c = [u \in CapiThreads |-> c[u]]
    BY <1>1, <1>2
  <2> QED
    BY <2>1, <2>2
<1>7. queue \in Seq(1..m) /\ taken \in SUBSET (1..m) /\ Len(queue) \in Nat
  <2>1. \A i \in 1..Len(queue) : queue[i] \in 1..m
    BY <1>1, <1>4
  <2>2. queue = [i \in 1..Len(queue) |-> queue[i]] /\ Len(queue) \in Nat
    BY <1>1
  <2>3. queue \in Seq(1..m)
    BY <2>1, <2>2, SeqDef
  <2> QED
    BY <1>1, <1>4, <2>2, <2>3
<1>8. ASSUME NEW u \in CapiThreads, NEW v \in CapiThreads, c[u] = c[v], c[u] # 0 PROVE u = v
  <2>1. \A x \in CapiThreads : capture[x] # m
    BY <1>1, <1>4
  <2>2. \A x \in CapiThreads, y \in CapiThreads : capture[x] = capture[y] /\ capture[x] # 0 => x = y
    BY DEF EventsOnce
  <2>3. CASE u = t
    <3>1. c[v] = m
      BY <1>5, <1>8, <2>3
    <3> QED
      BY <1>5, <2>1, <2>3, <3>1
  <2>4. CASE v = t
    <3>1. c[u] = m
      BY <1>5, <1>8, <2>4
    <3> QED
      BY <1>5, <2>1, <2>4, <3>1
  <2>5. CASE u # t /\ v # t
    BY <1>5, <1>8, <2>2, <2>5
  <2> QED
    BY <2>3, <2>4, <2>5
<1>9. ASSUME NEW i \in 1..Len(queue) PROVE queue[i] \notin taken /\ \A u \in CapiThreads : queue[i] # c[u]
  <2>1. queue[i] \in 1..events /\ queue[i] # m
    BY <1>1, <1>4
  <2>2. queue[i] \notin taken /\ \A u \in CapiThreads : queue[i] # capture[u]
    BY DEF EventsOnce
  <2> QED
    BY <1>5, <2>1, <2>2
<1>10. \A u \in CapiThreads : c[u] \notin taken
  <2>1. \A u \in CapiThreads : capture[u] \notin taken
    BY DEF EventsOnce
  <2>2. m \notin taken
    BY <1>1, <1>4
  <2> QED
    BY <1>5, <2>1, <2>2
<1>11. \A i, j \in 1..Len(queue) : queue[i] = queue[j] => i = j
  BY DEF EventsOnce
<1>12. EventsOnce(queue, pending, c, m, taken)
  BY <1>1, <1>6, <1>7, <1>8, <1>9, <1>10, <1>11 DEF EventsOnce
<1> QED
  BY <1>2, <1>3, <1>12

LEMMA EventAppended ==
  ASSUME NEW queue, NEW pending, NEW capture, NEW events, NEW taken,
         EventsOnce(queue, pending, capture, events, taken), NEW t \in CapiThreads, capture[t] # 0
  PROVE  EventsOnce(Append(queue, capture[t]), pending + 1, [capture EXCEPT ![t] = 0], events, taken)
<1>1. /\ events \in Nat /\ queue \in Seq(1..events) /\ pending = Len(queue)
      /\ capture \in [CapiThreads -> 0..events] /\ taken \in SUBSET (1..events)
  BY DEF EventsOnce
<1>2. PICK c : c = [capture EXCEPT ![t] = 0]
  OBVIOUS
<1>3. PICK e \in 1..events : e = capture[t]
  BY <1>1
<1>4. PICK n \in Nat : n = Len(queue)
  BY <1>1
<1>5. PICK q : q = Append(queue, e)
  OBVIOUS
<1>6. /\ q \in Seq(1..events) /\ Len(q) = n + 1 /\ q[n + 1] = e
      /\ \A i \in 1..n : q[i] = queue[i]
  BY <1>1, <1>4, <1>5, AppendProperties
<1>7. c[t] = 0 /\ \A u \in CapiThreads : u # t => c[u] = capture[u]
  BY <1>1, <1>2
<1>8. c \in [CapiThreads -> 0..events]
  <2>1. \A u \in CapiThreads : c[u] \in 0..events
    BY <1>1, <1>7
  <2>2. c = [u \in CapiThreads |-> c[u]]
    BY <1>1, <1>2
  <2> QED
    BY <2>1, <2>2
<1>9. \A i \in 1..n : queue[i] \notin taken /\ queue[i] # e /\ \A u \in CapiThreads : queue[i] # capture[u]
  BY <1>3, <1>4 DEF EventsOnce
<1>10. \A i \in 1..(n + 1) : i = n + 1 \/ i \in 1..n
  OBVIOUS
<1>11. ASSUME NEW i \in 1..(n + 1), NEW j \in 1..(n + 1), q[i] = q[j] PROVE i = j
  <2>1. \A x \in 1..n, y \in 1..n : queue[x] = queue[y] => x = y
    BY <1>4 DEF EventsOnce
  <2>2. CASE i \in 1..n /\ j \in 1..n
    BY <1>6, <1>11, <2>1, <2>2
  <2>3. CASE i = n + 1 /\ j \in 1..n
    BY <1>6, <1>9, <1>11, <2>3
  <2>4. CASE j = n + 1 /\ i \in 1..n
    BY <1>6, <1>9, <1>11, <2>4
  <2> QED
    BY <1>10, <2>2, <2>3, <2>4
<1>12. e \notin taken /\ \A u \in CapiThreads : capture[u] \notin taken
  BY <1>3 DEF EventsOnce
<1>13. 0 \notin taken
  BY <1>1
<1>14. \A u \in CapiThreads : u # t => capture[u] # e
  <2>1. \A x \in CapiThreads, y \in CapiThreads : capture[x] = capture[y] /\ capture[x] # 0 => x = y
    BY DEF EventsOnce
  <2> QED
    BY <1>3, <2>1
<1>15. ASSUME NEW i \in 1..(n + 1) PROVE q[i] \notin taken /\ \A u \in CapiThreads : q[i] # c[u]
  <2>1. q[i] # 0
    BY <1>1, <1>6
  <2>2. CASE i \in 1..n
    BY <1>6, <1>7, <1>9, <2>1, <2>2
  <2>3. CASE i = n + 1
    BY <1>6, <1>7, <1>12, <1>14, <2>1, <2>3
  <2> QED
    BY <1>10, <2>2, <2>3
<1>16. \A u, v \in CapiThreads : c[u] = c[v] /\ c[u] # 0 => u = v
  <2>1. \A x \in CapiThreads, y \in CapiThreads : capture[x] = capture[y] /\ capture[x] # 0 => x = y
    BY DEF EventsOnce
  <2> QED
    BY <1>7, <2>1
<1>17. \A u \in CapiThreads : c[u] \notin taken
  BY <1>7, <1>12, <1>13
<1>18. EventsOnce(q, n + 1, c, events, taken)
  BY <1>1, <1>6, <1>8, <1>11, <1>15, <1>16, <1>17 DEF EventsOnce
<1> QED
  BY <1>1, <1>2, <1>3, <1>4, <1>5, <1>18

LEMMA EventTaken ==
  ASSUME NEW queue, NEW pending, NEW capture, NEW events, NEW taken,
         EventsOnce(queue, pending, capture, events, taken), queue # <<>>
  PROVE  EventsOnce(Tail(queue), IF pending > 0 THEN pending - 1 ELSE 0, capture, events, taken \cup {Head(queue)})
<1>1. /\ events \in Nat /\ queue \in Seq(1..events) /\ pending = Len(queue)
      /\ capture \in [CapiThreads -> 0..events] /\ taken \in SUBSET (1..events)
  BY DEF EventsOnce
<1>2. PICK q : q = Tail(queue)
  OBVIOUS
<1>3. PICK n \in Nat : n = Len(q)
  BY <1>1, <1>2
<1>4. PICK e : e = Head(queue)
  OBVIOUS
<1>5. /\ e \in 1..events /\ q \in Seq(1..events) /\ Len(queue) = n + 1
      /\ e = queue[1] /\ \A i \in 1..n : q[i] = queue[i + 1]
  BY <1>1, <1>2, <1>3, <1>4, HeadTailProperties
<1>6. pending > 0 /\ pending - 1 = n
  BY <1>1, <1>5
<1>7. \A i \in 1..n : i + 1 \in 1..Len(queue) /\ i + 1 # 1
  BY <1>5
<1>8. 1 \in 1..Len(queue)
  BY <1>5
<1>9. \A i, j \in 1..Len(queue) : queue[i] = queue[j] => i = j
  BY DEF EventsOnce
<1>10. ASSUME NEW i \in 1..n, NEW j \in 1..n, q[i] = q[j] PROVE i = j
  <2>1. i + 1 = j + 1
    BY <1>5, <1>7, <1>9, <1>10
  <2> QED
    BY <2>1
<1>11. ASSUME NEW i \in 1..Len(queue) PROVE queue[i] \notin taken /\ \A t \in CapiThreads : queue[i] # capture[t]
  BY DEF EventsOnce
<1>12. ASSUME NEW i \in 1..n PROVE q[i] \notin taken \cup {e} /\ \A t \in CapiThreads : q[i] # capture[t]
  <2>1. q[i] = queue[i + 1] /\ i + 1 \in 1..Len(queue) /\ i + 1 # 1
    BY <1>5, <1>7
  <2>2. queue[i + 1] # queue[1]
    BY <1>8, <1>9, <2>1
  <2> QED
    BY <1>5, <1>11, <2>1, <2>2
<1>13. \A t \in CapiThreads : capture[t] \notin taken \cup {e}
  <2>1. \A t \in CapiThreads : capture[t] \notin taken
    BY DEF EventsOnce
  <2> QED
    BY <1>5, <1>8, <1>11, <2>1
<1>14. \A t, u \in CapiThreads : capture[t] = capture[u] /\ capture[t] # 0 => t = u
  BY DEF EventsOnce
<1>15. taken \cup {e} \in SUBSET (1..events)
  BY <1>1, <1>5
<1>16. EventsOnce(q, n, capture, events, taken \cup {e})
  BY <1>1, <1>3, <1>5, <1>10, <1>12, <1>13, <1>14, <1>15 DEF EventsOnce
<1> QED
  BY <1>2, <1>4, <1>6, <1>16

-----------------------------------------------------------------------------
(* The C interface bridge: the invariant *)

(* The references are exact, and the events are in one place each. *)
CapiInv ==
  /\ CapiExact(capiTypes, capiLists)
  /\ EventsOnce(capiQueue, capiPending, capiCapture, capiEvents, capiTaken)

LEMMA CapiStarts == CapiInit => CapiInv
<1> SUFFICES ASSUME CapiInit PROVE CapiInv
  OBVIOUS
<1>1. PICK types : types = [d \in CapiTypes |-> NoType]
  OBVIOUS
<1>2. PICK lists : lists = [l \in CapiLists |-> NoList]
  OBVIOUS
<1>3. <<>> \in Seq(CapiTypes) /\ Len(<<>>) = 0 /\ 0 <= CapiArgMax /\ 0 <= 1
  BY CapiAssumption
<1>4. CapiListsOK(lists)
  <2>1. NoList \in CapiListRecords /\ NoList.args = <<>> /\ NoList.return = <<>>
    BY <1>3 DEF NoList, CapiListRecords
  <2> QED
    BY <1>2, <1>3, <2>1 DEF CapiListsOK
<1>5. CapiTypesOK(types)
  BY <1>1, <1>3, NoTypeOK DEF CapiTypesOK
<1>6. PICK w \in [CapiTypes -> Nat] : w = OwedBy(lists)
  BY <1>4, OwedNat
<1>7. ASSUME NEW d \in CapiTypes PROVE types[d].count = OwedTo(types, w, <<>>, d)
  <2>1. Cardinality(CapiOccurrences(<<>>, d)) = 0 /\ CapiOccurrences(<<>>, d) = {}
    BY OccurrencesNone
  <2>2. FieldsTo(types, d) = {}
    <3>1. \A t \in CapiTypes : FieldOccurrences(types, d)[t] = {}
      BY <1>1, <2>1, NoTypeOK DEF FieldOccurrences
    <3> QED
      BY <3>1 DEF FieldsTo, PlacesIn
  <2>3. ArgsTo(lists, d) = {}
    <3>1. \A l \in CapiLists : ArgOccurrences(lists, d)[l] = {}
      BY <1>2, <2>1 DEF ArgOccurrences, NoList
    <3> QED
      BY <3>1 DEF ArgsTo, PlacesIn
  <2>4. ReturnsTo(lists, d) = {}
    <3>1. <<d>> # <<>>
      OBVIOUS
    <3> QED
      BY <1>2, <3>1 DEF ReturnsTo, NoList
  <2>5. w[d] = 0 + 0
    BY <1>6, <2>3, <2>4, FS_EmptySet DEF OwedBy
  <2>6. HeldOne(types[d]) = 0 /\ types[d].count = 0
    BY <1>1, NoTypeOK DEF HeldOne
  <2>7. Cardinality(FieldsTo(types, d)) = 0
    BY <2>2, FS_EmptySet
  <2> QED
    BY <2>1, <2>5, <2>6, <2>7 DEF OwedTo
<1>8. ReleaseOK(types, w, <<>>)
  BY <1>3, <1>5, <1>7 DEF ReleaseOK, Balanced
<1>9. CapiExact(capiTypes, capiLists)
  BY <1>1, <1>2, <1>4, <1>6, <1>8 DEF CapiExact, CapiInit
<1>10. EventsOnce(<<>>, 0, [t \in CapiThreads |-> 0], 0, {})
  BY DEF EventsOnce
<1> QED
  BY <1>9, <1>10 DEF CapiInv, CapiInit

LEMMA FieldAddSteps ==
  ASSUME CapiInv, NEW d \in CapiTypes, NEW nested \in Seq(CapiTypes), AddTypeElement(d, nested)
  PROVE  CapiExact(capiTypes', capiLists')
<1>1. PICK types : types = capiTypes
  OBVIOUS
<1>2. PICK lists : lists = capiLists
  OBVIOUS
<1>3. CapiExact(types, lists)
  BY <1>1, <1>2 DEF CapiInv
<1>4. PICK types1 : FieldsPut(types1, types, d, nested)
  BY DEF FieldsPut
<1>5. Len(types[d].fields) + Len(nested) <= CapiArgMax
  BY <1>1 DEF AddTypeElement
<1>6. capiTypes' = TypeRetain(types1, nested) /\ capiLists' = lists
  BY <1>1, <1>2, <1>4 DEF AddTypeElement, FieldsPut
<1>7. CapiExact(TypeRetain(types1, nested), lists)
  BY <1>3, <1>4, <1>5, FieldsAddedExact
<1> QED
  BY <1>6, <1>7, Zenon

LEMMA CapiTypesSteps == CapiInv /\ CapiTypesNext => CapiExact(capiTypes', capiLists')
<1> SUFFICES ASSUME CapiInv, CapiTypesNext PROVE CapiExact(capiTypes', capiLists')
  OBVIOUS
<1>1. PICK types : types = capiTypes
  OBVIOUS
<1>2. PICK lists : lists = capiLists
  OBVIOUS
<1>3. PICK types2 : types2 = capiTypes'
  OBVIOUS
<1>4. PICK lists2 : lists2 = capiLists'
  OBVIOUS
<1>5. CapiExact(types, lists) /\ CapiListsOK(lists)
  BY <1>1, <1>2 DEF CapiInv, CapiExact
<1> SUFFICES CapiExact(types2, lists2)
  BY <1>3, <1>4, Zenon
<1>6. ASSUME NEW d \in CapiTypes, TypeStructNew(d) PROVE CapiExact(types2, lists2)
  <2>1. types[d] = NoType /\ lists2 = lists
    BY <1>1, <1>2, <1>4, <1>6 DEF TypeStructNew
  <2>2. TypeMade(types2, types, d)
    BY <1>1, <1>3, <1>6 DEF TypeStructNew, TypeMade
  <2> QED
    BY <1>5, <2>1, <2>2, TypeNewExact
<1>7. ASSUME NEW d \in CapiTypes, TypeFinalize(d) PROVE CapiExact(types2, lists2)
  <2>1. lists2 = lists
    BY <1>2, <1>4, <1>7 DEF TypeFinalize
  <2>2. TypeClosed(types2, types, d)
    BY <1>1, <1>3, <1>7 DEF TypeFinalize, TypeClosed
  <2> QED
    BY <1>5, <2>1, <2>2, TypeFinalExact
<1>8. ASSUME NEW d \in CapiTypes, TypeFree(d) PROVE CapiExact(types2, lists2)
  <2>1. types[d].held /\ lists2 = lists
    BY <1>1, <1>2, <1>4, <1>8 DEF TypeFree
  <2>2. PICK types1 : TypeUnheld(types1, types, d)
    BY DEF TypeUnheld
  <2>3. types2 = TypeRelease(types1, <<d>>)
    BY <1>1, <1>3, <1>8, <2>2 DEF TypeFree, TypeUnheld
  <2>4. CapiExact(TypeRelease(types1, <<d>>), lists)
    BY <1>5, <2>1, <2>2, TypeFreeExact
  <2> QED
    BY <2>1, <2>3, <2>4, Zenon
<1>9. ASSUME NEW d \in CapiTypes, NEW f \in CapiTypes, TypeAddStructField(d, f) PROVE CapiExact(types2, lists2)
  <2>1. <<f>> \in Seq(CapiTypes) /\ AddTypeElement(d, <<f>>)
    BY <1>9 DEF TypeAddStructField
  <2>2. CapiExact(capiTypes', capiLists')
    BY <2>1, FieldAddSteps
  <2> QED
    BY <1>3, <1>4, <2>2, Zenon
<1>10. ASSUME NEW d \in CapiTypes, NEW f \in CapiTypes, TypeAddStructArrayField(d, f, CapiArgMax)
       PROVE  CapiExact(types2, lists2)
  <2>1. PICK n \in 1..CapiArgMax : AddTypeElement(d, [i \in 1..n |-> f])
    BY <1>10 DEF TypeAddStructArrayField
  <2>2. [i \in 1..n |-> f] \in Seq(CapiTypes)
    <3>1. n \in Nat
      OBVIOUS
    <3>2. \A i \in 1..n : f \in CapiTypes
      OBVIOUS
    <3> QED
      BY <3>1, <3>2, SeqDef
  <2>3. CapiExact(capiTypes', capiLists')
    BY <2>1, <2>2, FieldAddSteps
  <2> QED
    BY <1>3, <1>4, <2>3, Zenon
<1>11. ASSUME NEW l \in CapiLists, CallNew(l) PROVE CapiExact(types2, lists2)
  <2>1. types2 = types
    BY <1>1, <1>3, <1>11 DEF CallNew
  <2>2. ListLive(lists2, lists, l)
    BY <1>2, <1>4, <1>11 DEF CallNew, ListLive
  <2> QED
    BY <1>5, <2>1, <2>2, CallNewExact
<1>12. ASSUME NEW l \in CapiLists, CallClearArguments(l) PROVE CapiExact(types2, lists2)
  <2>1. types2 = TypeRelease(types, lists[l].args)
    BY <1>1, <1>2, <1>3, <1>12 DEF CallClearArguments
  <2>2. ListArgs(lists2, lists, l, <<>>)
    BY <1>2, <1>4, <1>12 DEF CallClearArguments, ListArgs
  <2>3. CapiExact(TypeRelease(types, lists[l].args), lists2)
    BY <1>5, <2>2, ArgsClearedExact
  <2> QED
    BY <2>1, <2>3, Zenon
<1>13. ASSUME NEW l \in CapiLists, CallFree(l) PROVE CapiExact(types2, lists2)
  <2>1. types2 = TypeRelease(types, lists[l].args \o lists[l].return)
    BY <1>1, <1>2, <1>3, <1>13 DEF CallFree
  <2>2. ListGone(lists2, lists, l)
    BY <1>2, <1>4, <1>13 DEF CallFree, ListGone
  <2>3. CapiExact(TypeRelease(types, lists[l].args \o lists[l].return), lists2)
    BY <1>5, <2>2, CallFreedExact
  <2> QED
    BY <2>1, <2>3, Zenon
<1>14. \A l \in CapiLists : lists[l].args \in Seq(CapiTypes) /\ Len(lists[l].args) <= CapiArgMax
  BY <1>5 DEF CapiListsOK, CapiListRecords
<1>15. ASSUME NEW l \in CapiLists, NEW d \in CapiTypes, AddAggregateArgument(l, d) PROVE CapiExact(types2, lists2)
  <2>1. PICK q \in Seq(CapiTypes) : q = lists[l].args
    BY <1>14
  <2>2. PICK r \in Seq(CapiTypes) : r = <<d>>
    <3>1. <<d>> \in Seq(CapiTypes)
      OBVIOUS
    <3> QED
      BY <3>1, Zenon
  <2>3. Append(q, d) = q \o r
    BY <2>2, AppendIsConcat
  <2>4. types2 = TypeRetain(types, r)
    BY <1>1, <1>3, <1>15, <2>2 DEF AddAggregateArgument
  <2>5. ListArgs(lists2, lists, l, q \o r)
    BY <1>2, <1>4, <1>15, <2>1, <2>3 DEF AddAggregateArgument, ListArgs
  <2>6. Len(q) + Len(r) <= CapiArgMax
    <3>1. Len(q) < CapiArgMax /\ Len(q) \in Nat /\ CapiArgMax \in Nat
      BY <1>2, <1>15, <2>1, CapiAssumption DEF AddAggregateArgument
    <3>2. Len(r) = 1
      BY <2>2
    <3> QED
      BY <3>1, <3>2
  <2>7. CapiExact(TypeRetain(types, r), lists2)
    BY <1>5, <2>1, <2>5, <2>6, ArgsTakenExact
  <2> QED
    BY <2>4, <2>7, Zenon
<1>16. ASSUME NEW l \in CapiLists, NEW from \in CapiLists, CallAppendArgs(l, from) PROVE CapiExact(types2, lists2)
  <2>1. PICK n \in 0..Len(lists[from].args) :
          /\ Len(lists[l].args) + n <= CapiArgMax
          /\ lists2 = [lists EXCEPT ![l].args = @ \o SubSeq(lists[from].args, 1, n)]
          /\ types2 = TypeRetain(types, SubSeq(lists[from].args, 1, n))
    BY <1>1, <1>2, <1>3, <1>4, <1>16 DEF CallAppendArgs
  <2>2. PICK p \in Seq(CapiTypes) : p = lists[from].args
    BY <1>14
  <2>3. PICK r : r = SubSeq(p, 1, n)
    OBVIOUS
  <2>4. r \in Seq(CapiTypes) /\ Len(r) = n
    <3>1. n \in Nat /\ n <= Len(p) /\ Len(p) \in Nat
      BY <2>2
    <3>2. \A i \in 1..n : i \in 1..Len(p)
      BY <3>1
    <3> QED
      BY <2>3, <3>1, <3>2
  <2>5. ListArgs(lists2, lists, l, lists[l].args \o r)
    BY <1>5, <2>1, <2>2, <2>3 DEF ListArgs
  <2>6. Len(lists[l].args) + Len(r) <= CapiArgMax
    BY <2>1, <2>4
  <2>7. CapiExact(TypeRetain(types, r), lists2)
    BY <1>5, <2>4, <2>5, <2>6, ArgsTakenExact
  <2> QED
    BY <2>1, <2>2, <2>3, <2>7
<1>17. ASSUME NEW l \in CapiLists, NEW d \in CapiTypes, CallSetReturnStruct(l, d) PROVE CapiExact(types2, lists2)
  <2>1. types2 = TypeRetain(TypeRelease(types, lists[l].return), <<d>>)
    BY <1>1, <1>2, <1>3, <1>17 DEF CallSetReturnStruct
  <2>2. ListReturn(lists2, lists, l, <<d>>)
    BY <1>2, <1>4, <1>17 DEF CallSetReturnStruct, ListReturn
  <2>3. CapiExact(TypeRetain(TypeRelease(types, lists[l].return), <<d>>), lists2)
    BY <1>5, <2>2, ReturnSetExact
  <2> QED
    BY <2>1, <2>3, Zenon
<1> QED
  BY <1>6, <1>7, <1>8, <1>9, <1>10, <1>11, <1>12, <1>13, <1>15, <1>16, <1>17 DEF CapiTypesNext

CapiEvents == EventsOnce(capiQueue, capiPending, capiCapture, capiEvents, capiTaken)

LEMMA CapiCallbackSteps == CapiInv /\ CapiCallbackNext => CapiEvents'
<1> SUFFICES ASSUME CapiInv, CapiCallbackNext PROVE CapiEvents'
  OBVIOUS
<1>1. PICK queue, pending : queue = capiQueue /\ pending = capiPending
  OBVIOUS
<1>2. PICK capture, events, taken : capture = capiCapture /\ events = capiEvents /\ taken = capiTaken
  OBVIOUS
<1>3. EventsOnce(queue, pending, capture, events, taken)
  BY <1>1, <1>2 DEF CapiInv
<1>4. PICK queue2, pending2 : queue2 = capiQueue' /\ pending2 = capiPending'
  OBVIOUS
<1>5. PICK capture2, events2, taken2 : capture2 = capiCapture' /\ events2 = capiEvents' /\ taken2 = capiTaken'
  OBVIOUS
<1> SUFFICES EventsOnce(queue2, pending2, capture2, events2, taken2)
  BY <1>4, <1>5 DEF CapiEvents
<1>6. CASE CallbackBuild
  <2>1. queue2 = queue /\ pending2 = pending /\ capture2 = capture /\ events2 = events /\ taken2 = taken
    BY <1>1, <1>2, <1>4, <1>5, <1>6 DEF CallbackBuild
  <2> QED
    BY <1>3, <2>1
<1>7. CASE CallbackNext
  <2>1. /\ queue # <<>> /\ queue2 = Tail(queue) /\ pending2 = IF pending > 0 THEN pending - 1 ELSE 0
        /\ taken2 = taken \cup {Head(queue)} /\ capture2 = capture /\ events2 = events
    BY <1>1, <1>2, <1>4, <1>5, <1>7 DEF CallbackNext
  <2>2. EventsOnce(Tail(queue), IF pending > 0 THEN pending - 1 ELSE 0, capture, events, taken \cup {Head(queue)})
    BY <1>3, <2>1, EventTaken
  <2> QED
    BY <2>1, <2>2, Zenon
<1>8. CASE CallbackFree
  <2>1. queue2 = <<>> /\ pending2 = 0 /\ capture2 = capture /\ events2 = events /\ taken2 = taken
    BY <1>1, <1>2, <1>4, <1>5, <1>8 DEF CallbackFree
  <2>2. <<>> \in Seq(1..events) /\ Len(<<>>) = 0 /\ \A i \in 1..0 : FALSE
    OBVIOUS
  <2>3. /\ events \in Nat /\ capture \in [CapiThreads -> 0..events] /\ taken \in SUBSET (1..events)
        /\ \A t \in CapiThreads : capture[t] \notin taken
    BY <1>3 DEF EventsOnce
  <2>4. \A t, u \in CapiThreads : capture[t] = capture[u] /\ capture[t] # 0 => t = u
    BY <1>3 DEF EventsOnce
  <2>5. EventsOnce(<<>>, 0, capture, events, taken)
    BY <2>2, <2>3, <2>4 DEF EventsOnce
  <2> QED
    BY <2>1, <2>5
<1>9. ASSUME NEW t \in CapiThreads, DispatchCapture(t) PROVE EventsOnce(queue2, pending2, capture2, events2, taken2)
  <2>1. /\ capture[t] = 0 /\ capture2 = [capture EXCEPT ![t] = events + 1] /\ events2 = events + 1
        /\ queue2 = queue /\ pending2 = pending /\ taken2 = taken
    BY <1>1, <1>2, <1>4, <1>5, <1>9 DEF DispatchCapture
  <2>2. EventsOnce(queue, pending, [capture EXCEPT ![t] = events + 1], events + 1, taken)
    BY <1>3, <2>1, EventCaptured
  <2> QED
    BY <2>1, <2>2, Zenon
<1>10. ASSUME NEW t \in CapiThreads, DispatchAppend(t) PROVE EventsOnce(queue2, pending2, capture2, events2, taken2)
  <2>1. /\ capture[t] # 0 /\ queue2 = Append(queue, capture[t]) /\ pending2 = pending + 1
        /\ capture2 = [capture EXCEPT ![t] = 0] /\ events2 = events /\ taken2 = taken
    BY <1>1, <1>2, <1>4, <1>5, <1>10 DEF DispatchAppend
  <2>2. EventsOnce(Append(queue, capture[t]), pending + 1, [capture EXCEPT ![t] = 0], events, taken)
    BY <1>3, <2>1, EventAppended
  <2> QED
    BY <2>1, <2>2, Zenon
<1>11. ASSUME NEW e \in capiTaken, EventFree(e) PROVE EventsOnce(queue2, pending2, capture2, events2, taken2)
  <2>1. /\ taken2 = taken \ {e} /\ queue2 = queue /\ pending2 = pending /\ capture2 = capture /\ events2 = events
    BY <1>1, <1>2, <1>4, <1>5, <1>11 DEF EventFree
  <2>2. EventsOnce(queue, pending, capture, events, taken \ {e})
    BY <1>3 DEF EventsOnce
  <2> QED
    BY <2>1, <2>2, Zenon
<1> QED
  BY <1>6, <1>7, <1>8, <1>9, <1>10, <1>11 DEF CapiCallbackNext

(* What the invariant says of the state is what the properties say. *)
LEMMA CapiMeans == CapiInv => CapiOwnership
<1> SUFFICES ASSUME CapiInv PROVE CapiOwnership
  OBVIOUS
<1>1. PICK types : types = capiTypes
  OBVIOUS
<1>2. PICK lists : lists = capiLists
  OBVIOUS
<1>3. CapiExact(types, lists)
  BY <1>1, <1>2 DEF CapiInv
<1>4. ASSUME NEW d \in CapiTypes
      PROVE  types[d].count = (IF types[d].held THEN 1 ELSE 0) + Cardinality(CapiFields(d))
                                + Cardinality(CapiArguments(d)) + Cardinality(CapiReturns(d))
  <2>1. CapiFields(d) = FieldsTo(types, d)
    BY <1>1 DEF CapiFields, FieldsTo, PlacesIn, FieldOccurrences, CapiFieldPlaces
  <2>2. CapiArguments(d) = ArgsTo(lists, d)
    BY <1>2 DEF CapiArguments, ArgsTo, PlacesIn, ArgOccurrences
  <2>3. CapiReturns(d) = ReturnsTo(lists, d)
    BY <1>2 DEF CapiReturns, ReturnsTo
  <2>4. CapiListsOK(lists) /\ CapiTypesOK(types) /\ types[d].count = OwedTo(types, OwedBy(lists), <<>>, d)
    BY <1>3 DEF CapiExact, ReleaseOK, Balanced
  <2>5. PICK h \in Nat, f \in Nat, a \in Nat, r \in Nat :
          /\ h = HeldOne(types[d]) /\ f = Cardinality(FieldsTo(types, d))
          /\ a = Cardinality(ArgsTo(lists, d)) /\ r = Cardinality(ReturnsTo(lists, d))
    <3>1. HeldOne(types[d]) \in Nat
      BY DEF HeldOne
    <3>2. Cardinality(FieldsTo(types, d)) \in Nat
      BY <2>4, FieldsCounted
    <3>3. Cardinality(ArgsTo(lists, d)) \in Nat /\ Cardinality(ReturnsTo(lists, d)) \in Nat
      BY <2>4, OwedIs
    <3> QED
      BY <3>1, <3>2, <3>3
  <2>6. Cardinality(CapiOccurrences(<<>>, d)) = 0 /\ OwedBy(lists)[d] = a + r
    BY <2>5, OccurrencesNone DEF OwedBy
  <2>7. OwedTo(types, OwedBy(lists), <<>>, d) = h + f + (a + r) + 0
    BY <2>5, <2>6 DEF OwedTo
  <2>8. h + f + (a + r) + 0 = h + f + a + r
    OBVIOUS
  <2>9. h = IF types[d].held THEN 1 ELSE 0
    BY <2>5 DEF HeldOne
  <2> QED
    BY <2>1, <2>2, <2>3, <2>4, <2>5, <2>7, <2>8, <2>9
<1>5. CapiRefsExact
  BY <1>1, <1>4 DEF CapiRefsExact
<1>6. /\ capiQueue \in Seq(1..capiEvents) /\ capiPending = Len(capiQueue)
      /\ \A i, j \in 1..Len(capiQueue) : capiQueue[i] = capiQueue[j] => i = j
      /\ \A i \in 1..Len(capiQueue) : capiQueue[i] \notin capiTaken /\ \A t \in CapiThreads : capiQueue[i] # capiCapture[t]
      /\ \A t \in CapiThreads : capiCapture[t] \notin capiTaken
  BY DEF CapiInv, EventsOnce
<1>7. DOMAIN capiQueue = 1..Len(capiQueue)
  BY <1>6
<1>8. IsInjective(capiQueue)
  BY <1>6, <1>7 DEF IsInjective
<1>9. \A x \in Range(capiQueue) : x \notin capiTaken /\ \A t \in CapiThreads : x # capiCapture[t]
  BY <1>6, <1>7 DEF Range
<1>10. CapiEventsOnce
  BY <1>6, <1>8, <1>9 DEF CapiEventsOnce
<1> QED
  BY <1>5, <1>10 DEF CapiOwnership

(* The descriptors of C structures are freed with their last reference and not  *)
(* before, whatever the program frees first, and each event of the callback is  *)
(* handed out at most once (uxcapi.c).                                       *)
THEOREM CapiAlwaysOwned == CapiSpec => []CapiOwnership
<1>1. ASSUME CapiInv, [CapiTypesNext \/ CapiCallbackNext]_capiVars PROVE CapiInv'
  <2>1. CASE CapiTypesNext
    <3>1. CapiExact(capiTypes', capiLists')
      BY <1>1, <2>1, CapiTypesSteps
    <3>2. UNCHANGED capiCallback
      BY <2>1 DEF CapiTypesNext, TypeStructNew, TypeFinalize, TypeFree, TypeAddStructField, TypeAddStructArrayField,
                  AddTypeElement, CallNew, CallClearArguments, CallFree, AddAggregateArgument, CallSetReturnStruct,
                  CallAppendArgs
    <3> QED
      BY <1>1, <3>1, <3>2 DEF CapiInv, capiCallback
  <2>2. CASE CapiCallbackNext
    <3>1. CapiEvents'
      BY <1>1, <2>2, CapiCallbackSteps
    <3>2. UNCHANGED capiRefs
      BY <2>2 DEF CapiCallbackNext, CallbackBuild, CallbackNext, CallbackFree, DispatchCapture, DispatchAppend, EventFree
    <3> QED
      BY <1>1, <3>1, <3>2 DEF CapiInv, CapiEvents, capiRefs
  <2>3. CASE UNCHANGED capiVars
    BY <1>1, <2>3 DEF CapiInv, capiVars, capiRefs, capiCallback
  <2> QED
    BY <1>1, <2>1, <2>2, <2>3
<1> QED
  BY <1>1, CapiStarts, CapiMeans, PTL DEF CapiSpec

=============================================================================
