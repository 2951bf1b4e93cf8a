-------------------------- MODULE CollectionProofs --------------------------
(* Theorems about what keeps values for the program, for any values and any   *)
(* lengths: LIST, DICT, SET and arrays of the native run time, and of the     *)
(* libraries the buffers of numbers, the ordered hashes and the queues.  They *)
(* share no state.  The lemmas about sequences are those of NativeProofs.     *)
EXTENDS NativeProofs, Collections, UxBuffers, UxCollections

-----------------------------------------------------------------------------
(* Collections: sequences, and the first place of a key *)

LEMMA LeastIs ==
  ASSUME NEW T \in SUBSET Nat, T # {}
  PROVE  Min(T) \in T
<1>1. PICK n \in T : \A m \in T : n <= m
  BY LeastNumber
<1>2. \E x \in T : \A y \in T : x <= y
  BY <1>1
<1>3. Min(T) = CHOOSE x \in T : \A y \in T : x <= y
  BY DEF Min
<1> QED
  BY <1>2, <1>3

LEMMA KeyIndexIs ==
  ASSUME NEW S, NEW c, c.keys \in Seq(S), NEW key
  PROVE  \/ KeyIndex(c, key) = -1 /\ \A i \in 1..Len(c.keys) : c.keys[i] # key
         \/ KeyIndex(c, key) \in 0..(Len(c.keys) - 1) /\ c.keys[KeyIndex(c, key) + 1] = key
<1>1. Len(c.keys) \in Nat
  OBVIOUS
<1> DEFINE found == {i \in 1..Len(c.keys) : c.keys[i] = key}
<1>2. KeyIndex(c, key) = (IF found # {} THEN Min(found) ELSE 0) - 1
  BY DEF KeyIndex, SelectInSeq
<1>3. CASE found = {}
  BY <1>2, <1>3
<1>4. CASE found # {}
  <2>1. found \in SUBSET Nat
    BY <1>1
  <2>2. PICK m \in found : m = Min(found)
    BY <1>4, <2>1, LeastIs
  <2>3. m \in 1..Len(c.keys) /\ c.keys[m] = key
    BY <2>2
  <2>4. KeyIndex(c, key) = m - 1
    BY <1>2, <1>4, <2>2
  <2> HIDE DEF found
  <2>5. m - 1 \in 0..(Len(c.keys) - 1) /\ (m - 1) + 1 = m
    BY <1>1, <2>3
  <2> QED
    BY <2>3, <2>4, <2>5
<1> QED
  BY <1>3, <1>4

LEMMA WithoutIs ==
  ASSUME NEW S, NEW s \in Seq(S), NEW i \in 0..(Len(s) - 1)
  PROVE  /\ WithoutPosition(s, i) \in Seq(S) /\ Len(WithoutPosition(s, i)) = Len(s) - 1
         /\ \A p \in 1..(Len(s) - 1) : WithoutPosition(s, i)[p] = s[IF p <= i THEN p ELSE p + 1]
<1>1. PICK n \in Nat : n = Len(s)
  OBVIOUS
<1>2. i \in Int /\ n \in Int /\ i + 2 \in Int /\ 1 \in Int /\ i <= n - 1 /\ i >= 0
  BY <1>1
<1>3. PICK a : a = SubSeq(s, 1, i)
  OBVIOUS
<1>4. a \in Seq(S) /\ Len(a) = i /\ \A p \in 1..i : a[p] = s[p]
  <2>1. \A j \in 1..i : s[j] \in S
    BY <1>1, <1>2, ElementOfSeq
  <2>2. /\ SubSeq(s, 1, i) \in Seq(S)
        /\ Len(SubSeq(s, 1, i)) = IF 1 <= i THEN i - 1 + 1 ELSE 0
        /\ \A p \in 1..(i - 1 + 1) : SubSeq(s, 1, i)[p] = s[1 + p - 1]
    BY <1>2, <2>1, SubSeqProperties
  <2> QED
    BY <1>2, <1>3, <2>2
<1>5. PICK b : b = SubSeq(s, i + 2, n)
  OBVIOUS
<1>6. b \in Seq(S) /\ Len(b) = n - i - 1 /\ \A p \in 1..(n - i - 1) : b[p] = s[i + p + 1]
  <2>1. \A j \in (i + 2)..n : s[j] \in S
    BY <1>1, <1>2, ElementOfSeq
  <2>2. /\ SubSeq(s, i + 2, n) \in Seq(S)
        /\ Len(SubSeq(s, i + 2, n)) = IF i + 2 <= n THEN n - (i + 2) + 1 ELSE 0
        /\ \A p \in 1..(n - (i + 2) + 1) : SubSeq(s, i + 2, n)[p] = s[(i + 2) + p - 1]
    BY <1>2, <2>1, SubSeqProperties
  <2>3. n - (i + 2) + 1 = n - i - 1 /\ \A p \in 1..(n - i - 1) : (i + 2) + p - 1 = i + p + 1
    BY <1>2
  <2>4. Len(b) = n - i - 1
    BY <1>2, <1>5, <2>2
  <2> QED
    BY <1>5, <2>2, <2>3, <2>4
<1>7. WithoutPosition(s, i) = a \o b
  BY <1>1, <1>3, <1>5 DEF WithoutPosition
<1>8. /\ a \o b \in Seq(S) /\ Len(a \o b) = Len(a) + Len(b)
      /\ \A p \in 1..(Len(a) + Len(b)) : (a \o b)[p] = IF p <= Len(a) THEN a[p] ELSE b[p - Len(a)]
  BY <1>4, <1>6, ConcatProperties
<1>9. Len(a) + Len(b) = n - 1
  BY <1>2, <1>4, <1>6
<1>10. ASSUME NEW p \in 1..(n - 1) PROVE (a \o b)[p] = s[IF p <= i THEN p ELSE p + 1]
  <2>1. CASE p <= i
    <3>1. p \in 1..i /\ p \in 1..(Len(a) + Len(b)) /\ p <= Len(a)
      BY <1>2, <1>4, <1>9, <2>1
    <3> QED
      BY <1>4, <1>8, <2>1, <3>1
  <2>2. CASE ~(p <= i)
    <3>1. PICK q \in 1..(n - i - 1) : q = p - i /\ i + q + 1 = p + 1
      BY <1>2, <2>2
    <3>2. p \in 1..(Len(a) + Len(b)) /\ ~(p <= Len(a)) /\ p - Len(a) = q
      BY <1>4, <1>9, <2>2, <3>1
    <3>3. (a \o b)[p] = b[q]
      BY <1>8, <3>2
    <3>4. b[q] = s[p + 1]
      BY <1>6, <3>1
    <3> QED
      BY <2>2, <3>3, <3>4
  <2> QED
    BY <2>1, <2>2
<1> QED
  BY <1>1, <1>7, <1>8, <1>9, <1>10

-----------------------------------------------------------------------------
(* Collections: what a table entry is, and what an operation makes of it *)

CoRecords == [kind : {"LIST", "DICT", "SET"}, values : Seq(CoTagged), keys : Seq(CoKeys)]

(* The keys are those that are held, each once. *)
KeysOK(keys, held) ==
  /\ held = {keys[i] : i \in 1..Len(keys)}
  /\ \A i, j \in 1..Len(keys) : keys[i] = keys[j] => i = j

CollectionOK(c, e) ==
  /\ c \in CoRecords
  /\ c.kind = "LIST" => c.keys = <<>> /\ e = c.values
  /\ c.kind # "LIST" => KeysOK(c.keys, DOMAIN e)
  /\ c.kind = "DICT" =>
       Len(c.values) = Len(c.keys) /\ \A i \in 1..Len(c.keys) : e[c.keys[i]] = c.values[i]
  /\ c.kind = "SET" => c.values = <<>>

CoTablesOK(cs, es) ==
  /\ cs \in Seq(CoRecords) /\ \E T : es \in Seq(T)
  /\ Len(es) = Len(cs)
  /\ \A h \in 1..Len(cs) : CollectionOK(cs[h], es[h])

CoRecord(kind, values, keys) == [kind |-> kind, values |-> values, keys |-> keys]

LEMMA CoRecordIs ==
  ASSUME NEW c \in CoRecords
  PROVE  /\ c = CoRecord(c.kind, c.values, c.keys)
         /\ c.kind \in {"LIST", "DICT", "SET"} /\ c.values \in Seq(CoTagged) /\ c.keys \in Seq(CoKeys)
         /\ Len(c.values) \in Nat /\ Len(c.keys) \in Nat
BY DEF CoRecords, CoRecord

LEMMA CoRecordOf ==
  ASSUME NEW kind \in {"LIST", "DICT", "SET"}, NEW values \in Seq(CoTagged), NEW keys \in Seq(CoKeys),
         NEW c, c = CoRecord(kind, values, keys)
  PROVE  c \in CoRecords /\ c.kind = kind /\ c.values = values /\ c.keys = keys
BY DEF CoRecords, CoRecord

LEMMA RecordFields ==
  ASSUME NEW kind, NEW values, NEW keys
  PROVE  /\ CoRecord(kind, values, keys).kind = kind
         /\ CoRecord(kind, values, keys).values = values
         /\ CoRecord(kind, values, keys).keys = keys
BY DEF CoRecord

LEMMA RecordValues ==
  ASSUME NEW kind, NEW values, NEW keys, NEW x
  PROVE  [CoRecord(kind, values, keys) EXCEPT !.values = x] = CoRecord(kind, x, keys)
BY DEF CoRecord

LEMMA RecordKeys ==
  ASSUME NEW kind, NEW values, NEW keys, NEW x
  PROVE  [CoRecord(kind, values, keys) EXCEPT !.keys = x] = CoRecord(kind, values, x)
BY DEF CoRecord

LEMMA RecordEmpty ==
  ASSUME NEW kind, NEW values, NEW keys, NEW c, c = CoRecord(kind, values, keys)
  PROVE  [c EXCEPT !.values = <<>>, !.keys = <<>>] = CoRecord(kind, <<>>, <<>>)
<1>1. PICK a : a = [c EXCEPT !.values = <<>>]
  OBVIOUS
<1>2. a = CoRecord(kind, <<>>, keys)
  BY <1>1, RecordValues
<1>3. [a EXCEPT !.keys = <<>>] = CoRecord(kind, <<>>, <<>>)
  BY <1>2, RecordKeys
<1> QED
  BY <1>1, <1>3

LEMMA ListOK ==
  ASSUME NEW values \in Seq(CoTagged)
  PROVE  CollectionOK(CoRecord("LIST", values, <<>>), values)
<1>1. PICK c : c = CoRecord("LIST", values, <<>>)
  OBVIOUS
<1>2. c \in CoRecords /\ c.kind = "LIST" /\ c.values = values /\ c.keys = <<>>
  <2>1. PICK keys \in Seq(CoKeys) : keys = <<>>
    BY EmptySeq
  <2>2. PICK kind \in {"LIST", "DICT", "SET"} : kind = "LIST" /\ c = CoRecord(kind, values, keys)
    BY <1>1, <2>1
  <2> QED
    BY <2>1, <2>2 DEF CoRecords, CoRecord
<1> QED
  BY <1>1, <1>2 DEF CollectionOK

LEMMA EmptyOK ==
  ASSUME NEW kind \in {"LIST", "DICT", "SET"}
  PROVE  CollectionOK(CoRecord(kind, <<>>, <<>>), <<>>)
<1>1. PICK c : c = CoRecord(kind, <<>>, <<>>)
  OBVIOUS
<1>2. c \in CoRecords /\ c.kind = kind /\ c.values = <<>> /\ c.keys = <<>>
  <2>1. PICK keys \in Seq(CoKeys) : keys = <<>>
    BY EmptySeq
  <2>2. PICK values \in Seq(CoTagged) : values = <<>>
    BY EmptySeq
  <2>3. c = CoRecord(kind, values, keys)
    BY <1>1, <2>1, <2>2
  <2> QED
    BY <2>1, <2>2, <2>3 DEF CoRecords, CoRecord
<1>3. Len(<<>>) = 0 /\ DOMAIN <<>> = {} /\ 1..0 = {}
  OBVIOUS
<1>4. KeysOK(<<>>, DOMAIN <<>>)
  BY <1>3 DEF KeysOK
<1> QED
  BY <1>1, <1>2, <1>3, <1>4 DEF CollectionOK

DictOf(values, keys, e) ==
  Len(values) = Len(keys) /\ KeysOK(keys, DOMAIN e) /\ \A i \in 1..Len(keys) : e[keys[i]] = values[i]

LEMMA DictOK ==
  ASSUME NEW values \in Seq(CoTagged), NEW keys \in Seq(CoKeys), NEW e, DictOf(values, keys, e)
  PROVE  CollectionOK(CoRecord("DICT", values, keys), e)
<1>1. PICK c : c = CoRecord("DICT", values, keys)
  OBVIOUS
<1>2. c \in CoRecords /\ c.kind = "DICT" /\ c.values = values /\ c.keys = keys
  BY <1>1, CoRecordOf
<1> QED
  BY <1>1, <1>2 DEF CollectionOK, DictOf

LEMMA SetOK ==
  ASSUME NEW keys \in Seq(CoKeys), NEW e, KeysOK(keys, DOMAIN e)
  PROVE  CollectionOK(CoRecord("SET", <<>>, keys), e)
<1>1. PICK c : c = CoRecord("SET", <<>>, keys)
  OBVIOUS
<1>2. c \in CoRecords /\ c.kind = "SET" /\ c.values = <<>> /\ c.keys = keys
  <2>1. PICK values \in Seq(CoTagged) : values = <<>>
    BY EmptySeq
  <2>2. PICK kind \in {"LIST", "DICT", "SET"} : kind = "SET" /\ c = CoRecord(kind, values, keys)
    BY <1>1, <2>1
  <2> QED
    BY <2>1, <2>2 DEF CoRecords, CoRecord
<1> QED
  BY <1>1, <1>2 DEF CollectionOK

(* A new key comes at the end. *)
NewKey(keys, key) == \A i \in 1..Len(keys) : keys[i] # key

LEMMA KeyAdded ==
  ASSUME NEW S, NEW keys \in Seq(S), NEW held, KeysOK(keys, held), NEW key \in S, NewKey(keys, key)
  PROVE  KeysOK(Append(keys, key), held \cup {key})
<1>1. PICK n \in Nat : n = Len(keys)
  OBVIOUS
<1>10. PICK t : t = Append(keys, key)
  OBVIOUS
<1>2. /\ Len(t) = n + 1 /\ t[n + 1] = key
      /\ \A i \in 1..n : t[i] = keys[i] /\ keys[i] # key
  BY <1>1, <1>10, Appended DEF NewKey
<1>3. \A i \in 1..(n + 1) : i \in 1..n \/ i = n + 1
  OBVIOUS
<1>4. \A i \in 1..n : i \in 1..(n + 1)
  OBVIOUS
<1>5. n + 1 \in 1..(n + 1)
  OBVIOUS
<1>6. held \cup {key} = {t[i] : i \in 1..(n + 1)}
  <2>1. ASSUME NEW x \in held PROVE x \in {t[i] : i \in 1..(n + 1)}
    <3>1. PICK i \in 1..n : x = keys[i]
      BY <1>1 DEF KeysOK
    <3> QED
      BY <1>2, <1>4, <3>1
  <2>2. key \in {t[i] : i \in 1..(n + 1)}
    BY <1>2, <1>5
  <2>3. ASSUME NEW i \in 1..(n + 1) PROVE t[i] \in held \cup {key}
    <3>1. CASE i \in 1..n
      BY <1>1, <1>2, <3>1 DEF KeysOK
    <3>2. CASE i = n + 1
      BY <1>2, <3>2
    <3> QED
      BY <1>3, <3>1, <3>2
  <2> QED
    BY <2>1, <2>2, <2>3
<1>7. ASSUME NEW i \in 1..(n + 1), NEW j \in 1..(n + 1), t[i] = t[j] PROVE i = j
  <2>1. CASE i \in 1..n /\ j \in 1..n
    BY <1>1, <1>2, <1>7, <2>1 DEF KeysOK
  <2>2. CASE i = n + 1 /\ j \in 1..n
    BY <1>1, <1>2, <1>7, <2>2
  <2>3. CASE i \in 1..n /\ j = n + 1
    BY <1>1, <1>2, <1>7, <2>3
  <2> QED
    BY <1>3, <2>1, <2>2, <2>3
<1> QED
  BY <1>1, <1>10, <1>2, <1>6, <1>7 DEF KeysOK

(* The key at a place goes, and only that one. *)
LEMMA KeyTaken ==
  ASSUME NEW S, NEW keys \in Seq(S), NEW held, KeysOK(keys, held), NEW i \in 0..(Len(keys) - 1)
  PROVE  KeysOK(WithoutPosition(keys, i), held \ {keys[i + 1]})
<1>1. PICK n \in Nat : n = Len(keys) - 1 /\ Len(keys) = n + 1
  <2>1. Len(keys) \in Nat /\ Len(keys) # 0
    OBVIOUS
  <2> QED
    BY <2>1
<1>10. PICK t : t = WithoutPosition(keys, i)
  OBVIOUS
<1>2. i \in 0..n /\ Len(t) = n /\ \A p \in 1..n : t[p] = keys[IF p <= i THEN p ELSE p + 1]
  BY <1>1, <1>10, WithoutIs
<1> DEFINE From(p) == IF p <= i THEN p ELSE p + 1
<1>3. \A p \in 1..n : From(p) \in 1..(n + 1) /\ From(p) # i + 1 /\ t[p] = keys[From(p)]
  BY <1>2
<1>4. \A p, q \in 1..n : From(p) = From(q) => p = q
  BY <1>2
<1>5. ASSUME NEW q \in 1..(n + 1), q # i + 1 PROVE \E p \in 1..n : From(p) = q
  <2>1. CASE q <= i
    <3>1. q \in 1..n /\ From(q) = q
      BY <1>2, <2>1
    <3> QED
      BY <3>1
  <2>2. CASE ~(q <= i)
    <3>1. q - 1 \in 1..n /\ ~(q - 1 <= i) /\ (q - 1) + 1 = q
      BY <1>2, <1>5, <2>2
    <3>2. From(q - 1) = q
      BY <3>1
    <3> QED
      BY <3>1, <3>2
  <2> QED
    BY <2>1, <2>2
<1> HIDE DEF From
<1>6. held = {keys[j] : j \in 1..(n + 1)} /\ \A j, k \in 1..(n + 1) : keys[j] = keys[k] => j = k
  BY <1>1 DEF KeysOK
<1>7. i + 1 \in 1..(n + 1)
  BY <1>2
<1>8. held \ {keys[i + 1]} = {t[p] : p \in 1..n}
  <2>1. ASSUME NEW x \in held, x # keys[i + 1] PROVE x \in {t[p] : p \in 1..n}
    <3>1. PICK q \in 1..(n + 1) : x = keys[q]
      BY <1>6
    <3>2. q # i + 1
      BY <2>1, <3>1
    <3>3. PICK p \in 1..n : From(p) = q
      BY <1>5, <3>2
    <3>4. x = t[p]
      BY <1>3, <3>1, <3>3
    <3> QED
      BY <3>4
  <2>2. ASSUME NEW p \in 1..n PROVE t[p] \in held /\ t[p] # keys[i + 1]
    <3>1. From(p) \in 1..(n + 1) /\ From(p) # i + 1 /\ t[p] = keys[From(p)]
      BY <1>3
    <3> QED
      BY <1>6, <1>7, <3>1
  <2> QED
    BY <2>1, <2>2
<1>9. \A p, q \in 1..n : t[p] = t[q] => p = q
  BY <1>3, <1>4, <1>6
<1>11. PICK rest : rest = held \ {keys[i + 1]}
  OBVIOUS
<1>12. KeysOK(t, rest)
  BY <1>2, <1>8, <1>9, <1>11 DEF KeysOK
<1> QED
  BY <1>10, <1>11, <1>12

-----------------------------------------------------------------------------
(* Collections: the operations *)

LEMMA ListSetOK ==
  ASSUME NEW c, NEW e, CollectionOK(c, e), c.kind = "LIST", NEW i \in Positions(c.values), NEW v \in CoTagged
  PROVE  CollectionOK([c EXCEPT !.values[i + 1] = v], [p \in DOMAIN e |-> IF p = i + 1 THEN v ELSE e[p]])
<1>1. c \in CoRecords /\ c.keys = <<>> /\ e = c.values
  BY DEF CollectionOK
<1>2. c = CoRecord("LIST", c.values, <<>>) /\ c.values \in Seq(CoTagged) /\ Len(c.values) \in Nat
  BY <1>1, CoRecordIs
<1>3. PICK s \in Seq(CoTagged), n \in Nat : s = c.values /\ n = Len(s)
  BY <1>2
<1>4. i + 1 \in 1..n
  BY <1>3 DEF Positions
<1>5. PICK t : t = [c.values EXCEPT ![i + 1] = v] /\ t = [s EXCEPT ![i + 1] = v]
  BY <1>3
<1>6. t \in Seq(CoTagged)
  BY <1>3, <1>4, <1>5, ExceptSeq
<1>7. [c EXCEPT !.values[i + 1] = v] = CoRecord("LIST", t, <<>>)
  <2>1. [c EXCEPT !.values = t] = CoRecord("LIST", t, <<>>)
    BY <1>2, RecordValues
  <2> QED
    BY <1>5, <2>1
<1>8. [p \in DOMAIN e |-> IF p = i + 1 THEN v ELSE e[p]] = t
  <2>1. DOMAIN s = 1..n
    BY <1>3
  <2> QED
    BY <1>1, <1>3, <1>4, <1>5, <2>1
<1> QED
  BY <1>6, <1>7, <1>8, ListOK

LEMMA ListAddOK ==
  ASSUME NEW c, NEW e, CollectionOK(c, e), c.kind = "LIST", NEW v \in CoTagged
  PROVE  CollectionOK([c EXCEPT !.values = Append(@, v)], Append(e, v))
<1>1. c \in CoRecords /\ c.keys = <<>> /\ e = c.values
  BY DEF CollectionOK
<1>2. c = CoRecord("LIST", c.values, <<>>) /\ c.values \in Seq(CoTagged)
  BY <1>1, CoRecordIs
<1>3. PICK t \in Seq(CoTagged) : t = Append(c.values, v)
  BY <1>2, AppendProperties
<1>4. [c EXCEPT !.values = Append(@, v)] = CoRecord("LIST", t, <<>>)
  <2>1. [c EXCEPT !.values = t] = CoRecord("LIST", t, <<>>)
    BY <1>2, RecordValues
  <2> QED
    BY <1>3, <2>1
<1> QED
  BY <1>1, <1>3, <1>4, ListOK

LEMMA ListRemoveOK ==
  ASSUME NEW c, NEW e, CollectionOK(c, e), c.kind = "LIST", NEW i \in Positions(c.values)
  PROVE  CollectionOK([c EXCEPT !.values = WithoutPosition(@, i)],
                      [p \in 1..(Len(e) - 1) |-> e[IF p <= i THEN p ELSE p + 1]])
<1>1. c \in CoRecords /\ c.keys = <<>> /\ e = c.values
  BY DEF CollectionOK
<1>2. c = CoRecord("LIST", c.values, <<>>) /\ c.values \in Seq(CoTagged) /\ Len(c.values) \in Nat
  BY <1>1, CoRecordIs
<1>3. i \in 0..(Len(c.values) - 1)
  BY DEF Positions
<1>4. PICK t : t = WithoutPosition(c.values, i)
  OBVIOUS
<1>5. /\ t \in Seq(CoTagged) /\ Len(t) = Len(c.values) - 1
      /\ \A p \in 1..(Len(c.values) - 1) : t[p] = c.values[IF p <= i THEN p ELSE p + 1]
  BY <1>2, <1>3, <1>4, WithoutIs
<1>6. [c EXCEPT !.values = WithoutPosition(@, i)] = CoRecord("LIST", t, <<>>)
  <2>1. [c EXCEPT !.values = t] = CoRecord("LIST", t, <<>>)
    BY <1>2, RecordValues
  <2> QED
    BY <1>4, <2>1
<1>7. [p \in 1..(Len(e) - 1) |-> e[IF p <= i THEN p ELSE p + 1]] = t
  <2>1. t = [p \in 1..Len(t) |-> t[p]]
    BY <1>5
  <2> QED
    BY <1>1, <1>5, <2>1
<1> QED
  BY <1>5, <1>6, <1>7, ListOK

LEMMA ClearOK ==
  ASSUME NEW c, NEW e, CollectionOK(c, e)
  PROVE  CollectionOK([c EXCEPT !.values = <<>>, !.keys = <<>>], <<>>)
<1>1. c = CoRecord(c.kind, c.values, c.keys) /\ c.kind \in {"LIST", "DICT", "SET"}
  BY CoRecordIs DEF CollectionOK
<1>2. [c EXCEPT !.values = <<>>, !.keys = <<>>] = CoRecord(c.kind, <<>>, <<>>)
  <2>1. PICK kind, values, keys : kind = c.kind /\ c = CoRecord(kind, values, keys)
    BY <1>1
  <2> QED
    BY <2>1, RecordEmpty, Zenon
<1> QED
  BY <1>1, <1>2, EmptyOK

LEMMA DictSetOK ==
  ASSUME NEW c, NEW e, CollectionOK(c, e), c.kind = "DICT", NEW key \in CoKeys, NEW v \in CoTagged
  PROVE  CollectionOK(IF KeyIndex(c, key) >= 0 THEN [c EXCEPT !.values[KeyIndex(c, key) + 1] = v]
                      ELSE [c EXCEPT !.keys = Append(@, key), !.values = Append(@, v)],
                      Keyed(e, key, v))
<1>1. /\ c = CoRecord("DICT", c.values, c.keys) /\ c.values \in Seq(CoTagged) /\ c.keys \in Seq(CoKeys)
      /\ Len(c.keys) \in Nat
  BY CoRecordIs DEF CollectionOK
<1>2. PICK s \in Seq(CoTagged), keys \in Seq(CoKeys), n \in Nat :
        s = c.values /\ keys = c.keys /\ n = Len(keys)
  BY <1>1
<1>3. /\ Len(s) = n /\ KeysOK(keys, DOMAIN e) /\ \A i \in 1..n : e[keys[i]] = s[i]
      /\ c = CoRecord("DICT", s, keys)
  BY <1>1, <1>2 DEF CollectionOK
<1>4. PICK k : k = KeyIndex(c, key)
  OBVIOUS
<1>5. \/ k = -1 /\ \A i \in 1..n : keys[i] # key
      \/ k \in 0..(n - 1) /\ keys[k + 1] = key
  BY <1>1, <1>2, <1>4, KeyIndexIs
<1>6. PICK e2 : e2 = Keyed(e, key, v)
  OBVIOUS
<1>7. DOMAIN e2 = DOMAIN e \cup {key} /\ e2[key] = v /\ \A x \in DOMAIN e : x # key => e2[x] = e[x]
  BY <1>6 DEF Keyed
<1>8. \A i \in 1..n : keys[i] \in DOMAIN e
  BY <1>2, <1>3 DEF KeysOK
<1>9. CASE k \in 0..(n - 1) /\ keys[k + 1] = key
  <2>1. k + 1 \in 1..n /\ k >= 0
    BY <1>9
  <2>2. PICK t : t = [c.values EXCEPT ![k + 1] = v] /\ t = [s EXCEPT ![k + 1] = v]
    BY <1>2
  <2>3. t \in Seq(CoTagged) /\ Len(t) = n /\ \A i \in 1..n : t[i] = IF i = k + 1 THEN v ELSE s[i]
    <3>1. Len(s) = n /\ DOMAIN s = 1..n
      BY <1>3
    <3>2. PICK j \in 1..Len(s) : j = k + 1
      BY <2>1, <3>1
    <3>4. [s EXCEPT ![j] = v] \in Seq(CoTagged) /\ Len([s EXCEPT ![j] = v]) = Len(s)
      BY ExceptSeq
    <3>3. \A i \in 1..n : t[i] = IF i = k + 1 THEN v ELSE s[i]
      BY <2>2, <3>1
    <3> QED
      BY <2>2, <3>1, <3>2, <3>3, <3>4
  <2>4. [c EXCEPT !.values[k + 1] = v] = CoRecord("DICT", t, keys)
    <3>1. [c EXCEPT !.values = t] = CoRecord("DICT", t, keys)
      BY <1>3, RecordValues
    <3> QED
      BY <2>2, <3>1
  <2>5. DOMAIN e2 = DOMAIN e
    BY <1>7, <1>8, <1>9, <2>1
  <2>6. ASSUME NEW i \in 1..n PROVE e2[keys[i]] = t[i]
    <3>1. CASE i = k + 1
      BY <1>7, <1>9, <2>3, <3>1
    <3>2. CASE i # k + 1
      <4>1. keys[i] # key
        BY <1>2, <1>3, <1>9, <2>1, <3>2 DEF KeysOK
      <4> QED
        BY <1>3, <1>7, <1>8, <2>3, <3>2, <4>1
    <3> QED
      BY <3>1, <3>2
  <2>7. DictOf(t, keys, e2)
    BY <1>2, <1>3, <2>3, <2>5, <2>6 DEF DictOf
  <2>8. CollectionOK(CoRecord("DICT", t, keys), e2)
    BY <2>3, <2>7, DictOK
  <2> QED
    BY <1>4, <1>6, <2>1, <2>4, <2>8
<1>10. CASE k = -1 /\ \A i \in 1..n : keys[i] # key
  <2>1. ~(k >= 0)
    BY <1>10
  <2>2. PICK t, ks : t = Append(s, v) /\ ks = Append(keys, key)
    OBVIOUS
  <2>3. t \in Seq(CoTagged) /\ Len(t) = n + 1 /\ t[n + 1] = v /\ \A i \in 1..n : t[i] = s[i]
    BY <1>3, <2>2, Appended
  <2>4. ks \in Seq(CoKeys) /\ Len(ks) = n + 1 /\ ks[n + 1] = key /\ \A i \in 1..n : ks[i] = keys[i]
    BY <1>2, <2>2, Appended
  <2>5. [c EXCEPT !.keys = Append(@, key), !.values = Append(@, v)] = CoRecord("DICT", t, ks)
    <3>1. [c EXCEPT !.keys = ks, !.values = t] = CoRecord("DICT", t, ks)
      <4>1. PICK b : b = [c EXCEPT !.keys = ks]
        OBVIOUS
      <4>2. b = CoRecord("DICT", s, ks)
        BY <1>3, <4>1, RecordKeys
      <4>3. [b EXCEPT !.values = t] = CoRecord("DICT", t, ks)
        BY <4>2, RecordValues
      <4> QED
        BY <4>1, <4>3
    <3>2. ks = Append(c.keys, key) /\ t = Append(c.values, v)
      BY <1>2, <2>2
    <3> QED
      BY <3>1, <3>2
  <2>6. KeysOK(ks, DOMAIN e2)
    <3>1. NewKey(keys, key)
      BY <1>2, <1>10 DEF NewKey
    <3>2. KeysOK(Append(keys, key), DOMAIN e \cup {key})
      BY <1>3, <3>1, KeyAdded
    <3> QED
      BY <1>7, <2>2, <3>2
  <2>7. ASSUME NEW i \in 1..(n + 1) PROVE e2[ks[i]] = t[i]
    <3>1. CASE i = n + 1
      BY <1>7, <2>3, <2>4, <3>1
    <3>2. CASE i # n + 1
      <4>1. i \in 1..n
        BY <3>2
      <4>2. ks[i] = keys[i] /\ keys[i] # key /\ keys[i] \in DOMAIN e
        BY <1>8, <1>10, <2>4, <4>1
      <4> QED
        BY <1>3, <1>7, <2>3, <4>1, <4>2
    <3> QED
      BY <3>1, <3>2
  <2>8. DictOf(t, ks, e2)
    BY <2>3, <2>4, <2>6, <2>7 DEF DictOf
  <2>9. CollectionOK(CoRecord("DICT", t, ks), e2)
    BY <2>3, <2>4, <2>8, DictOK
  <2> QED
    BY <1>4, <1>6, <2>1, <2>5, <2>9
<1> QED
  BY <1>5, <1>9, <1>10

LEMMA SetAddOK ==
  ASSUME NEW c, NEW e, CollectionOK(c, e), c.kind = "SET", NEW key \in CoKeys
  PROVE  CollectionOK(IF KeyIndex(c, key) >= 0 THEN c ELSE [c EXCEPT !.keys = Append(@, key)],
                      Keyed(e, key, <<>>))
<1>1. PICK keys \in Seq(CoKeys) : keys = c.keys /\ c = CoRecord("SET", <<>>, keys) /\ KeysOK(keys, DOMAIN e)
  BY CoRecordIs DEF CollectionOK
<1>2. PICK k : k = KeyIndex(c, key)
  OBVIOUS
<1>3. \/ k = -1 /\ \A i \in 1..Len(keys) : keys[i] # key
      \/ k \in 0..(Len(keys) - 1) /\ keys[k + 1] = key
  BY <1>1, <1>2, KeyIndexIs
<1>4. DOMAIN Keyed(e, key, <<>>) = DOMAIN e \cup {key}
  BY DEF Keyed
<1>5. CASE k \in 0..(Len(keys) - 1) /\ keys[k + 1] = key
  <2>1. k >= 0 /\ k + 1 \in 1..Len(keys)
    BY <1>5
  <2>2. key \in DOMAIN e
    BY <1>1, <1>5, <2>1 DEF KeysOK
  <2>3. KeysOK(keys, DOMAIN Keyed(e, key, <<>>))
    <3>1. DOMAIN e \cup {key} = DOMAIN e
      BY <2>2
    <3> QED
      BY <1>1, <1>4, <3>1
  <2>4. CollectionOK(CoRecord("SET", <<>>, keys), Keyed(e, key, <<>>))
    BY <2>3, SetOK
  <2> QED
    BY <1>1, <1>2, <2>1, <2>4
<1>6. CASE k = -1 /\ \A i \in 1..Len(keys) : keys[i] # key
  <2>1. ~(k >= 0)
    BY <1>6
  <2>2. PICK ks \in Seq(CoKeys) : ks = Append(keys, key)
    BY AppendProperties
  <2>3. KeysOK(ks, DOMAIN Keyed(e, key, <<>>))
    <3>1. NewKey(keys, key)
      BY <1>6 DEF NewKey
    <3>2. KeysOK(Append(keys, key), DOMAIN e \cup {key})
      BY <1>1, <3>1, KeyAdded
    <3> QED
      BY <1>4, <2>2, <3>2
  <2>4. [c EXCEPT !.keys = Append(@, key)] = CoRecord("SET", <<>>, ks)
    <3>1. [c EXCEPT !.keys = ks] = CoRecord("SET", <<>>, ks)
      BY <1>1, RecordKeys
    <3> QED
      BY <1>1, <2>2, <3>1
  <2>5. CollectionOK(CoRecord("SET", <<>>, ks), Keyed(e, key, <<>>))
    BY <2>3, SetOK
  <2> QED
    BY <1>2, <2>1, <2>4, <2>5
<1> QED
  BY <1>3, <1>5, <1>6

LEMMA SetRemoveOK ==
  ASSUME NEW c, NEW e, CollectionOK(c, e), c.kind = "SET", NEW key \in CoKeys
  PROVE  CollectionOK(IF KeyIndex(c, key) < 0 THEN c
                      ELSE [c EXCEPT !.keys = WithoutPosition(@, KeyIndex(c, key))],
                      [k \in DOMAIN e \ {key} |-> e[k]])
<1>1. PICK keys \in Seq(CoKeys) : keys = c.keys /\ c = CoRecord("SET", <<>>, keys) /\ KeysOK(keys, DOMAIN e)
  BY CoRecordIs DEF CollectionOK
<1>2. PICK k : k = KeyIndex(c, key)
  OBVIOUS
<1>3. \/ k = -1 /\ \A i \in 1..Len(keys) : keys[i] # key
      \/ k \in 0..(Len(keys) - 1) /\ keys[k + 1] = key
  BY <1>1, <1>2, KeyIndexIs
<1>7. PICK e2 : e2 = [k2 \in DOMAIN e \ {key} |-> e[k2]]
  OBVIOUS
<1>4. DOMAIN e2 = DOMAIN e \ {key}
  BY <1>7
<1>5. CASE k \in 0..(Len(keys) - 1) /\ keys[k + 1] = key
  <2>1. ~(k < 0)
    BY <1>5
  <2>2. PICK ks \in Seq(CoKeys) : ks = WithoutPosition(keys, k)
    BY <1>5, WithoutIs
  <2>3. KeysOK(ks, DOMAIN e2)
    <3>1. KeysOK(WithoutPosition(keys, k), DOMAIN e \ {keys[k + 1]})
      BY <1>1, <1>5, KeyTaken
    <3> QED
      BY <1>4, <1>5, <2>2, <3>1
  <2>4. [c EXCEPT !.keys = WithoutPosition(@, k)] = CoRecord("SET", <<>>, ks)
    <3>1. [c EXCEPT !.keys = ks] = CoRecord("SET", <<>>, ks)
      BY <1>1, RecordKeys
    <3> QED
      BY <1>1, <2>2, <3>1
  <2>5. CollectionOK(CoRecord("SET", <<>>, ks), e2)
    BY <2>3, SetOK
  <2> QED
    BY <1>2, <1>7, <2>1, <2>4, <2>5
<1>6. CASE k = -1 /\ \A i \in 1..Len(keys) : keys[i] # key
  <2>1. k < 0
    BY <1>6
  <2>2. key \notin DOMAIN e
    BY <1>1, <1>6 DEF KeysOK
  <2>3. DOMAIN e \ {key} = DOMAIN e
    BY <2>2
  <2>4. CollectionOK(CoRecord("SET", <<>>, keys), e2)
    BY <1>1, <1>4, <2>3, SetOK
  <2> QED
    BY <1>1, <1>2, <1>7, <2>1, <2>4
<1> QED
  BY <1>3, <1>5, <1>6

-----------------------------------------------------------------------------
(* Collections: the tables *)

Put(s, h, x) == [s EXCEPT ![h] = x]

LEMMA TableChanged ==
  ASSUME NEW cs, NEW es, CoTablesOK(cs, es), NEW h \in 1..Len(cs), NEW c, NEW e, CollectionOK(c, e)
  PROVE  CoTablesOK(Put(cs, h, c), Put(es, h, e))
<1>1. cs \in Seq(CoRecords) /\ c \in CoRecords /\ h \in 1..Len(es)
  BY DEF CoTablesOK, CollectionOK
<1>2. PICK T : es \in Seq(T)
  BY DEF CoTablesOK
<1>3. PICK T2 : T2 = T \cup {e}
  OBVIOUS
<1>4. es \in Seq(T2) /\ e \in T2
  BY <1>2, <1>3, SeqMonotonic
<1>5. /\ Put(cs, h, c) \in Seq(CoRecords) /\ Len(Put(cs, h, c)) = Len(cs)
      /\ \A g \in 1..Len(cs) : Put(cs, h, c)[g] = IF g = h THEN c ELSE cs[g]
  BY <1>1, ExceptSeq DEF Put
<1>6. /\ Put(es, h, e) \in Seq(T2) /\ Len(Put(es, h, e)) = Len(es)
      /\ \A g \in 1..Len(es) : Put(es, h, e)[g] = IF g = h THEN e ELSE es[g]
  BY <1>1, <1>4, ExceptSeq DEF Put
<1>7. Len(es) = Len(cs) /\ \A g \in 1..Len(cs) : CollectionOK(cs[g], es[g])
  BY DEF CoTablesOK
<1>8. ASSUME NEW g \in 1..Len(cs) PROVE CollectionOK(Put(cs, h, c)[g], Put(es, h, e)[g])
  <2>1. CASE g = h
    BY <1>5, <1>6, <1>7, <2>1
  <2>2. CASE g # h
    BY <1>5, <1>6, <1>7, <2>2
  <2> QED
    BY <2>1, <2>2
<1> QED
  BY <1>5, <1>6, <1>7, <1>8 DEF CoTablesOK

LEMMA TableGrows ==
  ASSUME NEW cs, NEW es, CoTablesOK(cs, es), NEW c, NEW e, CollectionOK(c, e)
  PROVE  CoTablesOK(Append(cs, c), Append(es, e))
<1>1. cs \in Seq(CoRecords) /\ c \in CoRecords
  BY DEF CoTablesOK, CollectionOK
<1>2. PICK T : es \in Seq(T)
  BY DEF CoTablesOK
<1>3. PICK T2 : T2 = T \cup {e}
  OBVIOUS
<1>4. es \in Seq(T2) /\ e \in T2
  BY <1>2, <1>3, SeqMonotonic
<1>5. PICK n \in Nat : n = Len(cs)
  BY <1>1
<1>6. Len(es) = n /\ \A g \in 1..n : CollectionOK(cs[g], es[g])
  BY <1>5 DEF CoTablesOK
<1>7. PICK cs2 : cs2 = Append(cs, c)
  OBVIOUS
<1>8. PICK es2 : es2 = Append(es, e)
  OBVIOUS
<1>9. /\ cs2 \in Seq(CoRecords) /\ Len(cs2) = n + 1 /\ cs2[n + 1] = c
      /\ \A g \in 1..n : cs2[g] = cs[g]
  BY <1>1, <1>5, <1>7, Appended
<1>10. /\ es2 \in Seq(T2) /\ Len(es2) = n + 1 /\ es2[n + 1] = e
       /\ \A g \in 1..n : es2[g] = es[g]
  BY <1>4, <1>6, <1>8, Appended
<1>11. ASSUME NEW g \in 1..(n + 1) PROVE CollectionOK(cs2[g], es2[g])
  <2>1. CASE g = n + 1
    BY <1>9, <1>10, <2>1
  <2>2. CASE g # n + 1
    <3>1. g \in 1..n
      BY <2>2
    <3> QED
      BY <1>6, <1>9, <1>10, <3>1
  <2> QED
    BY <2>1, <2>2
<1>12. CoTablesOK(cs2, es2)
  BY <1>9, <1>10, <1>11 DEF CoTablesOK
<1> QED
  BY <1>7, <1>8, <1>12

LEMMA Collected ==
  ASSUME CoTablesOK(coCollections, coEntries), NEW h \in DOMAIN coCollections
  PROVE  h \in 1..Len(coCollections) /\ CollectionOK(coCollections[h], coEntries[h])
BY DEF CoTablesOK

LEMMA NewCollectionStep ==
  ASSUME CoTablesOK(coCollections, coEntries), NEW kind \in {"LIST", "DICT", "SET"}, NewCollection(kind)
  PROVE  CoTablesOK(coCollections, coEntries)'
<1>1. PICK c : c = CoRecord(kind, <<>>, <<>>)
  OBVIOUS
<1>2. PICK e : e = <<>>
  OBVIOUS
<1>3. CollectionOK(c, e)
  BY <1>1, <1>2, EmptyOK
<1>4. coCollections' = Append(coCollections, c) /\ coEntries' = Append(coEntries, e)
  BY <1>1, <1>2 DEF NewCollection, CoRecord
<1> QED
  BY <1>3, <1>4, TableGrows

LEMMA ListSetStep ==
  ASSUME CoTablesOK(coCollections, coEntries), NEW h, NEW i, NEW v \in CoTagged, ListSet(h, i, v)
  PROVE  CoTablesOK(coCollections, coEntries)'
<1>1. /\ h \in DOMAIN coCollections /\ coCollections[h].kind = "LIST"
      /\ i \in Positions(coCollections[h].values)
  BY DEF ListSet, CollectionAt
<1>2. PICK c : c = coCollections[h]
  OBVIOUS
<1>3. PICK e : e = coEntries[h]
  OBVIOUS
<1>4. h \in 1..Len(coCollections) /\ CollectionOK(c, e)
  BY <1>1, <1>2, <1>3, Collected
<1>5. PICK c2 : c2 = [c EXCEPT !.values[i + 1] = v]
  OBVIOUS
<1>6. PICK e2 : e2 = [p \in DOMAIN e |-> IF p = i + 1 THEN v ELSE e[p]]
  OBVIOUS
<1>7. CollectionOK(c2, e2)
  BY <1>1, <1>2, <1>4, <1>5, <1>6, ListSetOK
<1>8. coCollections' = Put(coCollections, h, c2) /\ coEntries' = Put(coEntries, h, e2)
  BY <1>2, <1>3, <1>5, <1>6 DEF ListSet, Changed, Put
<1> QED
  BY <1>4, <1>7, <1>8, TableChanged

LEMMA ListAddStep ==
  ASSUME CoTablesOK(coCollections, coEntries), NEW h, NEW v \in CoTagged, ListAdd(h, v)
  PROVE  CoTablesOK(coCollections, coEntries)'
<1>1. h \in DOMAIN coCollections /\ coCollections[h].kind = "LIST"
  BY DEF ListAdd, CollectionAt
<1>2. PICK c : c = coCollections[h]
  OBVIOUS
<1>3. PICK e : e = coEntries[h]
  OBVIOUS
<1>4. h \in 1..Len(coCollections) /\ CollectionOK(c, e)
  BY <1>1, <1>2, <1>3, Collected
<1>5. PICK c2 : c2 = [c EXCEPT !.values = Append(@, v)]
  OBVIOUS
<1>6. PICK e2 : e2 = Append(e, v)
  OBVIOUS
<1>7. CollectionOK(c2, e2)
  BY <1>1, <1>2, <1>4, <1>5, <1>6, ListAddOK
<1>8. coCollections' = Put(coCollections, h, c2) /\ coEntries' = Put(coEntries, h, e2)
  BY <1>2, <1>3, <1>5, <1>6 DEF ListAdd, Changed, Put
<1> QED
  BY <1>4, <1>7, <1>8, TableChanged

LEMMA ListRemoveStep ==
  ASSUME CoTablesOK(coCollections, coEntries), NEW h, NEW i, ListRemove(h, i)
  PROVE  CoTablesOK(coCollections, coEntries)'
<1>1. /\ h \in DOMAIN coCollections /\ coCollections[h].kind = "LIST"
      /\ i \in Positions(coCollections[h].values)
  BY DEF ListRemove, CollectionAt
<1>2. PICK c : c = coCollections[h]
  OBVIOUS
<1>3. PICK e : e = coEntries[h]
  OBVIOUS
<1>4. h \in 1..Len(coCollections) /\ CollectionOK(c, e)
  BY <1>1, <1>2, <1>3, Collected
<1>5. PICK c2 : c2 = [c EXCEPT !.values = WithoutPosition(@, i)]
  OBVIOUS
<1>6. PICK e2 : e2 = [p \in 1..(Len(e) - 1) |-> e[IF p <= i THEN p ELSE p + 1]]
  OBVIOUS
<1>7. CollectionOK(c2, e2)
  BY <1>1, <1>2, <1>4, <1>5, <1>6, ListRemoveOK
<1>8. coCollections' = Put(coCollections, h, c2) /\ coEntries' = Put(coEntries, h, e2)
  BY <1>2, <1>3, <1>5, <1>6 DEF ListRemove, Changed, Put
<1> QED
  BY <1>4, <1>7, <1>8, TableChanged

LEMMA ClearStep ==
  ASSUME CoTablesOK(coCollections, coEntries), NEW h, ClearCollection(h)
  PROVE  CoTablesOK(coCollections, coEntries)'
<1>1. h \in DOMAIN coCollections
  BY DEF ClearCollection
<1>2. PICK c : c = coCollections[h]
  OBVIOUS
<1>4. h \in 1..Len(coCollections) /\ CollectionOK(c, coEntries[h])
  BY <1>1, <1>2, Collected
<1>5. PICK c2 : c2 = [c EXCEPT !.values = <<>>, !.keys = <<>>]
  OBVIOUS
<1>6. PICK e2 : e2 = <<>>
  OBVIOUS
<1>7. CollectionOK(c2, e2)
  BY <1>4, <1>5, <1>6, ClearOK
<1>8. coCollections' = Put(coCollections, h, c2) /\ coEntries' = Put(coEntries, h, e2)
  BY <1>2, <1>5, <1>6 DEF ClearCollection, Changed, Put
<1> QED
  BY <1>4, <1>7, <1>8, TableChanged

LEMMA DictSetStep ==
  ASSUME CoTablesOK(coCollections, coEntries), NEW h, NEW key \in CoKeys, NEW v \in CoTagged, DictSet(h, key, v)
  PROVE  CoTablesOK(coCollections, coEntries)'
<1>1. h \in DOMAIN coCollections /\ coCollections[h].kind = "DICT"
  BY DEF DictSet, CollectionAt
<1>2. PICK c : c = coCollections[h]
  OBVIOUS
<1>3. PICK e : e = coEntries[h]
  OBVIOUS
<1>4. h \in 1..Len(coCollections) /\ CollectionOK(c, e)
  BY <1>1, <1>2, <1>3, Collected
<1>5. PICK c2 : c2 = IF KeyIndex(c, key) >= 0 THEN [c EXCEPT !.values[KeyIndex(c, key) + 1] = v]
                     ELSE [c EXCEPT !.keys = Append(@, key), !.values = Append(@, v)]
  OBVIOUS
<1>6. PICK e2 : e2 = Keyed(e, key, v)
  OBVIOUS
<1>7. CollectionOK(c2, e2)
  BY <1>1, <1>2, <1>4, <1>5, <1>6, DictSetOK
<1>8. coCollections' = Put(coCollections, h, c2) /\ coEntries' = Put(coEntries, h, e2)
  BY <1>2, <1>3, <1>5, <1>6 DEF DictSet, Changed, Put
<1> QED
  BY <1>4, <1>7, <1>8, TableChanged

LEMMA SetAddStep ==
  ASSUME CoTablesOK(coCollections, coEntries), NEW h, NEW key \in CoKeys, SetAdd(h, key)
  PROVE  CoTablesOK(coCollections, coEntries)'
<1>1. h \in DOMAIN coCollections /\ coCollections[h].kind = "SET"
  BY DEF SetAdd, CollectionAt
<1>2. PICK c : c = coCollections[h]
  OBVIOUS
<1>3. PICK e : e = coEntries[h]
  OBVIOUS
<1>4. h \in 1..Len(coCollections) /\ CollectionOK(c, e)
  BY <1>1, <1>2, <1>3, Collected
<1>5. PICK c2 : c2 = IF KeyIndex(c, key) >= 0 THEN c ELSE [c EXCEPT !.keys = Append(@, key)]
  OBVIOUS
<1>6. PICK e2 : e2 = Keyed(e, key, <<>>)
  OBVIOUS
<1>7. CollectionOK(c2, e2)
  BY <1>1, <1>2, <1>4, <1>5, <1>6, SetAddOK
<1>8. coCollections' = Put(coCollections, h, c2) /\ coEntries' = Put(coEntries, h, e2)
  BY <1>2, <1>3, <1>5, <1>6 DEF SetAdd, Changed, Put
<1> QED
  BY <1>4, <1>7, <1>8, TableChanged

LEMMA SetRemoveStep ==
  ASSUME CoTablesOK(coCollections, coEntries), NEW h, NEW key \in CoKeys, SetRemove(h, key)
  PROVE  CoTablesOK(coCollections, coEntries)'
<1>1. h \in DOMAIN coCollections /\ coCollections[h].kind = "SET"
  BY DEF SetRemove, CollectionAt
<1>2. PICK c : c = coCollections[h]
  OBVIOUS
<1>3. PICK e : e = coEntries[h]
  OBVIOUS
<1>4. h \in 1..Len(coCollections) /\ CollectionOK(c, e)
  BY <1>1, <1>2, <1>3, Collected
<1>5. PICK c2 : c2 = IF KeyIndex(c, key) < 0 THEN c
                     ELSE [c EXCEPT !.keys = WithoutPosition(@, KeyIndex(c, key))]
  OBVIOUS
<1>6. PICK e2 : e2 = [k \in DOMAIN e \ {key} |-> e[k]]
  OBVIOUS
<1>7. CollectionOK(c2, e2)
  BY <1>1, <1>2, <1>4, <1>5, <1>6, SetRemoveOK
<1>8. coCollections' = Put(coCollections, h, c2) /\ coEntries' = Put(coEntries, h, e2)
  BY <1>2, <1>3, <1>5, <1>6 DEF SetRemove, Changed, Put
<1> QED
  BY <1>4, <1>7, <1>8, TableChanged

-----------------------------------------------------------------------------
(* Collections: the array *)

ArrayRecord(lower, upper, block) == [lower |-> lower, upper |-> upper, block |-> block]

(* The block has a place for each subscript, and an element is at its distance. *)
BlockOK(lower, upper, block, el) ==
  /\ DOMAIN block = 0..(upper - lower) /\ DOMAIN el = lower..upper
  /\ \A s \in lower..upper : block[s - lower] = el[s]

ArrayOK(a, el) ==
  \E lower, upper \in Int : \E block :
    a = ArrayRecord(lower, upper, block) /\ BlockOK(lower, upper, block, el)

LEMMA ArrayRecordIs ==
  ASSUME NEW a, NEW lower, NEW upper, NEW block, a = ArrayRecord(lower, upper, block)
  PROVE  /\ a.lower = lower /\ a.upper = upper /\ a.block = block
         /\ \A x : [a EXCEPT !.block = x] = ArrayRecord(lower, upper, x)
BY DEF ArrayRecord

LEMMA LargerOf ==
  ASSUME NEW a \in Int, NEW b \in Int
  PROVE  Max({a, b}) = IF a >= b THEN a ELSE b
<1>1. \E x \in {a, b} : \A y \in {a, b} : x >= y
  OBVIOUS
<1>2. PICK m : m = Max({a, b})
  OBVIOUS
<1>3. m \in {a, b} /\ \A y \in {a, b} : m >= y
  BY <1>1, <1>2 DEF Max
<1> QED
  BY <1>2, <1>3

LEMMA SmallerOf ==
  ASSUME NEW a \in Int, NEW b \in Int
  PROVE  Min({a, b}) = IF a <= b THEN a ELSE b
<1>1. \E x \in {a, b} : \A y \in {a, b} : x <= y
  OBVIOUS
<1>2. PICK m : m = Min({a, b})
  OBVIOUS
<1>3. m \in {a, b} /\ \A y \in {a, b} : m <= y
  BY <1>1, <1>2 DEF Min
<1> QED
  BY <1>2, <1>3

LEMMA ArrayStoreStep ==
  ASSUME ArrayOK(coArray, coElements), NEW s, NEW v, ArrayStore(s, v)
  PROVE  ArrayOK(coArray, coElements)'
<1>1. PICK lower \in Int, upper \in Int : \E b :
        coArray = ArrayRecord(lower, upper, b) /\ BlockOK(lower, upper, b, coElements)
  BY DEF ArrayOK
<1>2. PICK block : coArray = ArrayRecord(lower, upper, block) /\ BlockOK(lower, upper, block, coElements)
  BY <1>1
<1>3. PICK a, el : a = coArray /\ el = coElements
  OBVIOUS
<1>4. a.lower = lower /\ a.upper = upper /\ a.block = block
  BY <1>2, <1>3, ArrayRecordIs
<1>5. s \in lower..upper
  BY <1>3, <1>4 DEF ArrayStore
<1>6. PICK block2 : block2 = [block EXCEPT ![s - lower] = v]
  OBVIOUS
<1>7. PICK el2 : el2 = [el EXCEPT ![s] = v]
  OBVIOUS
<1>8. BlockOK(lower, upper, block2, el2)
  <2>1. /\ DOMAIN block = 0..(upper - lower) /\ DOMAIN el = lower..upper
        /\ \A t \in lower..upper : block[t - lower] = el[t]
    BY <1>2, <1>3 DEF BlockOK
  <2>2. s - lower \in 0..(upper - lower)
    BY <1>5
  <2>3. DOMAIN block2 = 0..(upper - lower) /\ DOMAIN el2 = lower..upper
    BY <1>6, <1>7, <2>1
  <2>4. ASSUME NEW t \in lower..upper PROVE block2[t - lower] = el2[t]
    <3>1. t \in Int /\ t - lower \in 0..(upper - lower)
      OBVIOUS
    <3>2. CASE t = s
      BY <1>5, <1>6, <1>7, <2>1, <2>2, <3>2
    <3>3. CASE t # s
      <4>1. t - lower # s - lower
        BY <1>5, <3>1, <3>3
      <4>2. block2[t - lower] = block[t - lower]
        BY <1>6, <2>1, <3>1, <4>1
      <4>3. el2[t] = el[t]
        BY <1>7, <2>1, <3>3
      <4> QED
        BY <2>1, <4>2, <4>3
    <3> QED
      BY <3>2, <3>3
  <2> QED
    BY <2>3, <2>4 DEF BlockOK
<1>9. [a EXCEPT !.block = block2] = ArrayRecord(lower, upper, block2)
  BY <1>2, <1>3, ArrayRecordIs
<1>10. coArray' = ArrayRecord(lower, upper, block2) /\ coElements' = el2
  <2>1. coArray' = [a EXCEPT !.block[s - a.lower] = v] /\ coElements' = [el EXCEPT ![s] = v]
    BY <1>3 DEF ArrayStore
  <2>2. [a EXCEPT !.block[s - a.lower] = v] = [a EXCEPT !.block = block2]
    BY <1>4, <1>6
  <2> QED
    BY <1>7, <1>9, <2>1, <2>2
<1> QED
  BY <1>8, <1>10 DEF ArrayOK

LEMMA ArrayResizeStep ==
  ASSUME ArrayOK(coArray, coElements), NEW lower \in Int, NEW upper \in Int, NEW preserve,
         ArrayResize(lower, upper, preserve)
  PROVE  ArrayOK(coArray, coElements)'
<1>1. PICK al \in Int, au \in Int : \E b :
        coArray = ArrayRecord(al, au, b) /\ BlockOK(al, au, b, coElements)
  BY DEF ArrayOK
<1>2. PICK old : coArray = ArrayRecord(al, au, old) /\ BlockOK(al, au, old, coElements)
  BY <1>1
<1>3. PICK a, el : a = coArray /\ el = coElements
  OBVIOUS
<1>4. a.lower = al /\ a.upper = au /\ a.block = old
  BY <1>2, <1>3, ArrayRecordIs
<1>5. PICK lo \in Int : lo = Max({lower, a.lower}) /\ lo = IF lower >= al THEN lower ELSE al
  BY <1>4, LargerOf
<1>6. PICK hi \in Int : hi = Min({upper, a.upper}) /\ hi = IF upper <= au THEN upper ELSE au
  BY <1>4, SmallerOf
<1>7. PICK kept \in BOOLEAN : kept = (preserve /\ a # NoArray)
  OBVIOUS
<1>8. PICK block : block = [p \in 0..(upper - lower) |->
                     IF preserve /\ a # NoArray /\ p \in (lo - lower)..(hi - lower)
                     THEN a.block[lo - a.lower + p - (lo - lower)] ELSE 0]
  OBVIOUS
<1>9. PICK el2 : el2 = [s \in lower..upper |-> IF preserve /\ s \in DOMAIN el THEN el[s] ELSE 0]
  OBVIOUS
<1>10. coArray' = ArrayRecord(lower, upper, block) /\ coElements' = el2
  BY <1>3, <1>5, <1>6, <1>8, <1>9 DEF ArrayResize, ArrayRecord
<1>11. DOMAIN block = 0..(upper - lower) /\ DOMAIN el2 = lower..upper
  BY <1>8, <1>9
<1>12. DOMAIN el = al..au /\ \A s \in al..au : old[s - al] = el[s]
  BY <1>2, <1>3 DEF BlockOK
<1>13. ASSUME NEW s \in lower..upper PROVE block[s - lower] = el2[s]
  <2>1. s \in Int /\ s - lower \in 0..(upper - lower)
    OBVIOUS
  <2>2. PICK p \in Int : p = s - lower
    BY <2>1
  <2>3. s \in al..au <=> p \in (lo - lower)..(hi - lower)
    BY <1>5, <1>6, <2>1, <2>2
  <2>4. lo - al + p - (lo - lower) = s - al
    BY <2>1, <2>2
  <2>5. s \in al..au => a # NoArray
    <3>1. ASSUME a = NoArray PROVE al = 0 /\ au = -1
      BY <1>4, <3>1 DEF NoArray
    <3> QED
      BY <2>1, <3>1
  <2>6. block[p] = IF preserve /\ a # NoArray /\ p \in (lo - lower)..(hi - lower)
                   THEN old[s - al] ELSE 0
    BY <1>4, <1>8, <2>1, <2>2, <2>4
  <2>7. el2[s] = IF preserve /\ s \in al..au THEN el[s] ELSE 0
    BY <1>9, <1>12
  <2> QED
    BY <1>12, <2>2, <2>3, <2>5, <2>6, <2>7
<1>14. BlockOK(lower, upper, block, el2)
  BY <1>11, <1>13 DEF BlockOK
<1> QED
  BY <1>10, <1>14 DEF ArrayOK

-----------------------------------------------------------------------------
(* Collections: the theorem *)

CoInv == CoTablesOK(coCollections, coEntries) /\ ArrayOK(coArray, coElements)

LEMMA CoInitInv ==
  ASSUME CoInit
  PROVE  CoInv
<1>1. CoTablesOK(coCollections, coEntries)
  <2>1. PICK es : es = coEntries
    OBVIOUS
  <2>2. es \in Seq(CoKeys) /\ Len(es) = 0
    BY <2>1, EmptySeq DEF CoInit
  <2>3. coCollections \in Seq(CoRecords) /\ Len(coCollections) = 0
    BY EmptySeq DEF CoInit
  <2> QED
    BY <2>1, <2>2, <2>3 DEF CoTablesOK
<1>2. ArrayOK(coArray, coElements)
  <2>1. PICK block : block = <<>>
    OBVIOUS
  <2>2. PICK upper \in Int : upper = -1
    OBVIOUS
  <2>3. coArray = ArrayRecord(0, upper, block)
    BY <2>1, <2>2 DEF CoInit, NoArray, ArrayRecord
  <2>4. 0..(upper - 0) = {} /\ 0..upper = {}
    BY <2>2
  <2>5. DOMAIN block = {} /\ DOMAIN coElements = {}
    BY <2>1 DEF CoInit
  <2>6. BlockOK(0, upper, block, coElements)
    BY <2>4, <2>5 DEF BlockOK
  <2> QED
    BY <2>3, <2>6 DEF ArrayOK
<1> QED
  BY <1>1, <1>2 DEF CoInv

LEMMA CoNextInv ==
  ASSUME CoInv, CoNext
  PROVE  CoInv'
<1>1. CoTablesOK(coCollections, coEntries) /\ ArrayOK(coArray, coElements)
  BY DEF CoInv
<1>2. CASE CoTablesNext
  <2>1. UNCHANGED <<coArray, coElements>> /\ CoTablesOK(coCollections, coEntries)'
    <3>1. ASSUME NEW kind \in {"LIST", "DICT", "SET"}, NewCollection(kind)
          PROVE  UNCHANGED <<coArray, coElements>> /\ CoTablesOK(coCollections, coEntries)'
      BY <1>1, <3>1, NewCollectionStep DEF NewCollection
    <3>2. ASSUME NEW h, ClearCollection(h)
          PROVE  UNCHANGED <<coArray, coElements>> /\ CoTablesOK(coCollections, coEntries)'
      BY <1>1, <3>2, ClearStep DEF ClearCollection
    <3>3. ASSUME NEW h, NEW v \in CoTagged, ListAdd(h, v)
          PROVE  UNCHANGED <<coArray, coElements>> /\ CoTablesOK(coCollections, coEntries)'
      BY <1>1, <3>3, ListAddStep DEF ListAdd
    <3>4. ASSUME NEW h, NEW v \in CoTagged, NEW i, ListSet(h, i, v)
          PROVE  UNCHANGED <<coArray, coElements>> /\ CoTablesOK(coCollections, coEntries)'
      BY <1>1, <3>4, ListSetStep DEF ListSet
    <3>5. ASSUME NEW h, NEW v \in CoTagged, NEW key \in CoKeys, DictSet(h, key, v)
          PROVE  UNCHANGED <<coArray, coElements>> /\ CoTablesOK(coCollections, coEntries)'
      BY <1>1, <3>5, DictSetStep DEF DictSet
    <3>6. ASSUME NEW h, NEW i, ListRemove(h, i)
          PROVE  UNCHANGED <<coArray, coElements>> /\ CoTablesOK(coCollections, coEntries)'
      BY <1>1, <3>6, ListRemoveStep DEF ListRemove
    <3>7. ASSUME NEW h, NEW key \in CoKeys, SetAdd(h, key)
          PROVE  UNCHANGED <<coArray, coElements>> /\ CoTablesOK(coCollections, coEntries)'
      BY <1>1, <3>7, SetAddStep DEF SetAdd
    <3>8. ASSUME NEW h, NEW key \in CoKeys, SetRemove(h, key)
          PROVE  UNCHANGED <<coArray, coElements>> /\ CoTablesOK(coCollections, coEntries)'
      BY <1>1, <3>8, SetRemoveStep DEF SetRemove
    <3> QED
      BY <1>2, <3>1, <3>2, <3>3, <3>4, <3>5, <3>6, <3>7, <3>8 DEF CoTablesNext
  <2> QED
    BY <1>1, <2>1 DEF CoInv
<1>3. CASE CoArrayNext
  <2>1. ASSUME NEW lower \in CoBounds, NEW upper \in CoBounds, NEW preserve \in BOOLEAN,
               ArrayResize(lower, upper, preserve)
        PROVE  ArrayOK(coArray, coElements)' /\ UNCHANGED coTables
    <3>1. lower \in Int /\ upper \in Int
      BY CoAssumption DEF CoAssumption
    <3> QED
      BY <1>1, <2>1, <3>1, ArrayResizeStep DEF ArrayResize
  <2>2. ASSUME NEW s \in CoBounds, ArrayStore(s, 1)
        PROVE  ArrayOK(coArray, coElements)' /\ UNCHANGED coTables
    BY <1>1, <2>2, ArrayStoreStep DEF ArrayStore
  <2>3. ArrayOK(coArray, coElements)' /\ UNCHANGED coTables
    BY <1>3, <2>1, <2>2 DEF CoArrayNext
  <2> QED
    BY <1>1, <2>3 DEF CoInv, coTables
<1> QED
  BY <1>2, <1>3 DEF CoNext

LEMMA KeyFound ==
  ASSUME NEW c \in CoRecords, NEW held, KeysOK(c.keys, held), NEW key
  PROVE  /\ KeyIndex(c, key) >= 0 <=> key \in held
         /\ key \in held =>
              KeyIndex(c, key) + 1 \in 1..Len(c.keys) /\ c.keys[KeyIndex(c, key) + 1] = key
<1>1. c.keys \in Seq(CoKeys) /\ Len(c.keys) \in Nat
  BY CoRecordIs
<1>2. PICK k : k = KeyIndex(c, key)
  OBVIOUS
<1>3. \/ k = -1 /\ \A i \in 1..Len(c.keys) : c.keys[i] # key
      \/ k \in 0..(Len(c.keys) - 1) /\ c.keys[k + 1] = key
  BY <1>1, <1>2, KeyIndexIs
<1>4. CASE k = -1 /\ \A i \in 1..Len(c.keys) : c.keys[i] # key
  <2>1. key \notin held
    BY <1>4 DEF KeysOK
  <2>2. ~(k >= 0)
    BY <1>4
  <2> QED
    BY <1>2, <2>1, <2>2
<1>5. CASE k \in 0..(Len(c.keys) - 1) /\ c.keys[k + 1] = key
  <2>1. k >= 0 /\ k + 1 \in 1..Len(c.keys)
    BY <1>1, <1>5
  <2>2. key \in held
    BY <1>5, <2>1 DEF KeysOK
  <2> QED
    BY <1>2, <1>5, <2>1, <2>2
<1> QED
  BY <1>3, <1>4, <1>5

LEMMA CoInvExact ==
  ASSUME CoInv
  PROVE  CollectionsExact
<1>1. EntriesFound
  <2>1. SUFFICES
          ASSUME NEW h \in DOMAIN coCollections, NEW c, c = coCollections[h], NEW e, e = coEntries[h]
          PROVE  /\ c.kind = "LIST" =>
                      /\ Len(c.values) = Len(e) /\ c.keys = <<>>
                      /\ \A i \in Positions(e) : ListGet(h, i) = e[i + 1]
                 /\ c.kind # "LIST" => ToSet(c.keys) = DOMAIN e /\ IsInjective(c.keys)
                 /\ c.kind = "DICT" =>
                      /\ Len(c.values) = Len(c.keys)
                      /\ \A k \in DOMAIN e : DictGet(h, k) = e[k]
                      /\ \A i \in Positions(c.keys) : e[DictEntryAt(h, i)[1]] = DictEntryAt(h, i)[2]
                 /\ c.kind = "SET" =>
                      /\ c.values = <<>>
                      /\ \A k \in CoKeys : SetHas(h, k) <=> k \in DOMAIN e
                 /\ c.kind # "DICT" => \A k \in CoKeys : DictGet(h, k) = <<0>>
    BY DEF EntriesFound
  <2>2. CollectionOK(c, e)
    BY <2>1, Collected DEF CoInv
  <2>3. c \in CoRecords /\ c.values \in Seq(CoTagged) /\ c.keys \in Seq(CoKeys)
        /\ Len(c.values) \in Nat /\ Len(c.keys) \in Nat
    BY <2>2, CoRecordIs DEF CollectionOK
  <2>4. ASSUME c.kind = "LIST"
        PROVE  /\ Len(c.values) = Len(e) /\ c.keys = <<>>
               /\ \A i \in Positions(e) : ListGet(h, i) = e[i + 1]
    <3>1. c.keys = <<>> /\ e = c.values
      BY <2>2, <2>4 DEF CollectionOK
    <3> QED
      BY <2>1, <2>4, <3>1 DEF ListGet, CollectionAt
  <2>5. ASSUME c.kind # "LIST"
        PROVE  ToSet(c.keys) = DOMAIN e /\ IsInjective(c.keys)
    <3>1. KeysOK(c.keys, DOMAIN e)
      BY <2>2, <2>5 DEF CollectionOK
    <3>2. PICK s \in Seq(CoKeys) : s = c.keys
      BY <2>3
    <3>3. DOMAIN s = 1..Len(s)
      OBVIOUS
    <3> QED
      BY <3>1, <3>2, <3>3 DEF KeysOK, ToSet, IsInjective
  <2>6. ASSUME c.kind = "DICT"
        PROVE  /\ Len(c.values) = Len(c.keys)
               /\ \A k \in DOMAIN e : DictGet(h, k) = e[k]
               /\ \A i \in Positions(c.keys) : e[DictEntryAt(h, i)[1]] = DictEntryAt(h, i)[2]
    <3>1. /\ Len(c.values) = Len(c.keys) /\ KeysOK(c.keys, DOMAIN e)
          /\ \A i \in 1..Len(c.keys) : e[c.keys[i]] = c.values[i]
      BY <2>2, <2>6 DEF CollectionOK
    <3>2. ASSUME NEW k \in DOMAIN e PROVE DictGet(h, k) = e[k]
      <4>1. PICK i : i = KeyIndex(c, k)
        OBVIOUS
      <4>2. i >= 0 /\ i + 1 \in 1..Len(c.keys) /\ c.keys[i + 1] = k
        BY <2>3, <3>1, <4>1, KeyFound
      <4>3. DictGet(h, k) = c.values[i + 1]
        BY <2>1, <2>6, <4>1, <4>2 DEF DictGet, CollectionAt
      <4> QED
        BY <3>1, <4>2, <4>3
    <3>3. ASSUME NEW i \in Positions(c.keys) PROVE e[DictEntryAt(h, i)[1]] = DictEntryAt(h, i)[2]
      <4>1. i + 1 \in 1..Len(c.keys)
        BY <2>3 DEF Positions
      <4>2. DictEntryAt(h, i) = <<c.keys[i + 1], c.values[i + 1]>>
        BY <2>1 DEF DictEntryAt
      <4> QED
        BY <3>1, <4>1, <4>2
    <3> QED
      BY <3>1, <3>2, <3>3
  <2>7. ASSUME c.kind = "SET"
        PROVE  c.values = <<>> /\ \A k \in CoKeys : SetHas(h, k) <=> k \in DOMAIN e
    <3>1. c.values = <<>> /\ KeysOK(c.keys, DOMAIN e)
      BY <2>2, <2>7 DEF CollectionOK
    <3>2. ASSUME NEW k \in CoKeys PROVE SetHas(h, k) <=> k \in DOMAIN e
      <4>1. KeyIndex(c, k) >= 0 <=> k \in DOMAIN e
        BY <2>3, <3>1, KeyFound
      <4> QED
        BY <2>1, <2>7, <4>1 DEF SetHas, CollectionAt
    <3> QED
      BY <3>1, <3>2
  <2>8. ASSUME c.kind # "DICT" PROVE \A k \in CoKeys : DictGet(h, k) = <<0>>
    BY <2>1, <2>8 DEF DictGet, CollectionAt
  <2> QED
    BY <2>4, <2>5, <2>6, <2>7, <2>8
<1>2. ElementsPreserved
  <2>1. PICK lower \in Int, upper \in Int : \E b :
          coArray = ArrayRecord(lower, upper, b) /\ BlockOK(lower, upper, b, coElements)
    BY DEF CoInv, ArrayOK
  <2>2. PICK block : coArray = ArrayRecord(lower, upper, block) /\ BlockOK(lower, upper, block, coElements)
    BY <2>1
  <2>3. coArray.lower = lower /\ coArray.block = block
    BY <2>2, ArrayRecordIs
  <2> QED
    BY <2>2, <2>3 DEF ElementsPreserved, BlockOK
<1> QED
  BY <1>1, <1>2 DEF CollectionsExact

(* However a program's calls come, a LIST, DICT or SET is what was put into it  *)
(* and not removed, a key once and with its value by name and by position, and *)
(* an element of an array keeps its value as long as every array in between    *)
(* has its subscript, wherever REDIM moved it.                               *)
THEOREM CollectionsAlwaysExact == CoSpec => []CollectionsExact
<1>1. CoInit => CoInv
  BY CoInitInv
<1>2. CoInv /\ [CoNext]_coVars => CoInv'
  <2>1. SUFFICES ASSUME CoInv, [CoNext]_coVars PROVE CoInv'
    OBVIOUS
  <2>2. CASE CoNext
    BY <2>1, <2>2, CoNextInv
  <2>3. CASE UNCHANGED coVars
    BY <2>1, <2>3 DEF CoInv, coVars, coTables
  <2> QED
    BY <2>1, <2>2, <2>3
<1>3. CoInv => CollectionsExact
  BY CoInvExact
<1> QED
  BY <1>1, <1>2, <1>3, PTL DEF CoSpec

-----------------------------------------------------------------------------
(* Buffers of numbers: the capacity, doubled until it is enough *)

IsDoubling(f, m, capacity, need) ==
  f = [k \in 0..m |-> IF k = 0 THEN capacity
                      ELSE IF f[k - 1] >= need THEN f[k - 1] ELSE 2 * f[k - 1]]

LEMMA DoublingExists ==
  ASSUME NEW need \in Nat, NEW capacity
  PROVE  \E f : IsDoubling(f, need, capacity, need)
<1> DEFINE G == {m \in 0..need : \E f : IsDoubling(f, m, capacity, need)}
<1>1. 0 \in G
  <2>1. PICK f : f = [k \in 0..0 |-> capacity]
    OBVIOUS
  <2>2. \A k \in 0..0 : k = 0
    OBVIOUS
  <2>3. IsDoubling(f, 0, capacity, need)
    BY <2>1, <2>2 DEF IsDoubling
  <2> QED
    BY <2>3
<1>2. ASSUME NEW m \in 0..need, m < need, m \in G PROVE m + 1 \in G
  <2>1. PICK f : IsDoubling(f, m, capacity, need)
    BY <1>2
  <2>2. PICK x : x = IF f[m] >= need THEN f[m] ELSE 2 * f[m]
    OBVIOUS
  <2>3. PICK g : g = [k \in 0..(m + 1) |-> IF k = m + 1 THEN x ELSE f[k]]
    OBVIOUS
  <2>4. ASSUME NEW k \in 0..(m + 1)
        PROVE  g[k] = IF k = 0 THEN capacity ELSE IF g[k - 1] >= need THEN g[k - 1] ELSE 2 * g[k - 1]
    <3>1. CASE k = m + 1
      <4>1. k # 0 /\ k - 1 = m /\ m \in 0..(m + 1) /\ m # m + 1
        BY <3>1
      <4>2. g[k - 1] = f[m] /\ g[k] = x
        BY <2>3, <3>1, <4>1
      <4> QED
        BY <2>2, <4>1, <4>2
    <3>2. CASE k = 0
      <4>1. 0 \in 0..m /\ 0 \in 0..(m + 1) /\ 0 # m + 1
        OBVIOUS
      <4>2. f[0] = capacity
        BY <2>1, <4>1 DEF IsDoubling
      <4> QED
        BY <2>3, <3>2, <4>1, <4>2
    <3>3. CASE k # m + 1 /\ k # 0
      <4>1. k \in 0..m /\ k - 1 \in 0..(m + 1) /\ k - 1 # m + 1
        BY <3>3
      <4>2. g[k] = f[k] /\ g[k - 1] = f[k - 1]
        BY <2>3, <3>3, <4>1
      <4>3. f[k] = IF f[k - 1] >= need THEN f[k - 1] ELSE 2 * f[k - 1]
        BY <2>1, <3>3, <4>1 DEF IsDoubling
      <4> QED
        BY <3>3, <4>2, <4>3
    <3> QED
      BY <3>1, <3>2, <3>3
  <2>5. PICK M : M = m + 1
    OBVIOUS
  <2>6. g = [k \in 0..M |-> g[k]]
    BY <2>3, <2>5
  <2>7. IsDoubling(g, M, capacity, need)
    BY <2>4, <2>5, <2>6 DEF IsDoubling
  <2>8. M \in 0..need
    BY <1>2, <2>5
  <2> QED
    BY <2>5, <2>7, <2>8
<1> HIDE DEF G
<1>3. need \in G
  BY <1>1, <1>2, CountUp
<1> QED
  BY <1>3 DEF G

LEMMA DoubledEnough ==
  ASSUME NEW need \in Nat, NEW capacity \in Nat, capacity >= 1
  PROVE  /\ Doubled(capacity, need) \in Nat
         /\ Doubled(capacity, need) >= need /\ Doubled(capacity, need) >= capacity
<1> DEFINE c == CHOOSE f : IsDoubling(f, need, capacity, need)
<1>1. Doubled(capacity, need) = c[need]
  BY DEF Doubled, IsDoubling
<1>2. IsDoubling(c, need, capacity, need)
  BY DoublingExists
<1> HIDE DEF c
<1>3. \A k \in 0..need :
        c[k] = IF k = 0 THEN capacity ELSE IF c[k - 1] >= need THEN c[k - 1] ELSE 2 * c[k - 1]
  BY <1>2 DEF IsDoubling
<1> DEFINE G == {k \in 0..need : c[k] \in Nat /\ c[k] >= capacity /\ (c[k] >= need \/ c[k] >= k + 1)}
<1>4. 0 \in G
  BY <1>3
<1>5. ASSUME NEW k \in 0..need, k < need, k \in G PROVE k + 1 \in G
  <2>1. PICK x \in Nat : x = c[k] /\ x >= capacity /\ (x >= need \/ x >= k + 1)
    BY <1>5
  <2>2. k + 1 \in 0..need /\ k + 1 # 0 /\ (k + 1) - 1 = k
    BY <1>5
  <2>3. c[k + 1] = IF x >= need THEN x ELSE 2 * x
    BY <1>3, <2>1, <2>2
  <2> QED
    BY <2>1, <2>2, <2>3
<1> HIDE DEF G
<1>6. need \in G
  BY <1>4, <1>5, CountUp
<1> QED
  BY <1>1, <1>6 DEF G

-----------------------------------------------------------------------------
(* Buffers of numbers: what one holds and what it shows *)

(* A whole type cuts a number once. *)
LEMMA RawTwice ==
  ASSUME NEW type, NEW v \in Int
  PROVE  Raw(type, v) \in Int /\ Raw(type, Raw(type, v)) = Raw(type, v)
<1>1. PICK c \in Int : c = CutHalves(v) /\ c % 2 = 0
  <2>1. CutHalves(v) \in Int /\ CutHalves(v) % 2 = 0
    BY DEF CutHalves
  <2> QED
    BY <2>1
<1>2. CutHalves(c) = c
  BY <1>1 DEF CutHalves
<1> QED
  BY <1>1, <1>2 DEF Raw

LEMMA RawZero ==
  ASSUME NEW type
  PROVE  Raw(type, 0) = 0
BY DEF Raw, CutHalves

BfRecords == [type : BfTypes, count : Nat, memory : Seq(Int), alive : BOOLEAN]

(* The first elements are the contents, and all memory is of the type. *)
ShowsIn(type, count, memory, contents) ==
  /\ count = Len(contents) /\ count <= Len(memory) /\ Len(memory) >= 1
  /\ \A i \in 1..count : memory[i] = contents[i]
  /\ \A i \in 1..Len(memory) : Raw(type, memory[i]) = memory[i]

BufferOK(b, contents) ==
  /\ b \in BfRecords /\ contents \in Seq(Int)
  /\ b.alive => ShowsIn(b.type, b.count, b.memory, contents)

(* r is a living buffer with these fields. *)
IsBuffer(r, type, count, memory) ==
  /\ r \in BfRecords /\ r.alive
  /\ r.type = type /\ r.count = count /\ r.memory = memory

LEMMA BufferIs ==
  ASSUME NEW type \in BfTypes, NEW count \in Nat, NEW memory \in Seq(Int), NEW contents \in Seq(Int),
         ShowsIn(type, count, memory, contents), NEW r, IsBuffer(r, type, count, memory)
  PROVE  BufferOK(r, contents)
BY DEF BufferOK, IsBuffer

LEMMA BufferHas ==
  ASSUME NEW b \in BfRecords
  PROVE  b.type \in BfTypes /\ b.count \in Nat /\ b.memory \in Seq(Int) /\ Len(b.memory) \in Nat
BY DEF BfRecords

LEMMA WithMemory ==
  ASSUME NEW b \in BfRecords, b.alive, NEW m \in Seq(Int), NEW r, r = [b EXCEPT !.memory = m]
  PROVE  IsBuffer(r, b.type, b.count, m)
BY DEF BfRecords, IsBuffer

LEMMA WithCount ==
  ASSUME NEW b \in BfRecords, b.alive, NEW n \in Nat, NEW r, r = [b EXCEPT !.count = n]
  PROVE  IsBuffer(r, b.type, n, b.memory)
BY DEF BfRecords, IsBuffer

LEMMA ZerosAre ==
  ASSUME NEW n \in Nat
  PROVE  /\ Zeros(n) \in Seq(Int) /\ Len(Zeros(n)) = n /\ Len(Zeros(n)) \in Nat
         /\ \A i \in 1..n : Zeros(n)[i] = 0
BY DEF Zeros

(* Longer by zeros. *)
Lengthened(memory, n) == memory \o Zeros(n)

LEMMA LengthenedIs ==
  ASSUME NEW memory \in Seq(Int), NEW n \in Nat
  PROVE  /\ Lengthened(memory, n) \in Seq(Int)
         /\ Len(Lengthened(memory, n)) = Len(memory) + n /\ Len(Lengthened(memory, n)) \in Nat
         /\ \A i \in 1..Len(memory) : Lengthened(memory, n)[i] = memory[i]
         /\ \A i \in 1..(Len(memory) + n) : i > Len(memory) => Lengthened(memory, n)[i] = 0
<1>1. PICK z \in Seq(Int) : z = Zeros(n) /\ Len(z) = n /\ \A i \in 1..n : z[i] = 0
  BY ZerosAre
<1>2. PICK m \in Nat : m = Len(memory)
  OBVIOUS
<1>3. PICK l : l = memory \o z
  OBVIOUS
<1>4. /\ l \in Seq(Int) /\ Len(l) = m + n
      /\ \A i \in 1..(m + n) : l[i] = IF i <= m THEN memory[i] ELSE z[i - m]
  <2>1. /\ l \in Seq(Int) /\ Len(l) = Len(memory) + Len(z)
        /\ \A i \in 1..(Len(memory) + Len(z)) :
             l[i] = IF i <= Len(memory) THEN memory[i] ELSE z[i - Len(memory)]
    BY <1>3, ConcatProperties
  <2> QED
    BY <1>1, <1>2, <2>1
<1>5. ASSUME NEW i \in 1..m PROVE l[i] = memory[i]
  <2>1. i \in 1..(m + n) /\ i <= m
    OBVIOUS
  <2> QED
    BY <1>4, <2>1
<1>6. ASSUME NEW i \in 1..(m + n), i > m PROVE l[i] = 0
  <2>1. i - m \in 1..n
    BY <1>6
  <2> QED
    BY <1>1, <1>4, <1>6, <2>1
<1>7. l = Lengthened(memory, n)
  BY <1>1, <1>3 DEF Lengthened
<1> QED
  BY <1>2, <1>4, <1>5, <1>6, <1>7

LEMMA LengthenedShows ==
  ASSUME NEW type, NEW count \in Nat, NEW memory \in Seq(Int), NEW contents,
         ShowsIn(type, count, memory, contents), NEW n \in Nat
  PROVE  ShowsIn(type, count, Lengthened(memory, n), contents)
<1>1. PICK m \in Nat : m = Len(memory)
  OBVIOUS
<1>2. PICK l : l = Lengthened(memory, n)
  OBVIOUS
<1>3. /\ Len(l) = m + n /\ \A i \in 1..m : l[i] = memory[i]
      /\ \A i \in 1..(m + n) : i > m => l[i] = 0
  BY <1>1, <1>2, LengthenedIs
<1>4. /\ count = Len(contents) /\ count <= m /\ m >= 1
      /\ \A i \in 1..count : memory[i] = contents[i]
      /\ \A i \in 1..m : Raw(type, memory[i]) = memory[i]
  BY <1>1 DEF ShowsIn
<1>5. \A i \in 1..count : l[i] = contents[i]
  BY <1>3, <1>4
<1>6. ASSUME NEW i \in 1..(m + n) PROVE Raw(type, l[i]) = l[i]
  <2>1. CASE i > m
    BY <1>3, <2>1, RawZero
  <2>2. CASE ~(i > m)
    <3>1. i \in 1..m
      BY <2>2
    <3> QED
      BY <1>3, <1>4, <3>1
  <2> QED
    BY <2>1, <2>2
<1>7. count <= Len(l) /\ Len(l) >= 1
  BY <1>3, <1>4
<1>8. ShowsIn(type, count, l, contents)
  BY <1>3, <1>4, <1>5, <1>6, <1>7 DEF ShowsIn
<1> QED
  BY <1>2, <1>8

(* ensure_capacity: enough memory, and the elements stay. *)
LEMMA EnsuredIs ==
  ASSUME NEW b \in BfRecords, b.alive, NEW contents, ShowsIn(b.type, b.count, b.memory, contents),
         NEW need \in Nat
  PROVE  \E memory \in Seq(Int) :
           /\ IsBuffer(Ensured(b, need), b.type, b.count, memory)
           /\ ShowsIn(b.type, b.count, memory, contents)
           /\ Len(memory) \in Nat /\ Len(memory) >= need
<1>1. PICK m \in Nat : m = Len(b.memory) /\ m >= 1
  BY BufferHas DEF ShowsIn
<1>2. PICK d \in Nat : d = Doubled(m, need) /\ d >= need /\ d >= m
  BY <1>1, DoubledEnough
<1>3. PICK n \in Nat : n = d - m
  BY <1>1, <1>2
<1>4. PICK memory \in Seq(Int) : /\ memory = Lengthened(b.memory, n)
                                 /\ Len(memory) = m + n
  BY <1>1, BufferHas, LengthenedIs
<1>5. ShowsIn(b.type, b.count, memory, contents)
  BY <1>4, BufferHas, LengthenedShows
<1>6. memory = b.memory \o Zeros(Doubled(Len(b.memory), need) - Len(b.memory))
  BY <1>1, <1>2, <1>3, <1>4 DEF Lengthened
<1>7. Ensured(b, need) = [b EXCEPT !.memory = memory]
  BY <1>6 DEF Ensured
<1>9. Len(memory) \in Nat /\ Len(memory) >= need
  BY <1>1, <1>2, <1>3, <1>4
<1>10. IsBuffer(Ensured(b, need), b.type, b.count, memory)
  BY <1>7, WithMemory
<1> QED
  BY <1>5, <1>9, <1>10

-----------------------------------------------------------------------------
(* Buffers of numbers: another count, and numbers stored *)

LEMMA WithBoth ==
  ASSUME NEW b \in BfRecords, b.alive, NEW n \in Nat, NEW m \in Seq(Int),
         NEW r, r = [b EXCEPT !.count = n, !.memory = m]
  PROVE  IsBuffer(r, b.type, n, m)
BY DEF BfRecords, IsBuffer

LEMMA PaddedIs ==
  ASSUME NEW contents \in Seq(Int), NEW n \in Nat
  PROVE  /\ Padded(contents, n) \in Seq(Int) /\ Len(Padded(contents, n)) = n
         /\ \A i \in 1..n : Padded(contents, n)[i] = IF i <= Len(contents) THEN contents[i] ELSE 0
BY DEF Padded

(* The memory of old elements where n are to be seen. *)
Uncovered(memory, old, n) ==
  [i \in DOMAIN memory |-> IF i \in (old + 1)..n THEN 0 ELSE memory[i]]

LEMMA UncoveredIs ==
  ASSUME NEW memory \in Seq(Int), NEW old \in Nat, NEW n \in Nat
  PROVE  /\ Uncovered(memory, old, n) \in Seq(Int)
         /\ Len(Uncovered(memory, old, n)) = Len(memory)
         /\ \A i \in 1..Len(memory) :
              Uncovered(memory, old, n)[i] = IF i > old /\ i <= n THEN 0 ELSE memory[i]
<1>1. PICK m \in Nat : m = Len(memory) /\ DOMAIN memory = 1..m /\ \A i \in 1..m : memory[i] \in Int
  OBVIOUS
<1>2. PICK u : u = [i \in 1..m |-> IF i > old /\ i <= n THEN 0 ELSE memory[i]]
  OBVIOUS
<1>3. u \in Seq(Int) /\ Len(u) = m
  BY <1>1, <1>2
<1>4. \A i \in 1..m : i \in (old + 1)..n <=> (i > old /\ i <= n)
  OBVIOUS
<1>5. u = Uncovered(memory, old, n)
  BY <1>1, <1>2, <1>4 DEF Uncovered
<1> QED
  BY <1>1, <1>2, <1>3, <1>5

LEMMA UncoveredShows ==
  ASSUME NEW type, NEW count \in Nat, NEW memory \in Seq(Int), NEW contents \in Seq(Int),
         ShowsIn(type, count, memory, contents), NEW n \in Nat, n <= Len(memory)
  PROVE  ShowsIn(type, n, Uncovered(memory, count, n), Padded(contents, n))
<1>1. PICK m \in Nat : m = Len(memory)
  OBVIOUS
<1>2. PICK u : u = Uncovered(memory, count, n)
  OBVIOUS
<1>3. PICK p : p = Padded(contents, n)
  OBVIOUS
<1>4. Len(u) = m /\ \A i \in 1..m : u[i] = IF i > count /\ i <= n THEN 0 ELSE memory[i]
  BY <1>1, <1>2, UncoveredIs
<1>5. Len(p) = n /\ \A i \in 1..n : p[i] = IF i <= Len(contents) THEN contents[i] ELSE 0
  BY <1>3, PaddedIs
<1>6. /\ count = Len(contents) /\ count <= m /\ m >= 1
      /\ \A i \in 1..count : memory[i] = contents[i]
      /\ \A i \in 1..m : Raw(type, memory[i]) = memory[i]
  BY <1>1 DEF ShowsIn
<1>7. ASSUME NEW i \in 1..n PROVE u[i] = p[i]
  <2>1. i \in 1..m
    BY <1>1
  <2>2. CASE i <= count
    BY <1>4, <1>5, <1>6, <2>1, <2>2
  <2>3. CASE i > count
    BY <1>4, <1>5, <1>6, <2>1, <2>3
  <2> QED
    BY <2>2, <2>3
<1>8. ASSUME NEW i \in 1..m PROVE Raw(type, u[i]) = u[i]
  <2>1. CASE i > count /\ i <= n
    BY <1>4, <2>1, RawZero
  <2>2. CASE ~(i > count /\ i <= n)
    BY <1>4, <1>6, <2>2
  <2> QED
    BY <2>1, <2>2
<1>9. ShowsIn(type, n, u, p)
  BY <1>1, <1>4, <1>5, <1>6, <1>7, <1>8 DEF ShowsIn
<1> QED
  BY <1>2, <1>3, <1>9

(* uxmathcore_buffer_resize: what comes into sight is zero. *)
LEMMA ResizedOK ==
  ASSUME NEW b, NEW contents, BufferOK(b, contents), b.alive, NEW n \in Nat
  PROVE  /\ BufferOK(Resized(b, n), Padded(contents, n))
         /\ Resized(b, n).alive /\ Resized(b, n).type = b.type
<1>1. b \in BfRecords /\ contents \in Seq(Int) /\ ShowsIn(b.type, b.count, b.memory, contents)
  BY DEF BufferOK
<1>2. PICK memory \in Seq(Int) :
        /\ IsBuffer(Ensured(b, n), b.type, b.count, memory)
        /\ ShowsIn(b.type, b.count, memory, contents)
        /\ Len(memory) \in Nat /\ Len(memory) >= n
  BY <1>1, EnsuredIs
<1>3. PICK e : e = Ensured(b, n)
  OBVIOUS
<1>4. e \in BfRecords /\ e.alive /\ e.type = b.type /\ e.memory = memory
  BY <1>2, <1>3 DEF IsBuffer
<1>5. b.count \in Nat /\ b.type \in BfTypes
  BY <1>1, BufferHas
<1>6. PICK u \in Seq(Int) : u = Uncovered(memory, b.count, n)
  BY <1>5, UncoveredIs
<1>7. Resized(b, n) = [e EXCEPT !.count = n, !.memory = u]
  BY <1>3, <1>4, <1>6 DEF Resized, Uncovered
<1>8. PICK r : r = [e EXCEPT !.count = n, !.memory = u]
  OBVIOUS
<1>9. IsBuffer(r, b.type, n, u)
  BY <1>4, <1>8, WithBoth
<1>10. ShowsIn(b.type, n, u, Padded(contents, n))
  BY <1>1, <1>2, <1>5, <1>6, UncoveredShows
<1>11. Padded(contents, n) \in Seq(Int)
  BY <1>1, PaddedIs
<1>12. BufferOK(r, Padded(contents, n))
  BY <1>5, <1>9, <1>10, <1>11, BufferIs
<1> QED
  BY <1>7, <1>8, <1>9, <1>12 DEF IsBuffer

(* Values written from a place on, as the type keeps them. *)
Written(memory, type, start, values) ==
  [i \in DOMAIN memory |->
     IF i - start \in DOMAIN values THEN Raw(type, values[i - start]) ELSE memory[i]]

LEMMA WrittenIs ==
  ASSUME NEW memory \in Seq(Int), NEW type, NEW start \in Nat, NEW values \in Seq(Int)
  PROVE  /\ Written(memory, type, start, values) \in Seq(Int)
         /\ Len(Written(memory, type, start, values)) = Len(memory)
         /\ \A i \in 1..Len(memory) :
              Written(memory, type, start, values)[i] =
                IF i - start \in 1..Len(values) THEN Raw(type, values[i - start]) ELSE memory[i]
<1>1. PICK n \in Nat : n = Len(values) /\ DOMAIN values = 1..n
  OBVIOUS
<1>2. PICK m \in Nat : m = Len(memory) /\ DOMAIN memory = 1..m
  OBVIOUS
<1>3. ASSUME NEW i \in 1..m
      PROVE  (IF i - start \in 1..n THEN Raw(type, values[i - start]) ELSE memory[i]) \in Int
  <2>1. CASE i - start \in 1..n
    <3>1. values[i - start] \in Int
      BY <1>1, <2>1
    <3> QED
      BY <2>1, <3>1, RawTwice
  <2>2. CASE i - start \notin 1..n
    BY <1>2, <2>2
  <2> QED
    BY <2>1, <2>2
<1>4. PICK w : w = [i \in 1..m |-> IF i - start \in 1..n THEN Raw(type, values[i - start]) ELSE memory[i]]
  OBVIOUS
<1>5. w \in Seq(Int) /\ Len(w) = m
  BY <1>3, <1>4
<1>6. w = Written(memory, type, start, values)
  BY <1>1, <1>2, <1>4 DEF Written
<1> QED
  BY <1>1, <1>2, <1>4, <1>5, <1>6

(* new is old with values from a place on. *)
Over(type, old, start, values, new) ==
  /\ new \in Seq(Int) /\ Len(new) = Len(old)
  /\ \A i \in 1..Len(old) :
       new[i] = IF i - start \in 1..Len(values) THEN Raw(type, values[i - start]) ELSE old[i]

LEMMA WrittenShows ==
  ASSUME NEW type, NEW count \in Nat, NEW memory \in Seq(Int), NEW old \in Seq(Int),
         ShowsIn(type, count, memory, old), NEW start \in Nat, NEW values \in Seq(Int),
         NEW new, Over(type, old, start, values, new)
  PROVE  ShowsIn(type, count, Written(memory, type, start, values), new)
<1>1. PICK n \in Nat : n = Len(values)
  OBVIOUS
<1>2. PICK m \in Nat : m = Len(memory)
  OBVIOUS
<1>3. PICK w : w = Written(memory, type, start, values)
  OBVIOUS
<1>4. /\ Len(w) = m
      /\ \A i \in 1..m :
           w[i] = IF i - start \in 1..n THEN Raw(type, values[i - start]) ELSE memory[i]
  <2>1. /\ Len(w) = Len(memory)
        /\ \A i \in 1..Len(memory) :
             w[i] = IF i - start \in 1..Len(values) THEN Raw(type, values[i - start]) ELSE memory[i]
    BY <1>3, WrittenIs
  <2> QED
    BY <1>1, <1>2, <2>1
<1>5. /\ count = Len(old) /\ count <= m /\ m >= 1
      /\ \A i \in 1..count : memory[i] = old[i]
      /\ \A i \in 1..m : Raw(type, memory[i]) = memory[i]
  BY <1>2 DEF ShowsIn
<1>6. /\ count = Len(new)
      /\ \A i \in 1..count :
           new[i] = IF i - start \in 1..n THEN Raw(type, values[i - start]) ELSE old[i]
  BY <1>1, <1>5 DEF Over
<1>7. ASSUME NEW i \in 1..count PROVE w[i] = new[i]
  <2>1. i \in 1..m
    BY <1>5
  <2>2. CASE i - start \in 1..n
    BY <1>4, <1>6, <2>1, <2>2
  <2>3. CASE i - start \notin 1..n
    BY <1>4, <1>5, <1>6, <2>1, <2>3
  <2> QED
    BY <2>2, <2>3
<1>8. ASSUME NEW i \in 1..m PROVE Raw(type, w[i]) = w[i]
  <2>1. CASE i - start \in 1..n
    <3>1. values[i - start] \in Int
      BY <1>1, <2>1
    <3>2. w[i] = Raw(type, values[i - start])
      BY <1>4, <2>1
    <3> QED
      BY <3>1, <3>2, RawTwice
  <2>2. CASE i - start \notin 1..n
    BY <1>4, <1>5, <2>2
  <2> QED
    BY <2>1, <2>2
<1>9. ShowsIn(type, count, w, new)
  BY <1>4, <1>5, <1>6, <1>7, <1>8 DEF ShowsIn
<1> QED
  BY <1>3, <1>9

LEMMA StoredOK ==
  ASSUME NEW b, NEW old, BufferOK(b, old), b.alive, NEW start \in Nat, NEW values \in Seq(Int),
         NEW new, Over(b.type, old, start, values, new)
  PROVE  BufferOK(Stored(b, start, values), new)
<1>1. b \in BfRecords /\ old \in Seq(Int) /\ ShowsIn(b.type, b.count, b.memory, old)
  BY DEF BufferOK
<1>2. b.type \in BfTypes /\ b.count \in Nat /\ b.memory \in Seq(Int)
  BY <1>1, BufferHas
<1>3. PICK w \in Seq(Int) : w = Written(b.memory, b.type, start, values)
  BY <1>2, WrittenIs
<1>4. PICK r : r = [b EXCEPT !.memory = w]
  OBVIOUS
<1>5. Stored(b, start, values) = r
  BY <1>3, <1>4 DEF Stored, Written
<1>6. IsBuffer(r, b.type, b.count, w)
  BY <1>1, <1>4, WithMemory
<1>7. ShowsIn(b.type, b.count, w, new)
  BY <1>1, <1>2, <1>3, WrittenShows
<1>8. new \in Seq(Int)
  BY DEF Over
<1> QED
  BY <1>2, <1>5, <1>6, <1>7, <1>8, BufferIs

LEMMA EnsuredOK ==
  ASSUME NEW b, NEW contents, BufferOK(b, contents), b.alive, NEW n \in Nat
  PROVE  BufferOK(Ensured(b, n), contents)
<1>1. b \in BfRecords /\ contents \in Seq(Int) /\ ShowsIn(b.type, b.count, b.memory, contents)
  BY DEF BufferOK
<1>2. b.type \in BfTypes /\ b.count \in Nat
  BY <1>1, BufferHas
<1>3. PICK memory \in Seq(Int) :
        IsBuffer(Ensured(b, n), b.type, b.count, memory) /\ ShowsIn(b.type, b.count, memory, contents)
  BY <1>1, EnsuredIs
<1> QED
  BY <1>1, <1>2, <1>3, BufferIs

(* A new buffer: the memory is the greatest of three, all zero. *)
LEMMA GreatestOfThree ==
  ASSUME NEW x \in Nat, NEW y \in Nat, NEW z \in Nat
  PROVE  /\ Max({x, y, z}) \in {x, y, z}
         /\ Max({x, y, z}) >= x /\ Max({x, y, z}) >= y /\ Max({x, y, z}) >= z
<1>1. \E m \in {x, y, z} : \A n \in {x, y, z} : m >= n
  <2>1. CASE x >= y /\ x >= z
    BY <2>1
  <2>2. CASE y >= x /\ y >= z
    BY <2>2
  <2>3. CASE z >= x /\ z >= y
    BY <2>3
  <2> QED
    BY <2>1, <2>2, <2>3
<1>2. Max({x, y, z}) \in {x, y, z} /\ \A n \in {x, y, z} : Max({x, y, z}) >= n
  BY <1>1 DEF Max
<1> QED
  BY <1>2

LEMMA CreatedOK ==
  ASSUME NEW type \in BfTypes, NEW count \in Nat, NEW capacity \in Nat
  PROVE  /\ BufferOK(Created(type, count, capacity), Zeros(count))
         /\ Created(type, count, capacity).alive /\ Created(type, count, capacity).type = type
<1>1. PICK m \in Nat : m = Max({count, capacity, 1}) /\ m >= count /\ m >= 1
  BY GreatestOfThree
<1>2. PICK z : z = Zeros(m)
  OBVIOUS
<1>3. z \in Seq(Int) /\ Len(z) = m /\ \A i \in 1..m : z[i] = 0
  BY <1>2, ZerosAre
<1>4. PICK c : c = Zeros(count)
  OBVIOUS
<1>5. c \in Seq(Int) /\ Len(c) = count /\ \A i \in 1..count : c[i] = 0
  BY <1>4, ZerosAre
<1>6. ASSUME NEW i \in 1..m PROVE Raw(type, z[i]) = z[i]
  BY <1>3, RawZero
<1>7. ASSUME NEW i \in 1..count PROVE z[i] = c[i]
  <2>1. i \in 1..m
    BY <1>1
  <2> QED
    BY <1>3, <1>5, <2>1
<1>8. ShowsIn(type, count, z, c)
  BY <1>1, <1>3, <1>5, <1>6, <1>7 DEF ShowsIn
<1>9. IsBuffer(Created(type, count, capacity), type, count, z)
  BY <1>1, <1>2, <1>3 DEF Created, IsBuffer, BfRecords
<1>10. PICK r : r = Created(type, count, capacity)
  OBVIOUS
<1>11. BufferOK(r, c)
  BY <1>3, <1>5, <1>8, <1>9, <1>10, BufferIs
<1> QED
  BY <1>4, <1>9, <1>10, <1>11 DEF IsBuffer

LEMMA CreatedForOK ==
  ASSUME NEW type \in BfTypes, NEW count \in Nat
  PROVE  /\ BufferOK(CreatedFor(type, count), Zeros(count))
         /\ CreatedFor(type, count).alive /\ CreatedFor(type, count).type = type
<1>1. PICK capacity \in Nat : capacity = IF count > 0 THEN count ELSE 8
  OBVIOUS
<1>2. CreatedFor(type, count) = Created(type, count, capacity)
  BY <1>1 DEF CreatedFor
<1> QED
  BY <1>2, CreatedOK

-----------------------------------------------------------------------------
(* Buffers of numbers: the buffers the calls leave *)

LEMMA ElementsAre ==
  ASSUME NEW b, NEW contents, BufferOK(b, contents), b.alive
  PROVE  /\ Elements(b) = contents /\ contents \in Seq(Int)
         /\ b.count = Len(contents) /\ Len(contents) \in Nat
<1>1. b \in BfRecords /\ contents \in Seq(Int) /\ ShowsIn(b.type, b.count, b.memory, contents)
  BY DEF BufferOK
<1>2. PICK memory \in Seq(Int) : memory = b.memory
  BY <1>1, BufferHas
<1>3. PICK n \in Nat : n = b.count
  BY <1>1, BufferHas
<1>4. PICK m \in Nat : m = Len(memory)
  OBVIOUS
<1>5. n = Len(contents) /\ n <= m /\ \A i \in 1..n : memory[i] = contents[i]
  BY <1>1, <1>2, <1>3, <1>4 DEF ShowsIn
<1>6. PICK e : e = SubSeq(memory, 1, n)
  OBVIOUS
<1>7. \A i \in 1..n : memory[i] \in Int
  BY <1>2, <1>4, <1>5
<1>8. /\ e \in Seq(Int) /\ Len(e) = (IF 1 <= n THEN n - 1 + 1 ELSE 0)
      /\ \A i \in 1..(n - 1 + 1) : e[i] = memory[1 + i - 1]
  BY <1>6, <1>7, SubSeqProperties
<1>9. Len(e) = n
  BY <1>8
<1>10. ASSUME NEW i \in 1..n PROVE e[i] = contents[i]
  <2>1. i \in 1..(n - 1 + 1) /\ 1 + i - 1 = i
    OBVIOUS
  <2> QED
    BY <1>5, <1>8, <2>1
<1>11. e = contents
  BY <1>1, <1>5, <1>8, <1>9, <1>10, SeqEqual
<1> QED
  BY <1>1, <1>2, <1>3, <1>5, <1>6, <1>11 DEF Elements

(* The type keeps these values as they are. *)
KeptAs(type, values) == \A i \in 1..Len(values) : Raw(type, values[i]) = values[i]

LEMMA ContentsKept ==
  ASSUME NEW b, NEW contents, BufferOK(b, contents), b.alive
  PROVE  KeptAs(b.type, contents)
<1>1. ShowsIn(b.type, b.count, b.memory, contents) /\ Len(b.memory) \in Nat /\ b.count \in Nat
  BY BufferHas DEF BufferOK
<1>2. ASSUME NEW i \in 1..b.count PROVE Raw(b.type, contents[i]) = contents[i]
  <2>1. i \in 1..Len(b.memory)
    BY <1>1 DEF ShowsIn
  <2> QED
    BY <1>1, <2>1 DEF ShowsIn
<1> QED
  BY <1>1, <1>2 DEF KeptAs, ShowsIn

(* Every element written. *)
LEMMA AllStored ==
  ASSUME NEW b, NEW old, BufferOK(b, old), b.alive, NEW values \in Seq(Int), Len(values) = Len(old),
         NEW new, new = [i \in 1..Len(values) |-> Raw(b.type, values[i])]
  PROVE  BufferOK(Stored(b, 0, values), new)
<1>1. PICK n \in Nat : n = Len(values) /\ n = Len(old)
  OBVIOUS
<1>2. \A i \in 1..n : values[i] \in Int
  BY <1>1
<1>3. \A i \in 1..n : Raw(b.type, values[i]) \in Int
  BY <1>2, RawTwice
<1>4. new \in Seq(Int) /\ Len(new) = n
  BY <1>1, <1>3
<1>5. ASSUME NEW i \in 1..n
      PROVE  new[i] = IF i - 0 \in 1..n THEN Raw(b.type, values[i - 0]) ELSE old[i]
  <2>1. i - 0 = i
    OBVIOUS
  <2> QED
    BY <1>1, <2>1
<1>6. Over(b.type, old, 0, values, new)
  BY <1>1, <1>4, <1>5 DEF Over
<1> QED
  BY <1>6, StoredOK

LEMMA AllKept ==
  ASSUME NEW b, NEW old, BufferOK(b, old), b.alive, NEW values \in Seq(Int), Len(values) = Len(old),
         KeptAs(b.type, values)
  PROVE  BufferOK(Stored(b, 0, values), values)
<1>1. PICK n \in Nat : n = Len(values)
  OBVIOUS
<1>2. PICK new : new = [i \in 1..n |-> Raw(b.type, values[i])]
  OBVIOUS
<1>3. \A i \in 1..n : new[i] = values[i]
  BY <1>1, <1>2 DEF KeptAs
<1>4. \A i \in 1..n : values[i] \in Int
  BY <1>1
<1>5. new \in Seq(Int) /\ Len(new) = n
  BY <1>2, <1>3, <1>4
<1>6. new = values
  BY <1>1, <1>3, <1>5, SeqEqual
<1>7. BufferOK(Stored(b, 0, values), new)
  BY <1>1, <1>2, AllStored
<1> QED
  BY <1>6, <1>7

LEMMA PaddedLength ==
  ASSUME NEW b, NEW old, BufferOK(b, old), b.alive, NEW n \in Nat
  PROVE  /\ BufferOK(Resized(b, n), Padded(old, n))
         /\ Resized(b, n).alive /\ Resized(b, n).type = b.type /\ Len(Padded(old, n)) = n
BY ResizedOK, PaddedIs DEF BufferOK

(* uxmathcore_buffer_append. *)
LEMMA AppendedOK ==
  ASSUME NEW b, NEW old, BufferOK(b, old), b.alive, NEW values \in Seq(Int), KeptAs(b.type, values)
  PROVE  BufferOK(Stored(Resized(b, Len(old) + Len(values)), Len(old), values), old \o values)
<1>1. old \in Seq(Int)
  BY DEF BufferOK
<1>2. PICK m \in Nat : m = Len(old)
  BY <1>1
<1>3. PICK n \in Nat : n = Len(values)
  OBVIOUS
<1>4. PICK p : p = Padded(old, m + n)
  OBVIOUS
<1>5. PICK r : r = Resized(b, m + n)
  OBVIOUS
<1>6. BufferOK(r, p) /\ r.alive /\ r.type = b.type
  BY <1>4, <1>5, ResizedOK
<1>7. Len(p) = m + n /\ \A i \in 1..(m + n) : p[i] = IF i <= m THEN old[i] ELSE 0
  <2>1. PICK k \in Nat : k = m + n
    OBVIOUS
  <2>2. /\ Len(p) = k
        /\ \A i \in 1..k : p[i] = IF i <= Len(old) THEN old[i] ELSE 0
    BY <1>1, <1>4, <2>1, PaddedIs
  <2> QED
    BY <1>2, <2>1, <2>2
<1>8. PICK new : new = old \o values
  OBVIOUS
<1>9. /\ new \in Seq(Int) /\ Len(new) = m + n
      /\ \A i \in 1..(m + n) : new[i] = IF i <= m THEN old[i] ELSE values[i - m]
  <2>1. /\ new \in Seq(Int) /\ Len(new) = Len(old) + Len(values)
        /\ \A i \in 1..(Len(old) + Len(values)) :
             new[i] = IF i <= Len(old) THEN old[i] ELSE values[i - Len(old)]
    BY <1>1, <1>8, ConcatProperties
  <2> QED
    BY <1>2, <1>3, <2>1
<1>10. \A i \in 1..n : Raw(b.type, values[i]) = values[i]
  BY <1>3 DEF KeptAs
<1>11. ASSUME NEW i \in 1..(m + n)
       PROVE  new[i] = IF i - m \in 1..n THEN Raw(b.type, values[i - m]) ELSE p[i]
  <2>1. CASE i <= m
    <3>1. i - m \notin 1..n
      BY <2>1
    <3> QED
      BY <1>7, <1>9, <2>1, <3>1
  <2>2. CASE ~(i <= m)
    <3>1. i - m \in 1..n
      BY <2>2
    <3> QED
      BY <1>9, <1>10, <2>2, <3>1
  <2> QED
    BY <2>1, <2>2
<1>12. Over(r.type, p, m, values, new)
  BY <1>3, <1>6, <1>7, <1>9, <1>11 DEF Over
<1>13. BufferOK(Stored(r, m, values), new)
  BY <1>6, <1>12, StoredOK
<1> QED
  BY <1>2, <1>3, <1>5, <1>8, <1>13

(* uxmathcore_buffer_set_f64: the elements after it are gone. *)
LEMMA PlacedOK ==
  ASSUME NEW b, NEW old, BufferOK(b, old), b.alive, NEW i \in Nat, NEW v \in Int
  PROVE  BufferOK(Stored(Resized(b, i + 1), i, <<v>>), Append(Padded(old, i), Raw(b.type, v)))
<1>1. old \in Seq(Int)
  BY DEF BufferOK
<1>2. PICK n \in Nat : n = i + 1
  OBVIOUS
<1>3. PICK m \in Nat : m = Len(old)
  BY <1>1
<1>4. PICK p : p = Padded(old, n)
  OBVIOUS
<1>5. PICK r : r = Resized(b, n)
  OBVIOUS
<1>6. BufferOK(r, p) /\ r.alive /\ r.type = b.type
  BY <1>4, <1>5, ResizedOK
<1>7. Len(p) = n /\ \A j \in 1..n : p[j] = IF j <= m THEN old[j] ELSE 0
  <2>1. Len(p) = n /\ \A j \in 1..n : p[j] = IF j <= Len(old) THEN old[j] ELSE 0
    BY <1>1, <1>4, PaddedIs
  <2> QED
    BY <1>3, <2>1
<1>8. PICK q \in Seq(Int) : q = Padded(old, i)
  BY <1>1, PaddedIs
<1>9. Len(q) = i /\ \A j \in 1..i : q[j] = IF j <= m THEN old[j] ELSE 0
  <2>1. Len(q) = i /\ \A j \in 1..i : q[j] = IF j <= Len(old) THEN old[j] ELSE 0
    BY <1>1, <1>8, PaddedIs
  <2> QED
    BY <1>3, <2>1
<1>10. PICK x \in Int : x = Raw(b.type, v)
  BY RawTwice
<1>11. PICK new : new = Append(q, x)
  OBVIOUS
<1>12. /\ new \in Seq(Int) /\ Len(new) = i + 1 /\ new[i + 1] = x
       /\ \A j \in 1..i : new[j] = q[j]
  BY <1>8, <1>9, <1>11, Appended
<1>13. PICK values : values = <<v>>
  OBVIOUS
<1>14. values \in Seq(Int) /\ Len(values) = 1 /\ values[1] = v
  BY <1>13
<1>15. ASSUME NEW j \in 1..n
       PROVE  new[j] = IF j - i \in 1..1 THEN Raw(b.type, values[j - i]) ELSE p[j]
  <2>1. CASE j = n
    <3>1. j = i + 1 /\ j - i = 1 /\ j - i \in 1..1
      BY <1>2, <2>1
    <3>2. new[j] = x
      BY <1>12, <3>1
    <3>3. Raw(b.type, values[j - i]) = x
      BY <1>10, <1>14, <3>1
    <3> QED
      BY <3>1, <3>2, <3>3
  <2>2. CASE j # n
    <3>1. j \in 1..i /\ j - i \notin 1..1
      BY <1>2, <2>2
    <3> QED
      BY <1>7, <1>9, <1>12, <3>1
  <2> QED
    BY <2>1, <2>2
<1>16. Len(new) = Len(p) /\ Len(p) = n
  BY <1>2, <1>7, <1>12
<1>17. Over(r.type, p, i, values, new)
  BY <1>6, <1>12, <1>14, <1>15, <1>16 DEF Over
<1>18. BufferOK(Stored(r, i, values), new)
  BY <1>6, <1>14, <1>17, StoredOK
<1> QED
  BY <1>2, <1>5, <1>8, <1>10, <1>11, <1>13, <1>18

(* uxmathcore_buffer_slice: a part of what the buffer shows. *)
(* n elements from start on are in sight, and what a new buffer of them holds. *)
Within(b, start, n) == start + n <= b.count
PartOf(contents, start, n) == SubSeq(contents, start + 1, start + n)
PartOK(b, contents, start, n) ==
  /\ PartOf(b.memory, start, n) = PartOf(contents, start, n)
  /\ PartOf(contents, start, n) \in Seq(Int) /\ Len(PartOf(contents, start, n)) = n
  /\ KeptAs(b.type, PartOf(contents, start, n))

LEMMA PartIs ==
  ASSUME NEW b, NEW contents, BufferOK(b, contents), b.alive,
         NEW start \in Nat, NEW n \in Nat, Within(b, start, n)
  PROVE  PartOK(b, contents, start, n)
<1>1. /\ b \in BfRecords /\ contents \in Seq(Int) /\ KeptAs(b.type, contents)
      /\ ShowsIn(b.type, b.count, b.memory, contents)
  BY ContentsKept DEF BufferOK
<1>2. PICK memory \in Seq(Int) : memory = b.memory
  BY <1>1, BufferHas
<1>3. PICK m \in Nat : m = b.count /\ start + n <= m
  BY <1>1, BufferHas DEF Within
<1>4. m = Len(contents) /\ m <= Len(memory) /\ \A i \in 1..m : memory[i] = contents[i]
  BY <1>1, <1>2, <1>3 DEF ShowsIn
<1>5. PICK first \in Int : first = start + 1
  OBVIOUS
<1>6. PICK last \in Int : last = start + n
  OBVIOUS
<1>7. PICK part : part = SubSeq(contents, first, last)
  OBVIOUS
<1>8. PICK cut : cut = SubSeq(memory, first, last)
  OBVIOUS
<1>9. \A i \in first..last : i \in 1..m /\ contents[i] \in Int /\ memory[i] \in Int
  <2>1. \A i \in first..last : i \in 1..m
    BY <1>3, <1>5, <1>6
  <2>2. \A i \in 1..m : contents[i] \in Int
    BY <1>1, <1>4
  <2> QED
    BY <1>4, <2>1, <2>2
<1>10. /\ cut \in Seq(Int) /\ Len(cut) = (IF first <= last THEN last - first + 1 ELSE 0)
      /\ \A i \in 1..(last - first + 1) : cut[i] = memory[first + i - 1]
  BY <1>8, <1>9, SubSeqProperties
<1>11. /\ part \in Seq(Int) /\ Len(part) = (IF first <= last THEN last - first + 1 ELSE 0)
       /\ \A i \in 1..(last - first + 1) : part[i] = contents[first + i - 1]
  BY <1>7, <1>9, SubSeqProperties
<1>12. last - first + 1 = n /\ Len(cut) = n /\ Len(part) = n
  BY <1>5, <1>6, <1>10, <1>11
<1>13. ASSUME NEW i \in 1..n PROVE cut[i] = part[i] /\ Raw(b.type, part[i]) = part[i]
  <2>1. first + i - 1 \in 1..m
    BY <1>3, <1>5, <1>6
  <2>2. cut[i] = memory[first + i - 1] /\ part[i] = contents[first + i - 1]
    BY <1>10, <1>11, <1>12
  <2>3. Raw(b.type, contents[first + i - 1]) = contents[first + i - 1]
    BY <1>1, <1>4, <2>1 DEF KeptAs
  <2> QED
    BY <1>4, <2>1, <2>2, <2>3
<1>14. cut = part
  BY <1>10, <1>11, <1>12, <1>13, SeqEqual
<1>15. KeptAs(b.type, part)
  BY <1>12, <1>13 DEF KeptAs
<1>16. cut = PartOf(b.memory, start, n) /\ part = PartOf(contents, start, n)
  BY <1>2, <1>5, <1>6, <1>7, <1>8 DEF PartOf
<1> QED
  BY <1>11, <1>12, <1>14, <1>15, <1>16 DEF PartOK

(* clear and free. *)
LEMMA ClearedOK ==
  ASSUME NEW b, NEW contents, BufferOK(b, contents), b.alive, NEW r, r = [b EXCEPT !.count = 0]
  PROVE  BufferOK(r, <<>>)
<1>1. b \in BfRecords /\ ShowsIn(b.type, b.count, b.memory, contents)
  BY DEF BufferOK
<1>2. b.type \in BfTypes /\ b.memory \in Seq(Int)
  BY <1>1, BufferHas
<1>3. PICK e \in Seq(Int) : e = <<>>
  BY EmptySeq
<1>4. Len(e) = 0
  BY <1>3
<1>5. ShowsIn(b.type, 0, b.memory, e)
  BY <1>1, <1>2, <1>4 DEF ShowsIn
<1>6. IsBuffer(r, b.type, 0, b.memory)
  BY <1>1, WithCount
<1> QED
  BY <1>2, <1>3, <1>5, <1>6, BufferIs

LEMMA FreedOK ==
  ASSUME NEW b \in BfRecords, NEW r, r = [b EXCEPT !.alive = FALSE, !.memory = <<>>, !.count = 0]
  PROVE  BufferOK(r, <<>>)
<1>1. <<>> \in Seq(Int)
  BY EmptySeq
<1>2. r \in BfRecords /\ ~r.alive
  BY <1>1 DEF BfRecords
<1> QED
  BY <1>1, <1>2 DEF BufferOK

-----------------------------------------------------------------------------
(* Buffers of numbers: the tables and the calls *)

BfTablesOK(bs, cs) ==
  /\ bs \in Seq(BfRecords) /\ cs \in Seq(Seq(Int)) /\ Len(cs) = Len(bs)
  /\ \A g \in 1..Len(bs) : BufferOK(bs[g], cs[g])

BfInv == BfTablesOK(bfBuffers, bfContents)

LEMMA BuffersGrow ==
  ASSUME NEW bs, NEW cs, BfTablesOK(bs, cs), NEW b, NEW c, BufferOK(b, c)
  PROVE  BfTablesOK(Append(bs, b), Append(cs, c))
<1>1. b \in BfRecords /\ c \in Seq(Int) /\ bs \in Seq(BfRecords) /\ cs \in Seq(Seq(Int))
  BY DEF BfTablesOK, BufferOK
<1>2. PICK n \in Nat : n = Len(bs)
  BY <1>1
<1>3. Len(cs) = n /\ \A g \in 1..n : BufferOK(bs[g], cs[g])
  BY <1>2 DEF BfTablesOK
<1>4. PICK bs2 : bs2 = Append(bs, b)
  OBVIOUS
<1>5. PICK cs2 : cs2 = Append(cs, c)
  OBVIOUS
<1>6. /\ bs2 \in Seq(BfRecords) /\ Len(bs2) = n + 1 /\ bs2[n + 1] = b
      /\ \A g \in 1..n : bs2[g] = bs[g]
  BY <1>1, <1>2, <1>4, Appended
<1>7. /\ cs2 \in Seq(Seq(Int)) /\ Len(cs2) = n + 1 /\ cs2[n + 1] = c
      /\ \A g \in 1..n : cs2[g] = cs[g]
  BY <1>1, <1>3, <1>5, Appended
<1>8. ASSUME NEW g \in 1..(n + 1) PROVE BufferOK(bs2[g], cs2[g])
  <2>1. CASE g = n + 1
    BY <1>6, <1>7, <2>1
  <2>2. CASE g # n + 1
    <3>1. g \in 1..n
      BY <2>2
    <3> QED
      BY <1>3, <1>6, <1>7, <3>1
  <2> QED
    BY <2>1, <2>2
<1>9. BfTablesOK(bs2, cs2)
  BY <1>6, <1>7, <1>8 DEF BfTablesOK
<1> QED
  BY <1>4, <1>5, <1>9

LEMMA BufferPut ==
  ASSUME NEW bs, NEW cs, BfTablesOK(bs, cs), NEW h \in 1..Len(bs), NEW b, NEW c, BufferOK(b, c)
  PROVE  BfTablesOK(Put(bs, h, b), Put(cs, h, c))
<1>1. /\ b \in BfRecords /\ c \in Seq(Int) /\ bs \in Seq(BfRecords) /\ cs \in Seq(Seq(Int))
      /\ h \in 1..Len(cs)
  BY DEF BfTablesOK, BufferOK
<1>2. /\ Put(bs, h, b) \in Seq(BfRecords) /\ Len(Put(bs, h, b)) = Len(bs)
      /\ \A g \in 1..Len(bs) : Put(bs, h, b)[g] = IF g = h THEN b ELSE bs[g]
  BY <1>1, ExceptSeq DEF Put
<1>3. /\ Put(cs, h, c) \in Seq(Seq(Int)) /\ Len(Put(cs, h, c)) = Len(cs)
      /\ \A g \in 1..Len(cs) : Put(cs, h, c)[g] = IF g = h THEN c ELSE cs[g]
  BY <1>1, ExceptSeq DEF Put
<1>4. Len(cs) = Len(bs) /\ \A g \in 1..Len(bs) : BufferOK(bs[g], cs[g])
  BY DEF BfTablesOK
<1>5. ASSUME NEW g \in 1..Len(bs) PROVE BufferOK(Put(bs, h, b)[g], Put(cs, h, c)[g])
  <2>1. CASE g = h
    BY <1>2, <1>3, <1>4, <2>1
  <2>2. CASE g # h
    BY <1>2, <1>3, <1>4, <2>2
  <2> QED
    BY <2>1, <2>2
<1> QED
  BY <1>2, <1>3, <1>4, <1>5 DEF BfTablesOK

LEMMA Living ==
  ASSUME BfInv, NEW h \in Alive
  PROVE  /\ h \in 1..Len(bfBuffers) /\ BufferOK(bfBuffers[h], bfContents[h])
         /\ bfBuffers[h].alive /\ bfBuffers[h] \in BfRecords /\ bfContents[h] \in Seq(Int)
BY DEF BfInv, BfTablesOK, Alive, BufferOK

LEMMA MakeStep ==
  ASSUME BfInv, NEW b, NEW c, BufferOK(b, c), Make(b, c)
  PROVE  BfInv'
<1>1. bfBuffers' = Append(bfBuffers, b) /\ bfContents' = Append(bfContents, c)
  BY DEF Make
<1> QED
  BY <1>1, BuffersGrow DEF BfInv

LEMMA ChangeStep ==
  ASSUME BfInv, NEW h \in Alive, NEW b, NEW c, BufferOK(b, c), Change(h, b, c)
  PROVE  BfInv'
<1>1. bfBuffers' = Put(bfBuffers, h, b) /\ bfContents' = Put(bfContents, h, c)
  BY DEF Change, Put
<1>2. h \in 1..Len(bfBuffers)
  BY Living
<1> QED
  BY <1>1, <1>2, BufferPut DEF BfInv

LEMMA CreateStep ==
  ASSUME BfInv, NEW type \in BfTypes, NEW n \in Nat, Create(type, n)
  PROVE  BfInv'
<1>1. PICK b : b = CreatedFor(type, n)
  OBVIOUS
<1>2. PICK c : c = Zeros(n)
  OBVIOUS
<1>3. BufferOK(b, c)
  BY <1>1, <1>2, CreatedForOK
<1>4. Make(b, c)
  BY <1>1, <1>2 DEF Create
<1> QED
  BY <1>3, <1>4, MakeStep

LEMMA CreateCapacityStep ==
  ASSUME BfInv, NEW type \in BfTypes, NEW n \in Nat, NEW capacity \in Nat,
         CreateCapacity(type, n, capacity)
  PROVE  BfInv'
<1>1. PICK b : b = Created(type, n, capacity)
  OBVIOUS
<1>2. PICK c : c = Zeros(n)
  OBVIOUS
<1>3. BufferOK(b, c)
  BY <1>1, <1>2, CreatedOK
<1>4. Make(b, c)
  BY <1>1, <1>2 DEF CreateCapacity
<1> QED
  BY <1>3, <1>4, MakeStep

LEMMA FreeStep ==
  ASSUME BfInv, NEW h, FreeBuffer(h)
  PROVE  BfInv'
<1>1. h \in Alive
  BY DEF FreeBuffer
<1>2. h \in 1..Len(bfBuffers) /\ bfBuffers[h] \in BfRecords
  BY <1>1, Living
<1>3. PICK s : s = bfBuffers[h]
  OBVIOUS
<1>4. PICK b : b = [s EXCEPT !.alive = FALSE, !.memory = <<>>, !.count = 0]
  OBVIOUS
<1>5. PICK c : c = <<>>
  OBVIOUS
<1>6. BufferOK(b, c)
  BY <1>2, <1>3, <1>4, <1>5, FreedOK
<1>7. bfBuffers' = Put(bfBuffers, h, b) /\ bfContents' = Put(bfContents, h, c)
  BY <1>3, <1>4, <1>5 DEF FreeBuffer, Put
<1> QED
  BY <1>2, <1>6, <1>7, BufferPut DEF BfInv

LEMMA ClearBufferStep ==
  ASSUME BfInv, NEW h, Clear(h)
  PROVE  BfInv'
<1>1. h \in Alive
  BY DEF Clear
<1>2. PICK s : s = bfBuffers[h]
  OBVIOUS
<1>3. PICK b : b = [s EXCEPT !.count = 0]
  OBVIOUS
<1>4. PICK c : c = <<>>
  OBVIOUS
<1>5. BufferOK(b, c)
  BY <1>1, <1>2, <1>3, <1>4, Living, ClearedOK
<1>6. Change(h, b, c)
  BY <1>2, <1>3, <1>4 DEF Clear
<1> QED
  BY <1>1, <1>5, <1>6, ChangeStep

LEMMA ResizeStep ==
  ASSUME BfInv, NEW h, NEW n \in Nat, ResizeTo(h, n)
  PROVE  BfInv'
<1>1. h \in Alive
  BY DEF ResizeTo
<1>2. PICK s : s = bfBuffers[h]
  OBVIOUS
<1>3. PICK old : old = bfContents[h]
  OBVIOUS
<1>4. PICK b : b = Resized(s, n)
  OBVIOUS
<1>5. PICK c : c = Padded(old, n)
  OBVIOUS
<1>6. BufferOK(b, c)
  BY <1>1, <1>2, <1>3, <1>4, <1>5, Living, ResizedOK
<1>7. Change(h, b, c)
  BY <1>2, <1>3, <1>4, <1>5 DEF ResizeTo
<1> QED
  BY <1>1, <1>6, <1>7, ChangeStep

LEMMA ReserveStep ==
  ASSUME BfInv, NEW h, NEW n \in Nat, Reserve(h, n)
  PROVE  BfInv'
<1>1. h \in Alive
  BY DEF Reserve
<1>2. PICK s : s = bfBuffers[h]
  OBVIOUS
<1>3. PICK c : c = bfContents[h]
  OBVIOUS
<1>4. PICK b : b = Ensured(s, n)
  OBVIOUS
<1>5. BufferOK(b, c)
  BY <1>1, <1>2, <1>3, <1>4, Living, EnsuredOK
<1>6. Change(h, b, c)
  BY <1>2, <1>3, <1>4 DEF Reserve
<1> QED
  BY <1>1, <1>5, <1>6, ChangeStep

LEMMA FillZeroStep ==
  ASSUME BfInv, NEW h, FillZero(h)
  PROVE  BfInv'
<1>1. h \in Alive
  BY DEF FillZero
<1>2. PICK s : s = bfBuffers[h]
  OBVIOUS
<1>3. PICK old : old = bfContents[h]
  OBVIOUS
<1>4. BufferOK(s, old) /\ s.alive
  BY <1>1, <1>2, <1>3, Living
<1>5. PICK n \in Nat : n = Len(old) /\ s.count = n
  BY <1>4, ElementsAre
<1>6. PICK z \in Seq(Int) : z = Zeros(n) /\ Len(z) = n /\ \A i \in 1..n : z[i] = 0
  BY ZerosAre
<1>7. KeptAs(s.type, z)
  BY <1>6, RawZero DEF KeptAs
<1>8. PICK b : b = Stored(s, 0, z)
  OBVIOUS
<1>9. BufferOK(b, z)
  BY <1>4, <1>5, <1>6, <1>7, <1>8, AllKept
<1>10. Change(h, b, z)
  BY <1>2, <1>3, <1>5, <1>6, <1>8 DEF FillZero
<1> QED
  BY <1>1, <1>9, <1>10, ChangeStep

LEMMA FillWithStep ==
  ASSUME BfInv, NEW h, NEW v \in Int, FillWith(h, v)
  PROVE  BfInv'
<1>1. h \in Alive
  BY DEF FillWith
<1>2. PICK s : s = bfBuffers[h]
  OBVIOUS
<1>3. PICK old : old = bfContents[h]
  OBVIOUS
<1>4. BufferOK(s, old) /\ s.alive /\ old \in Seq(Int)
  BY <1>1, <1>2, <1>3, Living
<1>5. PICK n \in Nat : n = Len(old) /\ s.count = n
  BY <1>4, ElementsAre
<1>6. PICK a : a = [i \in 1..n |-> v]
  OBVIOUS
<1>7. a \in Seq(Int) /\ Len(a) = n /\ \A i \in 1..n : a[i] = v
  BY <1>6
<1>8. PICK b : b = Stored(s, 0, a)
  OBVIOUS
<1>9. PICK c : c = [i \in 1..Len(a) |-> Raw(s.type, a[i])]
  OBVIOUS
<1>10. BufferOK(b, c)
  BY <1>4, <1>5, <1>7, <1>8, <1>9, AllStored
<1>11. DOMAIN old = 1..n
  BY <1>4, <1>5
<1>12. c = [i \in DOMAIN old |-> Raw(s.type, v)]
  BY <1>7, <1>9, <1>11
<1>13. b = Stored(s, 0, [i \in 1..s.count |-> v])
  BY <1>5, <1>6, <1>8
<1>14. Change(h, b, c)
  BY <1>2, <1>3, <1>12, <1>13 DEF FillWith
<1> QED
  BY <1>1, <1>10, <1>14, ChangeStep

LEMMA CloneStep ==
  ASSUME BfInv, NEW h, CloneOf(h)
  PROVE  BfInv'
<1>1. h \in Alive
  BY DEF CloneOf
<1>2. PICK s : s = bfBuffers[h]
  OBVIOUS
<1>3. PICK c : c = bfContents[h]
  OBVIOUS
<1>4. BufferOK(s, c) /\ s.alive /\ c \in Seq(Int) /\ s \in BfRecords
  BY <1>1, <1>2, <1>3, Living
<1>5. PICK n \in Nat : n = Len(c) /\ s.count = n
  BY <1>4, ElementsAre
<1>6. Elements(s) = c /\ KeptAs(s.type, c)
  BY <1>4, ElementsAre, ContentsKept
<1>7. PICK m \in Nat : m = Len(s.memory)
  BY <1>4, BufferHas
<1>8. PICK type \in BfTypes : type = s.type
  BY <1>4, BufferHas
<1>9. PICK d : d = Created(type, n, m)
  OBVIOUS
<1>10. PICK z \in Seq(Int) : z = Zeros(n) /\ Len(z) = n
  BY ZerosAre
<1>11. BufferOK(d, z) /\ d.alive /\ d.type = type
  BY <1>9, <1>10, CreatedOK
<1>12. PICK b : b = Stored(d, 0, c)
  OBVIOUS
<1>13. BufferOK(b, c)
  BY <1>4, <1>5, <1>6, <1>8, <1>10, <1>11, <1>12, AllKept
<1>14. Make(b, c)
  BY <1>2, <1>3, <1>5, <1>6, <1>7, <1>8, <1>9, <1>12 DEF CloneOf
<1> QED
  BY <1>13, <1>14, MakeStep

LEMMA SliceStep ==
  ASSUME BfInv, NEW h, NEW start \in Nat, NEW n \in Nat, SliceOf(h, start, n)
  PROVE  BfInv'
<1>1. h \in Alive /\ start + n <= bfBuffers[h].count
  BY DEF SliceOf
<1>2. PICK s : s = bfBuffers[h]
  OBVIOUS
<1>3. PICK old : old = bfContents[h]
  OBVIOUS
<1>4. BufferOK(s, old) /\ s.alive /\ s \in BfRecords
  BY <1>1, <1>2, <1>3, Living
<1>5. PICK part : part = SubSeq(old, start + 1, start + n)
  OBVIOUS
<1>6. /\ SubSeq(s.memory, start + 1, start + n) = part
      /\ part \in Seq(Int) /\ Len(part) = n /\ KeptAs(s.type, part)
  <2>1. Within(s, start, n)
    BY <1>1, <1>2 DEF Within
  <2>2. PartOK(s, old, start, n)
    BY <1>4, <2>1, PartIs
  <2> QED
    BY <1>5, <2>2 DEF PartOK, PartOf
<1>7. PICK type \in BfTypes : type = s.type
  BY <1>4, BufferHas
<1>8. PICK d : d = CreatedFor(type, n)
  OBVIOUS
<1>9. PICK z \in Seq(Int) : z = Zeros(n) /\ Len(z) = n
  BY ZerosAre
<1>10. BufferOK(d, z) /\ d.alive /\ d.type = type
  BY <1>8, <1>9, CreatedForOK
<1>11. PICK b : b = Stored(d, 0, part)
  OBVIOUS
<1>12. BufferOK(b, part)
  BY <1>6, <1>7, <1>9, <1>10, <1>11, AllKept
<1>13. Make(b, part)
  BY <1>2, <1>3, <1>5, <1>6, <1>7, <1>8, <1>11 DEF SliceOf
<1> QED
  BY <1>12, <1>13, MakeStep

LEMMA CastStep ==
  ASSUME BfInv, NEW h, NEW type \in BfTypes, Cast(h, type)
  PROVE  BfInv'
<1>1. h \in Alive
  BY DEF Cast
<1>2. PICK s : s = bfBuffers[h]
  OBVIOUS
<1>3. PICK old : old = bfContents[h]
  OBVIOUS
<1>4. BufferOK(s, old) /\ s.alive /\ old \in Seq(Int)
  BY <1>1, <1>2, <1>3, Living
<1>5. PICK n \in Nat : n = Len(old) /\ s.count = n /\ Elements(s) = old
  BY <1>4, ElementsAre
<1>6. PICK d : d = CreatedFor(type, n)
  OBVIOUS
<1>7. PICK z \in Seq(Int) : z = Zeros(n) /\ Len(z) = n
  BY ZerosAre
<1>8. BufferOK(d, z) /\ d.alive /\ d.type = type
  BY <1>6, <1>7, CreatedForOK
<1>9. PICK b : b = Stored(d, 0, old)
  OBVIOUS
<1>10. PICK c : c = [i \in 1..Len(old) |-> Raw(d.type, old[i])]
  OBVIOUS
<1>11. BufferOK(b, c)
  BY <1>4, <1>5, <1>7, <1>8, <1>9, <1>10, AllStored
<1>12. DOMAIN old = 1..Len(old)
  BY <1>4
<1>13. c = [i \in DOMAIN old |-> Raw(type, old[i])]
  BY <1>8, <1>10, <1>12
<1>14. Make(b, c)
  BY <1>2, <1>3, <1>5, <1>6, <1>9, <1>13 DEF Cast
<1> QED
  BY <1>11, <1>14, MakeStep

LEMMA CopyToStep ==
  ASSUME BfInv, NEW h, NEW g, CopyTo(h, g)
  PROVE  BfInv'
<1>1. h \in Alive /\ g \in Alive /\ bfBuffers[h].type = bfBuffers[g].type
  BY DEF CopyTo
<1>2. PICK s : s = bfBuffers[h]
  OBVIOUS
<1>3. PICK c : c = bfContents[h]
  OBVIOUS
<1>4. PICK d : d = bfBuffers[g]
  OBVIOUS
<1>5. PICK old : old = bfContents[g]
  OBVIOUS
<1>6. BufferOK(s, c) /\ s.alive /\ c \in Seq(Int)
  BY <1>1, <1>2, <1>3, Living
<1>7. BufferOK(d, old) /\ d.alive /\ d.type = s.type
  BY <1>1, <1>2, <1>4, <1>5, Living
<1>8. PICK n \in Nat : n = Len(c) /\ s.count = n /\ Elements(s) = c
  BY <1>6, ElementsAre
<1>9. PICK r : r = Resized(d, n)
  OBVIOUS
<1>10. PICK p : p = Padded(old, n)
  OBVIOUS
<1>11. BufferOK(r, p) /\ r.alive /\ r.type = s.type /\ Len(p) = n
  BY <1>7, <1>9, <1>10, PaddedLength
<1>12. KeptAs(s.type, c)
  BY <1>6, ContentsKept
<1>13. PICK b : b = Stored(r, 0, c)
  OBVIOUS
<1>14. BufferOK(b, c)
  BY <1>6, <1>8, <1>11, <1>12, <1>13, AllKept
<1>15. Change(g, b, c)
  BY <1>2, <1>3, <1>4, <1>8, <1>9, <1>13 DEF CopyTo
<1> QED
  BY <1>1, <1>14, <1>15, ChangeStep

LEMMA AppendToStep ==
  ASSUME BfInv, NEW h, NEW g, AppendTo(h, g)
  PROVE  BfInv'
<1>1. h \in Alive /\ g \in Alive /\ bfBuffers[h].type = bfBuffers[g].type
  BY DEF AppendTo
<1>2. PICK s : s = bfBuffers[h]
  OBVIOUS
<1>3. PICK c : c = bfContents[h]
  OBVIOUS
<1>4. PICK d : d = bfBuffers[g]
  OBVIOUS
<1>5. PICK old : old = bfContents[g]
  OBVIOUS
<1>6. BufferOK(s, c) /\ s.alive /\ c \in Seq(Int)
  BY <1>1, <1>2, <1>3, Living
<1>7. BufferOK(d, old) /\ d.alive /\ d.type = s.type
  BY <1>1, <1>2, <1>4, <1>5, Living
<1>8. s.count = Len(c) /\ Elements(s) = c
  BY <1>6, ElementsAre
<1>9. d.count = Len(old)
  BY <1>7, ElementsAre
<1>10. KeptAs(d.type, c)
  BY <1>6, <1>7, ContentsKept
<1>11. PICK b : b = Stored(Resized(d, Len(old) + Len(c)), Len(old), c)
  OBVIOUS
<1>12. PICK new : new = old \o c
  OBVIOUS
<1>13. BufferOK(b, new)
  BY <1>6, <1>7, <1>10, <1>11, <1>12, AppendedOK
<1>14. Change(g, b, new)
  BY <1>2, <1>3, <1>4, <1>5, <1>8, <1>9, <1>11, <1>12 DEF AppendTo
<1> QED
  BY <1>1, <1>13, <1>14, ChangeStep

LEMMA SetAtStep ==
  ASSUME BfInv, NEW h, NEW i \in Nat, NEW v \in Int, SetAt(h, i, v)
  PROVE  BfInv'
<1>1. h \in Alive
  BY DEF SetAt
<1>2. PICK s : s = bfBuffers[h]
  OBVIOUS
<1>3. PICK old : old = bfContents[h]
  OBVIOUS
<1>4. BufferOK(s, old) /\ s.alive
  BY <1>1, <1>2, <1>3, Living
<1>5. PICK b : b = Stored(Resized(s, i + 1), i, <<v>>)
  OBVIOUS
<1>6. PICK c : c = Append(Padded(old, i), Raw(s.type, v))
  OBVIOUS
<1>7. BufferOK(b, c)
  BY <1>4, <1>5, <1>6, PlacedOK
<1>8. Change(h, b, c)
  BY <1>2, <1>3, <1>5, <1>6 DEF SetAt
<1> QED
  BY <1>1, <1>7, <1>8, ChangeStep

LEMMA PushStep ==
  ASSUME BfInv, NEW h, NEW v \in Int, Push(h, v)
  PROVE  BfInv'
<1>1. h \in Alive
  BY DEF Push
<1>2. PICK i \in Nat : i = bfBuffers[h].count
  BY <1>1, Living, BufferHas
<1>3. SetAt(h, i, v)
  BY <1>2 DEF Push
<1> QED
  BY <1>3, SetAtStep

LEMMA CopyFromMemoryStep ==
  ASSUME BfInv, NEW h, NEW values \in Seq(Int), CopyFromMemory(h, values)
  PROVE  BfInv'
<1>1. h \in Alive /\ \A i \in DOMAIN values : Raw(bfBuffers[h].type, values[i]) = values[i]
  BY DEF CopyFromMemory
<1>2. PICK s : s = bfBuffers[h]
  OBVIOUS
<1>3. PICK old : old = bfContents[h]
  OBVIOUS
<1>4. BufferOK(s, old) /\ s.alive
  BY <1>1, <1>2, <1>3, Living
<1>5. PICK n \in Nat : n = Len(values) /\ DOMAIN values = 1..n
  OBVIOUS
<1>6. KeptAs(s.type, values)
  BY <1>1, <1>2, <1>5 DEF KeptAs
<1>7. PICK r : r = Resized(s, n)
  OBVIOUS
<1>8. PICK p : p = Padded(old, n)
  OBVIOUS
<1>9. BufferOK(r, p) /\ r.alive /\ r.type = s.type /\ Len(p) = n
  BY <1>4, <1>7, <1>8, PaddedLength
<1>10. PICK b : b = Stored(r, 0, values)
  OBVIOUS
<1>11. BufferOK(b, values)
  BY <1>5, <1>6, <1>9, <1>10, AllKept
<1>12. Change(h, b, values)
  BY <1>2, <1>5, <1>7, <1>10 DEF CopyFromMemory
<1> QED
  BY <1>1, <1>11, <1>12, ChangeStep

LEMMA LinearInt ==
  ASSUME NEW a \in Int, NEW p \in Int, NEW b \in Int, NEW q \in Int
  PROVE  a * p + b * q \in Int
OBVIOUS

LEMMA CombinedIs ==
  ASSUME NEW x \in Seq(Int), NEW y \in Seq(Int), Len(x) = Len(y), NEW alpha \in Int, NEW beta \in Int
  PROVE  Combined(x, y, alpha, beta) \in Seq(Int) /\ Len(Combined(x, y, alpha, beta)) = Len(x)
<1>1. PICK n \in Nat : n = Len(x)
  OBVIOUS
<1>2. ASSUME NEW i \in 1..n PROVE alpha * x[i] + beta * y[i] \in Int
  <2>1. x[i] \in Int /\ y[i] \in Int
    BY <1>1
  <2> QED
    BY <2>1, LinearInt
<1>3. PICK c : c = [i \in 1..n |-> alpha * x[i] + beta * y[i]]
  OBVIOUS
<1>4. c \in Seq(Int) /\ Len(c) = n
  BY <1>2, <1>3
<1> QED
  BY <1>1, <1>3, <1>4 DEF Combined

LEMMA CombineStep ==
  ASSUME BfInv, NEW g, NEW h, NEW out, NEW alpha \in Int, NEW beta \in Int,
         Combine(g, h, out, alpha, beta)
  PROVE  BfInv'
<1>1. g \in Alive /\ h \in Alive /\ out \in Alive
      /\ Len(Elements(bfBuffers[g])) = Len(Elements(bfBuffers[h]))
  BY DEF Combine
<1>2. PICK x : x = bfContents[g]
  OBVIOUS
<1>3. PICK y : y = bfContents[h]
  OBVIOUS
<1>4. Elements(bfBuffers[g]) = x /\ x \in Seq(Int)
  BY <1>1, <1>2, Living, ElementsAre
<1>5. Elements(bfBuffers[h]) = y /\ y \in Seq(Int)
  BY <1>1, <1>3, Living, ElementsAre
<1>6. PICK o : o = bfBuffers[out]
  OBVIOUS
<1>7. PICK old : old = bfContents[out]
  OBVIOUS
<1>8. BufferOK(o, old) /\ o.alive
  BY <1>1, <1>6, <1>7, Living
<1>9. PICK n \in Nat : n = Len(x) /\ n = Len(y) /\ DOMAIN x = 1..n
  BY <1>1, <1>4, <1>5
<1>10. PICK z \in Seq(Int) : z = Combined(x, y, alpha, beta) /\ Len(z) = n
  BY <1>4, <1>5, <1>9, CombinedIs
<1>11. PICK r : r = Resized(o, n)
  OBVIOUS
<1>12. PICK p : p = Padded(old, n)
  OBVIOUS
<1>13. BufferOK(r, p) /\ r.alive /\ r.type = o.type /\ Len(p) = n
  BY <1>8, <1>11, <1>12, PaddedLength
<1>14. PICK b : b = Stored(r, 0, z)
  OBVIOUS
<1>15. PICK c : c = [i \in 1..Len(z) |-> Raw(r.type, z[i])]
  OBVIOUS
<1>16. BufferOK(b, c)
  BY <1>10, <1>13, <1>14, <1>15, AllStored
<1>17. c = [i \in DOMAIN x |-> Raw(o.type, z[i])]
  BY <1>9, <1>10, <1>13, <1>15
<1>18. Change(out, b, c)
  BY <1>2, <1>3, <1>4, <1>5, <1>6, <1>9, <1>10, <1>11, <1>14, <1>17 DEF Combine
<1> QED
  BY <1>1, <1>16, <1>18, ChangeStep

LEMMA BfInitInv == BfInit => BfInv
<1> SUFFICES ASSUME BfInit PROVE BfInv
  OBVIOUS
<1>1. PICK bs \in Seq(BfRecords) : bs = <<>>
  BY EmptySeq
<1>2. PICK cs \in Seq(Seq(Int)) : cs = <<>>
  BY EmptySeq
<1>3. BfTablesOK(bs, cs)
  BY <1>1, <1>2 DEF BfTablesOK
<1> QED
  BY <1>1, <1>2, <1>3 DEF BfInit, BfInv

LEMMA BfNextInv == BfInv /\ [BfNext]_bfVars => BfInv'
<1> SUFFICES ASSUME BfInv, [BfNext]_bfVars PROVE BfInv'
  OBVIOUS
<1>1. CASE UNCHANGED bfVars
  BY <1>1 DEF bfVars, BfInv
<1>2. ASSUME NEW type \in BfTypes, NEW n \in 0..BfLength, Create(type, n) PROVE BfInv'
  BY <1>2, BfAssumption, CreateStep
<1>3. ASSUME NEW type \in BfTypes, NEW n \in 0..BfLength, NEW capacity \in 0..BfLength,
             CreateCapacity(type, n, capacity)
      PROVE  BfInv'
  <2>1. n \in Nat /\ capacity \in Nat
    BY BfAssumption
  <2> QED
    BY <1>3, <2>1, CreateCapacityStep
<1>4. ASSUME NEW type \in BfTypes, NEW h \in 1..BfBuffers, Cast(h, type) PROVE BfInv'
  BY <1>4, CastStep
<1>5. ASSUME NEW h \in 1..BfBuffers, FreeBuffer(h) \/ Clear(h) \/ FillZero(h) \/ CloneOf(h) PROVE BfInv'
  BY <1>5, FreeStep, ClearBufferStep, FillZeroStep, CloneStep
<1>6. ASSUME NEW h \in 1..BfBuffers, NEW n \in 0..BfLength, ResizeTo(h, n) \/ Reserve(h, n) PROVE BfInv'
  <2>1. n \in Nat
    BY BfAssumption
  <2> QED
    BY <1>6, <2>1, ResizeStep, ReserveStep
<1>7. ASSUME NEW h \in 1..BfBuffers, NEW n \in 0..BfLength, NEW start \in 0..BfLength, SliceOf(h, start, n)
      PROVE  BfInv'
  <2>1. n \in Nat /\ start \in Nat
    BY BfAssumption
  <2> QED
    BY <1>7, <2>1, SliceStep
<1>8. ASSUME NEW h \in 1..BfBuffers, NEW v \in BfValues,
             Push(h, v) \/ FillWith(h, v) \/ CopyFromMemory(h, <<v, 0>>)
      PROVE  BfInv'
  <2>1. v \in Int
    BY BfAssumption
  <2>2. CASE Push(h, v)
    BY <2>1, <2>2, PushStep
  <2>3. CASE FillWith(h, v)
    BY <2>1, <2>3, FillWithStep
  <2>4. CASE CopyFromMemory(h, <<v, 0>>)
    <3>1. PICK values : values = <<v, 0>>
      OBVIOUS
    <3>2. values \in Seq(Int)
      BY <2>1, <3>1
    <3>3. CopyFromMemory(h, values)
      BY <2>4, <3>1
    <3> QED
      BY <3>2, <3>3, CopyFromMemoryStep
  <2> QED
    BY <1>8, <2>2, <2>3, <2>4
<1>9. ASSUME NEW h \in 1..BfBuffers, NEW v \in BfValues, NEW i \in 0..(BfLength - 1), SetAt(h, i, v)
      PROVE  BfInv'
  <2>1. v \in Int /\ i \in Nat
    BY BfAssumption
  <2> QED
    BY <1>9, <2>1, SetAtStep
<1>10. ASSUME NEW h \in 1..BfBuffers, NEW g \in 1..BfBuffers, CopyTo(h, g) \/ AppendTo(h, g) PROVE BfInv'
  BY <1>10, CopyToStep, AppendToStep
<1>11. ASSUME NEW h \in 1..BfBuffers, NEW g \in 1..BfBuffers, NEW out \in {h, g}, NEW beta \in {1, -1, 0},
              Combine(h, g, out, 2, beta)
       PROVE  BfInv'
  <2>1. beta \in Int /\ 2 \in Int
    OBVIOUS
  <2> QED
    BY <1>11, <2>1, CombineStep
<1>12. ASSUME BfNext PROVE BfInv'
  BY <1>2, <1>3, <1>4, <1>5, <1>6, <1>7, <1>8, <1>9, <1>10, <1>11, <1>12, Zenon DEF BfNext
<1> QED
  BY <1>1, <1>12

(* Whatever the calls before, a buffer shows what the calls gave it: nothing  *)
(* that was cleared or cut off comes back into sight when it grows again.     *)
THEOREM BuffersAlwaysShown == BfSpec => []BuffersShown
<1>1. BfInv => BuffersShown
  <2> SUFFICES ASSUME BfInv, NEW h \in Alive
               PROVE  /\ bfBuffers[h].count <= Len(bfBuffers[h].memory)
                      /\ Elements(bfBuffers[h]) = bfContents[h]
    BY DEF BuffersShown
  <2>1. PICK s : s = bfBuffers[h]
    OBVIOUS
  <2>2. PICK c : c = bfContents[h]
    OBVIOUS
  <2>3. BufferOK(s, c) /\ s.alive
    BY <2>1, <2>2, Living
  <2>4. Elements(s) = c /\ s.count <= Len(s.memory)
    BY <2>3, ElementsAre DEF BufferOK, ShowsIn
  <2> QED
    BY <2>1, <2>2, <2>4
<1>2. BfInv /\ [BfNext]_bfVars => BfInv'
  BY BfNextInv
<1> QED
  BY <1>1, <1>2, BfInitInv, PTL DEF BfSpec

-----------------------------------------------------------------------------
(* The ordered hashes of the library *)

HashOf(table, order) == [table |-> table, order |-> order]
AFunction(f) == f = [x \in DOMAIN f |-> f[x]]

(* A hash that shows c: its table is c, and its list has the keys of c, once. *)
HashShows(o, c) ==
  /\ AFunction(c)
  /\ \E order \in Seq(UcKeys) : o = HashOf(c, order) /\ KeysOK(order, DOMAIN c)

UcHashInv ==
  /\ AFunction(ucHashes) /\ DOMAIN ucHashes = 1..2
  /\ AFunction(ucContents) /\ DOMAIN ucContents = 1..2
  /\ \A h \in 1..2 : HashShows(ucHashes[h], ucContents[h])

LEMMA HashFields ==
  ASSUME NEW table, NEW order
  PROVE  HashOf(table, order).table = table /\ HashOf(table, order).order = order
BY DEF HashOf

LEMMA HashKeysOf ==
  ASSUME NEW order \in Seq(UcKeys), NEW held, KeysOK(order, held)
  PROVE  ToSet(order) = held /\ IsInjective(order)
<1>1. DOMAIN order = 1..Len(order)
  OBVIOUS
<1>2. ToSet(order) = {order[i] : i \in 1..Len(order)}
  BY <1>1 DEF ToSet
<1> QED
  BY <1>1, <1>2 DEF KeysOK, IsInjective

LEMMA ReplacedIs ==
  ASSUME NEW c, NEW k, NEW v
  PROVE  AFunction(Replaced(c, k, v)) /\ DOMAIN Replaced(c, k, v) = DOMAIN c \cup {k}
<1>1. PICK f : f = Replaced(c, k, v)
  OBVIOUS
<1>2. f = [x \in DOMAIN c \cup {k} |-> IF x = k THEN v ELSE c[x]]
  BY <1>1 DEF Replaced
<1>3. DOMAIN f = DOMAIN c \cup {k} /\ f = [x \in DOMAIN f |-> f[x]]
  BY <1>2
<1> QED
  BY <1>1, <1>3 DEF AFunction

LEMMA HashSetOK ==
  ASSUME NEW o, NEW c, HashShows(o, c), NEW k \in UcKeys, NEW v
  PROVE  HashShows(HashSet(o, k, v), Replaced(c, k, v))
<1>1. PICK order \in Seq(UcKeys) : o = HashOf(c, order) /\ KeysOK(order, DOMAIN c)
  BY DEF HashShows
<1>2. o.table = c /\ o.order = order
  BY <1>1, HashFields
<1>3. PICK d : d = Replaced(c, k, v)
  OBVIOUS
<1>4. AFunction(d) /\ DOMAIN d = DOMAIN c \cup {k}
  BY <1>3, ReplacedIs
<1>5. CASE k \in DOMAIN c
  <2>1. HashSet(o, k, v) = HashOf(d, order)
    BY <1>2, <1>3, <1>5 DEF HashSet, HashOf
  <2>2. DOMAIN d = DOMAIN c
    BY <1>4, <1>5
  <2> QED
    BY <1>1, <1>3, <1>4, <2>1, <2>2 DEF HashShows
<1>6. CASE k \notin DOMAIN c
  <2>1. HashSet(o, k, v) = HashOf(d, Append(order, k))
    BY <1>2, <1>3, <1>6 DEF HashSet, HashOf
  <2>2. NewKey(order, k)
    BY <1>1, <1>6 DEF KeysOK, NewKey
  <2>3. KeysOK(Append(order, k), DOMAIN d)
    BY <1>1, <1>4, <2>2, KeyAdded
  <2>4. Append(order, k) \in Seq(UcKeys)
    OBVIOUS
  <2> QED
    BY <1>3, <1>4, <2>1, <2>3, <2>4 DEF HashShows
<1> QED
  BY <1>5, <1>6

(* The search finds the place of the key that goes. *)
LEMMA PlaceFound ==
  ASSUME NEW order \in Seq(UcKeys), NEW held, KeysOK(order, held), NEW k \in held
  PROVE  \E i \in 0..(Len(order) - 1) :
           /\ SelectInSeq(order, LAMBDA x : x = k) = i + 1 /\ order[i + 1] = k
<1> DEFINE places == {i \in 1..Len(order) : order[i] = k}
<1>1. PICK m \in 1..Len(order) : order[m] = k
  BY DEF KeysOK
<1>2. \A j \in 1..Len(order) : order[j] = k => j = m
  BY <1>1 DEF KeysOK
<1>3. places = {m}
  BY <1>1, <1>2
<1>4. Min(places) = m
  <2>1. Min({m}) = m
    BY <1>1 DEF Min
  <2> QED
    BY <1>3, <2>1
<1>5. SelectInSeq(order, LAMBDA x : x = k) = m
  BY <1>3, <1>4 DEF SelectInSeq
<1>6. m - 1 \in 0..(Len(order) - 1) /\ (m - 1) + 1 = m
  BY <1>1
<1> QED
  BY <1>1, <1>5, <1>6

LEMMA HashRemoveOK ==
  ASSUME NEW o, NEW c, HashShows(o, c), NEW k, NEW d, d = [x \in DOMAIN c \ {k} |-> c[x]]
  PROVE  HashShows(HashRemove(o, k), d)
<1>1. PICK order \in Seq(UcKeys) : o = HashOf(c, order) /\ KeysOK(order, DOMAIN c)
  BY DEF HashShows
<1>2. o.table = c /\ o.order = order
  BY <1>1, HashFields
<1>3. AFunction(d) /\ DOMAIN d = DOMAIN c \ {k}
  BY DEF AFunction
<1>4. CASE k \notin DOMAIN c
  <2>1. DOMAIN c \ {k} = DOMAIN c
    BY <1>4
  <2>2. d = c
    BY <2>1 DEF HashShows, AFunction
  <2>3. HashRemove(o, k) = o
    BY <1>2, <1>4 DEF HashRemove
  <2> QED
    BY <2>2, <2>3
<1>5. CASE k \in DOMAIN c
  <2>1. PICK i \in 0..(Len(order) - 1) :
          SelectInSeq(order, LAMBDA x : x = k) = i + 1 /\ order[i + 1] = k
    BY <1>1, <1>5, PlaceFound
  <2>2. RemoveAt(order, i + 1) = WithoutPosition(order, i)
    <3>1. (i + 1) - 1 = i /\ (i + 1) + 1 = i + 2
      BY <2>1
    <3> QED
      BY <3>1 DEF RemoveAt, WithoutPosition
  <2>3. HashRemove(o, k) = HashOf(d, WithoutPosition(order, i))
    BY <1>2, <1>5, <2>1, <2>2 DEF HashRemove, HashOf
  <2>4. WithoutPosition(order, i) \in Seq(UcKeys)
    BY <2>1, WithoutIs
  <2>5. KeysOK(WithoutPosition(order, i), DOMAIN c \ {order[i + 1]})
    BY <1>1, <2>1, KeyTaken
  <2> QED
    BY <1>3, <2>1, <2>3, <2>4, <2>5 DEF HashShows
<1> QED
  BY <1>4, <1>5

(* A step changes one of the hashes. *)
HashBecomes(h, x, c) ==
  /\ ucHashes' = [ucHashes EXCEPT ![h] = x]
  /\ ucContents' = [ucContents EXCEPT ![h] = c]

LEMMA HashBecomesOK ==
  ASSUME UcHashInv, NEW h \in 1..2, NEW x, NEW c, HashBecomes(h, x, c), HashShows(x, c)
  PROVE  UcHashInv'
<1>1. ucHashes' = [i \in 1..2 |-> IF i = h THEN x ELSE ucHashes[i]]
  BY DEF UcHashInv, AFunction, HashBecomes
<1>2. ucContents' = [i \in 1..2 |-> IF i = h THEN c ELSE ucContents[i]]
  BY DEF UcHashInv, AFunction, HashBecomes
<1>3. AFunction(ucHashes') /\ DOMAIN ucHashes' = 1..2
  BY <1>1 DEF AFunction
<1>4. AFunction(ucContents') /\ DOMAIN ucContents' = 1..2
  BY <1>2 DEF AFunction
<1>5. ASSUME NEW i \in 1..2 PROVE HashShows(ucHashes'[i], ucContents'[i])
  <2>1. CASE i = h
    <3>1. ucHashes'[i] = x /\ ucContents'[i] = c
      BY <1>1, <1>2, <2>1
    <3> QED
      BY <3>1
  <2>2. CASE i # h
    <3>1. ucHashes'[i] = ucHashes[i] /\ ucContents'[i] = ucContents[i]
      BY <1>1, <1>2, <2>2
    <3> QED
      BY <3>1 DEF UcHashInv
  <2> QED
    BY <2>1, <2>2
<1> QED
  BY <1>3, <1>4, <1>5 DEF UcHashInv, AFunction

LEMMA InsertedInv ==
  ASSUME UcHashInv, NEW h \in 1..2, NEW k \in UcKeys, NEW v, Inserted(h, k, v)
  PROVE  UcHashInv'
<1>1. HashBecomes(h, HashSet(ucHashes[h], k, v), Replaced(ucContents[h], k, v))
  BY DEF Inserted, HashBecomes
<1>2. HashShows(ucHashes[h], ucContents[h])
  BY DEF UcHashInv
<1>3. HashShows(HashSet(ucHashes[h], k, v), Replaced(ucContents[h], k, v))
  BY <1>2, HashSetOK
<1> QED
  BY <1>1, <1>3, HashBecomesOK

LEMMA RemovedInv ==
  ASSUME UcHashInv, NEW h \in 1..2, NEW k, Removed(h, k)
  PROVE  UcHashInv'
<1>1. PICK d : d = [x \in DOMAIN ucContents[h] \ {k} |-> ucContents[h][x]]
  OBVIOUS
<1>2. HashBecomes(h, HashRemove(ucHashes[h], k), d)
  BY <1>1 DEF Removed, HashBecomes
<1>3. HashShows(ucHashes[h], ucContents[h])
  BY DEF UcHashInv
<1>4. HashShows(HashRemove(ucHashes[h], k), d)
  BY <1>1, <1>3, HashRemoveOK
<1> QED
  BY <1>2, <1>4, HashBecomesOK

LEMMA UcHashInitInv == UcInit => UcHashInv
<1> SUFFICES ASSUME UcInit PROVE UcHashInv
  OBVIOUS
<1>1. PICK none : none = [k \in {} |-> 0]
  OBVIOUS
<1>2. AFunction(none) /\ DOMAIN none = {}
  BY <1>1 DEF AFunction
<1>3. NewHash = HashOf(none, <<>>) /\ NewHash.table = none
  BY <1>1 DEF NewHash, HashOf
<1>4. KeysOK(<<>>, DOMAIN none)
  BY <1>2 DEF KeysOK
<1>5. <<>> \in Seq(UcKeys)
  OBVIOUS
<1>6. HashShows(NewHash, none)
  BY <1>2, <1>3, <1>4, <1>5 DEF HashShows
<1>7. ucHashes = [h \in 1..2 |-> NewHash] /\ ucContents = [h \in 1..2 |-> none]
  BY <1>3 DEF UcInit
<1> QED
  BY <1>6, <1>7 DEF UcHashInv, AFunction

LEMMA UcHashNextInv == UcHashInv /\ [UcNext]_ucVars => UcHashInv'
<1> SUFFICES ASSUME UcHashInv, [UcNext]_ucVars PROVE UcHashInv'
  OBVIOUS
<1>1. CASE UNCHANGED <<ucHashes, ucContents>>
  BY <1>1 DEF UcHashInv, AFunction
<1>2. ASSUME UcListNext PROVE UNCHANGED <<ucHashes, ucContents>>
  BY <1>2, Zenon DEF UcListNext, ListPush, ListInsertAt, ListRemoveAt, UxcListSet, ListClear, ListExtend
<1>3. ASSUME UcQueueNext PROVE UNCHANGED <<ucHashes, ucContents>>
  BY <1>3, Zenon DEF UcQueueNext, QueueNew, QueuePush, QueuePop, QueuePushRange, DequeRotate, QueueClear
<1>4. ASSUME UcHashNext PROVE UcHashInv'
  <2>1. PICK h \in 1..2 :
          \/ \E k \in UcKeys, v \in UcValues \cup UcNumbers : Inserted(h, k, v)
          \/ \E k : Removed(h, k)
    BY <1>4, Zenon DEF UcHashNext, DictSetValue, DictSetDefault, HashRemoveKey, DictPopFirst,
                       DictPopLast, SetPop
  <2>2. ASSUME NEW k \in UcKeys, NEW v \in UcValues \cup UcNumbers, Inserted(h, k, v) PROVE UcHashInv'
    BY <2>2, InsertedInv
  <2>3. ASSUME NEW k, Removed(h, k) PROVE UcHashInv'
    BY <2>3, RemovedInv
  <2> QED
    BY <2>1, <2>2, <2>3
<1>5. CASE UNCHANGED ucVars
  BY <1>1, <1>5 DEF ucVars
<1> QED
  BY <1>1, <1>2, <1>3, <1>4, <1>5 DEF UcNext

(* HashesKept (uxcollections_glib.c): in any sequence of calls, for any keys  *)
(* and for values that are texts and numbers, the table and the list of keys *)
(* of an ordered hash agree and are what was set and not removed, each key    *)
(* listed once; also when the default for a known key is a text and takes the *)
(* place of a number, and when a pop of a member that its buffer cuts off     *)
(* takes out another one, or none.                                           *)
THEOREM HashesAlwaysKept == UcSpec => []HashesKept
<1>1. ASSUME UcHashInv PROVE HashesKept
  <2>1. ASSUME NEW h \in 1..2
        PROVE  ucHashes[h].table = ucContents[h] /\ HashIs(ucHashes[h], DOMAIN ucContents[h])
    <3>1. PICK order \in Seq(UcKeys) :
            ucHashes[h] = HashOf(ucContents[h], order) /\ KeysOK(order, DOMAIN ucContents[h])
      BY <1>1 DEF UcHashInv, HashShows
    <3>2. ucHashes[h].table = ucContents[h] /\ ucHashes[h].order = order
      BY <3>1, HashFields
    <3>3. ToSet(order) = DOMAIN ucContents[h] /\ IsInjective(order)
      BY <3>1, HashKeysOf
    <3> QED
      BY <3>2, <3>3 DEF HashIs
  <2> QED
    BY <2>1 DEF HashesKept
<1> QED
  BY <1>1, UcHashInitInv, UcHashNextInv, PTL DEF UcSpec

-----------------------------------------------------------------------------
(* The queues of the library *)

QueueOf(kind, items) == [kind |-> kind, items |-> items]

Rising(s) == \A i, j \in 1..Len(s) : i < j => s[i] < s[j]
Falling(s) == \A i, j \in 1..Len(s) : i < j => s[i] > s[j]
AllBelow(s, t) == \A i \in 1..Len(s) : s[i] < t

(* The items of a queue or a stack, oldest and newest first, all of them      *)
(* numbered below the next ticket; what a deque has does not matter here.     *)
ItemsOK(kind, items, ticket) ==
  kind # "DEQUE" =>
    /\ items \in Seq(Nat) /\ AllBelow(items, ticket)
    /\ kind = "QUEUE" => Rising(items)
    /\ kind = "STACK" => Falling(items)

UcQueueInv ==
  /\ ucTicket \in Nat
  /\ \E kind \in {"STACK", "QUEUE", "DEQUE"} : \E items :
       ucQueue = QueueOf(kind, items) /\ ItemsOK(kind, items, ucTicket)

LEMMA QueueFields ==
  ASSUME NEW kind, NEW items
  PROVE  QueueOf(kind, items).kind = kind /\ QueueOf(kind, items).items = items
BY DEF QueueOf

LEMMA QueueWith ==
  ASSUME NEW kind, NEW items, NEW x
  PROVE  [QueueOf(kind, items) EXCEPT !.items = x] = QueueOf(kind, x)
BY DEF QueueOf

LEMMA RisesBy ==
  ASSUME NEW s \in Seq(Nat), NEW t \in Nat, AllBelow(s, t), Rising(s)
  PROVE  Append(s, t) \in Seq(Nat) /\ AllBelow(Append(s, t), t + 1) /\ Rising(Append(s, t))
<1>1. PICK n \in Nat : n = Len(s)
  OBVIOUS
<1>2. PICK r : r = Append(s, t)
  OBVIOUS
<1>3. /\ r \in Seq(Nat) /\ Len(r) = n + 1 /\ r[n + 1] = t
      /\ \A i \in 1..n : r[i] = s[i] /\ s[i] \in Nat /\ s[i] < t
  BY <1>1, <1>2, Appended DEF AllBelow
<1>4. ASSUME NEW i \in 1..(n + 1) PROVE r[i] < t + 1
  BY <1>3
<1>5. ASSUME NEW i \in 1..(n + 1), NEW j \in 1..(n + 1), i < j PROVE r[i] < r[j]
  <2>1. i \in 1..n
    BY <1>5
  <2>2. CASE j \in 1..n
    BY <1>1, <1>3, <1>5, <2>1, <2>2 DEF Rising
  <2>3. CASE j = n + 1
    BY <1>3, <2>1, <2>3
  <2> QED
    BY <2>2, <2>3
<1> QED
  BY <1>2, <1>3, <1>4, <1>5 DEF AllBelow, Rising

LEMMA Headed ==
  ASSUME NEW s \in Seq(Nat), NEW t \in Nat
  PROVE  /\ <<t>> \o s \in Seq(Nat) /\ Len(<<t>> \o s) = Len(s) + 1 /\ Len(s) \in Nat
         /\ (<<t>> \o s)[1] = t /\ \A i \in 1..Len(s) : (<<t>> \o s)[i + 1] = s[i]
<1>1. PICK n \in Nat : n = Len(s)
  OBVIOUS
<1>2. PICK a \in Seq(Nat) : a = <<t>> /\ Len(a) = 1 /\ a[1] = t
  <2>1. <<t>> \in Seq(Nat)
    OBVIOUS
  <2>2. Len(<<t>>) = 1 /\ <<t>>[1] = t
    OBVIOUS
  <2> QED
    BY <2>1, <2>2
<1>3. /\ a \o s \in Seq(Nat) /\ Len(a \o s) = Len(a) + Len(s)
      /\ \A p \in 1..(Len(a) + Len(s)) : (a \o s)[p] = IF p <= Len(a) THEN a[p] ELSE s[p - Len(a)]
  BY ConcatProperties
<1>4. PICK r : r = a \o s
  OBVIOUS
<1>5. Len(r) = n + 1 /\ r \in Seq(Nat) /\ \A p \in 1..(n + 1) : r[p] = IF p <= 1 THEN a[p] ELSE s[p - 1]
  BY <1>1, <1>2, <1>3, <1>4
<1>6. r[1] = t
  BY <1>2, <1>5
<1>7. ASSUME NEW i \in 1..n PROVE r[i + 1] = s[i]
  <2>1. i + 1 \in 1..(n + 1) /\ ~(i + 1 <= 1) /\ (i + 1) - 1 = i
    OBVIOUS
  <2> QED
    BY <1>5, <2>1
<1> QED
  BY <1>1, <1>2, <1>4, <1>5, <1>6, <1>7

LEMMA FallsBy ==
  ASSUME NEW s \in Seq(Nat), NEW t \in Nat, AllBelow(s, t), Falling(s)
  PROVE  <<t>> \o s \in Seq(Nat) /\ AllBelow(<<t>> \o s, t + 1) /\ Falling(<<t>> \o s)
<1>1. PICK n \in Nat : n = Len(s)
  OBVIOUS
<1>2. PICK r : r = <<t>> \o s
  OBVIOUS
<1>3. /\ r \in Seq(Nat) /\ Len(r) = n + 1 /\ r[1] = t
      /\ \A i \in 1..n : r[i + 1] = s[i] /\ s[i] \in Nat /\ s[i] < t
  <2>1. \A i \in 1..n : s[i] \in Nat /\ s[i] < t
    BY <1>1 DEF AllBelow
  <2>2. /\ <<t>> \o s \in Seq(Nat) /\ Len(<<t>> \o s) = Len(s) + 1
        /\ (<<t>> \o s)[1] = t /\ \A i \in 1..Len(s) : (<<t>> \o s)[i + 1] = s[i]
    BY Headed
  <2> QED
    BY <1>1, <1>2, <2>1, <2>2
<1>4. ASSUME NEW i \in 1..(n + 1) PROVE i = 1 \/ \E k \in 1..n : i = k + 1
  <2>1. CASE i # 1
    <3>1. i - 1 \in 1..n /\ (i - 1) + 1 = i
      BY <2>1
    <3> QED
      BY <3>1
  <2> QED
    BY <2>1
<1>5. ASSUME NEW i \in 1..(n + 1) PROVE r[i] < t + 1
  <2>1. CASE i = 1
    BY <1>3, <2>1
  <2>2. ASSUME NEW k \in 1..n, i = k + 1 PROVE r[i] < t + 1
    <3>1. PICK v \in Nat : v = s[k] /\ v < t
      BY <1>3
    <3>2. r[i] = v
      BY <1>3, <2>2, <3>1
    <3> QED
      BY <3>1, <3>2
  <2> QED
    BY <1>4, <2>1, <2>2
<1>6. ASSUME NEW i \in 1..(n + 1), NEW j \in 1..(n + 1), i < j PROVE r[i] > r[j]
  <2>1. PICK k \in 1..n : j = k + 1
    BY <1>4, <1>6
  <2>2. CASE i = 1
    BY <1>3, <2>1, <2>2
  <2>3. ASSUME NEW m \in 1..n, i = m + 1 PROVE r[i] > r[j]
    <3>1. m < k
      BY <1>6, <2>1, <2>3
    <3>2. s[m] > s[k]
      BY <1>1, <3>1 DEF Falling
    <3> QED
      BY <1>3, <2>1, <2>3, <3>2
  <2> QED
    BY <1>4, <2>2, <2>3
<1> QED
  BY <1>2, <1>3, <1>5, <1>6 DEF AllBelow, Falling

LEMMA TailKeeps ==
  ASSUME NEW s \in Seq(Nat), s # <<>>, NEW t \in Nat, AllBelow(s, t)
  PROVE  /\ Tail(s) \in Seq(Nat) /\ AllBelow(Tail(s), t)
         /\ Rising(s) => Rising(Tail(s))
         /\ Falling(s) => Falling(Tail(s))
<1>1. PICK n \in Nat : Len(s) = n + 1
  <2>1. Len(s) \in Nat /\ Len(s) # 0
    OBVIOUS
  <2>2. Len(s) - 1 \in Nat /\ Len(s) = (Len(s) - 1) + 1
    BY <2>1
  <2> QED
    BY <2>2
<1>2. PICK r : r = Tail(s)
  OBVIOUS
<1>3. r \in Seq(Nat) /\ Len(r) = n /\ \A i \in 1..n : r[i] = s[i + 1]
  BY <1>1, <1>2
<1>4. \A i \in 1..n : i + 1 \in 1..(n + 1)
  OBVIOUS
<1>5. \A i, j \in 1..n : i < j => i + 1 < j + 1
  OBVIOUS
<1>6. AllBelow(r, t)
  BY <1>1, <1>3, <1>4 DEF AllBelow
<1>7. Rising(s) => Rising(r)
  BY <1>1, <1>3, <1>4, <1>5 DEF Rising
<1>8. Falling(s) => Falling(r)
  BY <1>1, <1>3, <1>4, <1>5 DEF Falling
<1> QED
  BY <1>2, <1>3, <1>6, <1>7, <1>8

(* One item on. *)
PushedOn(kind, items, v) == IF kind = "STACK" THEN <<v>> \o items ELSE Append(items, v)

LEMMA PushedOnOK ==
  ASSUME NEW kind \in {"STACK", "QUEUE"}, NEW items, NEW t \in Nat, ItemsOK(kind, items, t)
  PROVE  ItemsOK(kind, PushedOn(kind, items, t), t + 1)
<1>1. items \in Seq(Nat) /\ AllBelow(items, t)
  BY DEF ItemsOK
<1>2. CASE kind = "STACK"
  <2>1. Falling(items)
    BY <1>2 DEF ItemsOK
  <2> QED
    BY <1>1, <1>2, <2>1, FallsBy DEF ItemsOK, PushedOn
<1>3. CASE kind = "QUEUE"
  <2>1. Rising(items)
    BY <1>3 DEF ItemsOK
  <2> QED
    BY <1>1, <1>3, <2>1, RisesBy DEF ItemsOK, PushedOn
<1> QED
  BY <1>2, <1>3

(* A list of two is pushed item by item: what the fold computes on the subsets *)
(* of its places is a function that this one is.                             *)
LEMMA MaxOfPlaces == Max({1}) = 1 /\ Max({2}) = 2 /\ Max({1, 2}) = 2
BY DEF Max

OneByOne(base, a, b, atHead) ==
  PushedRange(base, <<a, b>>, atHead)
    = IF GoesToHead(atHead) THEN <<b>> \o (<<a>> \o base) ELSE Append(Append(base, a), b)

LEMMA PushedTwo ==
  ASSUME NEW base, NEW a, NEW b, NEW atHead
  PROVE  OneByOne(base, a, b, atHead)
<1> DEFINE One(t, v) == IF GoesToHead(atHead) THEN <<v>> \o t ELSE Append(t, v)
<1> DEFINE Places == SUBSET {1, 2}
<1> DEFINE Step(f, s) == IF s = {} THEN base ELSE One(f[s \ {Max(s)}], <<a, b>>[Max(s)])
<1> DEFINE Fold == CHOOSE f : f = [s \in Places |-> Step(f, s)]
<1>1. PushedRange(base, <<a, b>>, atHead) = Fold[{1, 2}]
  <2>1. DOMAIN <<a, b>> = {1, 2}
    OBVIOUS
  <2> QED
    BY <2>1 DEF PushedRange, FoldLeft, MapThenFoldSet
<1>2. One(One(base, a), b)
        = IF GoesToHead(atHead) THEN <<b>> \o (<<a>> \o base) ELSE Append(Append(base, a), b)
  OBVIOUS
<1>3. <<a, b>>[1] = a /\ <<a, b>>[2] = b
  OBVIOUS
<1> HIDE DEF One
<1>4. ASSUME NEW f
      PROVE  /\ Step(f, {}) = base
             /\ Step(f, {1}) = One(f[{}], a) /\ Step(f, {2}) = One(f[{}], b)
             /\ Step(f, {1, 2}) = One(f[{1}], b)
  <2>1. {1} \ {1} = {} /\ {2} \ {2} = {} /\ {1, 2} \ {2} = {1}
    OBVIOUS
  <2>2. {1} # {} /\ {2} # {} /\ {1, 2} # {}
    OBVIOUS
  <2> QED
    BY <1>3, <2>1, <2>2, MaxOfPlaces, Zenon
<1>5. \A s \in Places : s \in {{}, {1}, {2}, {1, 2}}
  OBVIOUS
<1>6. {} \in Places /\ {1} \in Places /\ {2} \in Places /\ {1, 2} \in Places
  OBVIOUS
<1>7. {} # {1} /\ {} # {2} /\ {1} # {2} /\ {1, 2} # {} /\ {1, 2} # {1} /\ {1, 2} # {2}
  OBVIOUS
<1> DEFINE Folded == [s \in Places |-> IF s = {} THEN base ELSE IF s = {1} THEN One(base, a)
                                       ELSE IF s = {2} THEN One(base, b) ELSE One(One(base, a), b)]
<1>8. /\ Folded[{}] = base /\ Folded[{1}] = One(base, a) /\ Folded[{2}] = One(base, b)
      /\ Folded[{1, 2}] = One(One(base, a), b)
  BY <1>6, <1>7, Zenon
<1> HIDE DEF Step, Places
<1>9. \A s \in Places : Folded[s] = Step(Folded, s)
  <2> HIDE DEF Folded
  <2> QED
    BY <1>4, <1>5, <1>8
<1>10. Folded = [s \in Places |-> Folded[s]]
  OBVIOUS
<1>11. Folded = [s \in Places |-> Step(Folded, s)]
  <2> HIDE DEF Folded
  <2> QED
    BY <1>9, <1>10
<1>12. Fold = [s \in Places |-> Step(Fold, s)]
  <2> HIDE DEF Folded
  <2>1. \E f : f = [s \in Places |-> Step(f, s)]
    BY <1>11
  <2> QED
    BY <2>1, Zenon
<1> HIDE DEF Fold, Folded
<1>13. \A s \in Places : Fold[s] = Step(Fold, s)
  BY <1>12
<1>14. Fold[{}] = base
  BY <1>4, <1>6, <1>13
<1>15. Fold[{1}] = One(base, a)
  BY <1>4, <1>6, <1>13, <1>14
<1>16. Fold[{1, 2}] = One(One(base, a), b)
  BY <1>4, <1>6, <1>13, <1>15
<1> QED
  BY <1>1, <1>2, <1>16 DEF OneByOne

LEMMA QueueIs ==
  ASSUME UcQueueInv
  PROVE  /\ ucTicket \in Nat /\ ucQueue.kind \in {"STACK", "QUEUE", "DEQUE"}
         /\ ucQueue = QueueOf(ucQueue.kind, ucQueue.items)
         /\ ItemsOK(ucQueue.kind, ucQueue.items, ucTicket)
<1>1. PICK kind \in {"STACK", "QUEUE", "DEQUE"} : \E items :
        ucQueue = QueueOf(kind, items) /\ ItemsOK(kind, items, ucTicket)
  BY DEF UcQueueInv
<1>2. PICK items : ucQueue = QueueOf(kind, items) /\ ItemsOK(kind, items, ucTicket)
  BY <1>1
<1>3. ucQueue.kind = kind /\ ucQueue.items = items
  BY <1>2, QueueFields
<1> QED
  BY <1>2, <1>3 DEF UcQueueInv

LEMMA QueueBecomes ==
  ASSUME NEW kind \in {"STACK", "QUEUE", "DEQUE"}, NEW items, ucTicket' \in Nat,
         ucQueue' = QueueOf(kind, items), ItemsOK(kind, items, ucTicket')
  PROVE  UcQueueInv'
BY DEF UcQueueInv, ItemsOK, QueueOf

(* A deque is one whatever it holds. *)
LEMMA DequeBecomes ==
  ASSUME UcQueueInv, ucQueue.kind = "DEQUE", ucTicket' \in Nat,
         NEW items, ucQueue' = [ucQueue EXCEPT !.items = items]
  PROVE  UcQueueInv'
<1>1. ucQueue = QueueOf("DEQUE", ucQueue.items)
  BY QueueIs
<1>2. ucQueue' = QueueOf("DEQUE", items)
  BY <1>1, QueueWith
<1>3. ItemsOK("DEQUE", items, ucTicket')
  BY DEF ItemsOK
<1>4. PICK kind \in {"STACK", "QUEUE", "DEQUE"} : kind = "DEQUE"
  OBVIOUS
<1> QED
  BY <1>2, <1>3, <1>4, QueueBecomes

LEMMA EmptyItems ==
  ASSUME NEW kind, NEW t \in Nat
  PROVE  ItemsOK(kind, <<>>, t)
<1>1. <<>> \in Seq(Nat) /\ Len(<<>>) = 0 /\ 1..0 = {}
  OBVIOUS
<1> QED
  BY <1>1 DEF ItemsOK, AllBelow, Rising, Falling

LEMMA QueueNewInv ==
  ASSUME UcQueueInv, NEW kind \in {"STACK", "QUEUE", "DEQUE"}, QueueNew(kind)
  PROVE  UcQueueInv'
<1>1. ucQueue' = QueueOf(kind, <<>>) /\ ucTicket' = ucTicket /\ ucTicket \in Nat
  BY QueueIs DEF QueueNew, QueueOf
<1> QED
  BY <1>1, EmptyItems, QueueBecomes

LEMMA QueueClearInv ==
  ASSUME UcQueueInv, QueueClear
  PROVE  UcQueueInv'
<1>1. PICK kind \in {"STACK", "QUEUE", "DEQUE"} : \E items : ucQueue = QueueOf(kind, items)
  BY DEF UcQueueInv
<1>2. PICK items : ucQueue = QueueOf(kind, items)
  BY <1>1
<1>3. ucQueue' = QueueOf(kind, <<>>) /\ ucTicket' = ucTicket /\ ucTicket \in Nat
  BY <1>2, QueueIs, QueueWith DEF QueueClear
<1> QED
  BY <1>3, EmptyItems, QueueBecomes

(* Where an item goes, when it is not a deque. *)
LEMMA GoesToHeadIs ==
  ASSUME NEW atHead, NEW kind \in {"STACK", "QUEUE"}, ucQueue.kind = kind
  PROVE  GoesToHead(atHead) <=> kind = "STACK"
BY DEF GoesToHead

LEMMA QueuePushInv ==
  ASSUME UcQueueInv, NEW atHead, QueuePush(atHead)
  PROVE  UcQueueInv'
<1>1. /\ ucTicket \in Nat /\ ucQueue.kind \in {"STACK", "QUEUE", "DEQUE"}
      /\ ucQueue = QueueOf(ucQueue.kind, ucQueue.items)
      /\ ItemsOK(ucQueue.kind, ucQueue.items, ucTicket)
  BY QueueIs
<1>2. ucTicket' = ucTicket + 1 /\ ucTicket' \in Nat
  BY <1>1 DEF QueuePush
<1>3. \/ GoesToHead(atHead) /\ ucQueue' = [ucQueue EXCEPT !.items = <<ucTicket>> \o ucQueue.items]
      \/ ~GoesToHead(atHead) /\ ucQueue' = [ucQueue EXCEPT !.items = Append(ucQueue.items, ucTicket)]
  BY DEF QueuePush, PushHead, PushTail
<1>4. CASE ucQueue.kind = "DEQUE"
  BY <1>2, <1>3, <1>4, DequeBecomes
<1>5. CASE ucQueue.kind # "DEQUE"
  <2>1. PICK kind \in {"STACK", "QUEUE"} : kind = ucQueue.kind
    BY <1>1, <1>5
  <2>2. ucQueue' = [ucQueue EXCEPT !.items = PushedOn(kind, ucQueue.items, ucTicket)]
    BY <1>3, <2>1, GoesToHeadIs DEF PushedOn
  <2>3. PICK items : items = PushedOn(kind, ucQueue.items, ucTicket)
    OBVIOUS
  <2>4. ucQueue' = QueueOf(kind, items)
    BY <1>1, <2>1, <2>2, <2>3, QueueWith
  <2>5. ItemsOK(kind, items, ucTicket')
    BY <1>1, <1>2, <2>1, <2>3, PushedOnOK
  <2>6. kind \in {"STACK", "QUEUE", "DEQUE"}
    OBVIOUS
  <2> QED
    BY <1>2, <2>4, <2>5, <2>6, QueueBecomes
<1> QED
  BY <1>4, <1>5

LEMMA QueuePushRangeInv ==
  ASSUME UcQueueInv, NEW atHead, QueuePushRange(atHead)
  PROVE  UcQueueInv'
<1>1. /\ ucTicket \in Nat /\ ucQueue.kind \in {"STACK", "QUEUE", "DEQUE"}
      /\ ucQueue = QueueOf(ucQueue.kind, ucQueue.items)
      /\ ItemsOK(ucQueue.kind, ucQueue.items, ucTicket)
  BY QueueIs
<1>2. ucTicket' = (ucTicket + 1) + 1 /\ ucTicket' \in Nat /\ ucTicket + 1 \in Nat
  <2>1. ucTicket' = ucTicket + 2
    BY DEF QueuePushRange
  <2> QED
    BY <1>1, <2>1
<1>3. PICK pushed : pushed = PushedRange(ucQueue.items, <<ucTicket, ucTicket + 1>>, atHead)
  OBVIOUS
<1>4. ucQueue' = [ucQueue EXCEPT !.items = pushed]
  BY <1>3 DEF QueuePushRange
<1>5. CASE ucQueue.kind = "DEQUE"
  BY <1>2, <1>4, <1>5, DequeBecomes
<1>6. CASE ucQueue.kind # "DEQUE"
  <2>1. PICK kind \in {"STACK", "QUEUE"} : kind = ucQueue.kind
    BY <1>1, <1>6
  <2>2. pushed = PushedOn(kind, PushedOn(kind, ucQueue.items, ucTicket), ucTicket + 1)
    <3>1. pushed = IF GoesToHead(atHead) THEN <<ucTicket + 1>> \o (<<ucTicket>> \o ucQueue.items)
                   ELSE Append(Append(ucQueue.items, ucTicket), ucTicket + 1)
      <4>1. OneByOne(ucQueue.items, ucTicket, ucTicket + 1, atHead)
        BY PushedTwo
      <4> QED
        BY <1>3, <4>1 DEF OneByOne
    <3> QED
      BY <2>1, <3>1, GoesToHeadIs DEF PushedOn
  <2>3. PICK half : half = PushedOn(kind, ucQueue.items, ucTicket)
    OBVIOUS
  <2>4. ItemsOK(kind, half, ucTicket + 1)
    BY <1>1, <2>1, <2>3, PushedOnOK
  <2>5. ItemsOK(kind, pushed, ucTicket')
    BY <1>2, <2>2, <2>3, <2>4, PushedOnOK
  <2>6. ucQueue' = QueueOf(kind, pushed)
    BY <1>1, <1>4, <2>1, QueueWith
  <2>7. kind \in {"STACK", "QUEUE", "DEQUE"}
    OBVIOUS
  <2> QED
    BY <1>2, <2>5, <2>6, <2>7, QueueBecomes
<1> QED
  BY <1>5, <1>6

LEMMA QueuePopInv ==
  ASSUME UcQueueInv, NEW atHead, QueuePop(atHead)
  PROVE  UcQueueInv'
<1>1. /\ ucTicket \in Nat /\ ucQueue.kind \in {"STACK", "QUEUE", "DEQUE"}
      /\ ucQueue = QueueOf(ucQueue.kind, ucQueue.items)
      /\ ItemsOK(ucQueue.kind, ucQueue.items, ucTicket)
  BY QueueIs
<1>2. ucTicket' = ucTicket /\ ucTicket' \in Nat
  BY <1>1 DEF QueuePop
<1>3. CASE ucQueue.kind = "DEQUE"
  <2>1. PICK items : ucQueue' = [ucQueue EXCEPT !.items = items]
    BY DEF QueuePop, PopHead, PopTail
  <2> QED
    BY <1>2, <1>3, <2>1, DequeBecomes
<1>4. CASE ucQueue.kind # "DEQUE"
  <2>1. PICK kind \in {"STACK", "QUEUE", "DEQUE"} : kind = ucQueue.kind /\ kind # "DEQUE"
    BY <1>1, <1>4
  <2>2. PICK s : s = ucQueue.items
    OBVIOUS
  <2>3. ucQueue' = [ucQueue EXCEPT !.items = Tail(s)] /\ s # <<>>
    BY <1>4, <2>2 DEF QueuePop, PopHead
  <2>4. ucQueue' = QueueOf(kind, Tail(s))
    <3>1. PICK rest : rest = Tail(s)
      OBVIOUS
    <3>2. ucQueue = QueueOf(kind, s)
      BY <1>1, <2>1, <2>2
    <3>3. ucQueue' = [ucQueue EXCEPT !.items = rest]
      BY <2>3, <3>1
    <3>4. ucQueue' = QueueOf(kind, rest)
      BY <3>2, <3>3, QueueWith
    <3> QED
      BY <3>1, <3>4
  <2>5. /\ s \in Seq(Nat) /\ AllBelow(s, ucTicket)
        /\ kind = "QUEUE" => Rising(s)
        /\ kind = "STACK" => Falling(s)
    BY <1>1, <2>1, <2>2 DEF ItemsOK
  <2>6. /\ Tail(s) \in Seq(Nat) /\ AllBelow(Tail(s), ucTicket)
        /\ Rising(s) => Rising(Tail(s))
        /\ Falling(s) => Falling(Tail(s))
    BY <1>1, <2>3, <2>5, TailKeeps
  <2>7. ItemsOK(kind, Tail(s), ucTicket')
    BY <1>2, <2>5, <2>6 DEF ItemsOK
  <2> QED
    BY <1>2, <2>4, <2>7, QueueBecomes
<1> QED
  BY <1>3, <1>4

LEMMA DequeRotateInv ==
  ASSUME UcQueueInv, NEW n, DequeRotate(n)
  PROVE  UcQueueInv'
<1>1. ucQueue.kind = "DEQUE" /\ ucTicket' = ucTicket /\ ucTicket \in Nat
  BY QueueIs DEF DequeRotate
<1>2. PICK items : items = Rotated(ucQueue.items, n)
  OBVIOUS
<1>3. ucQueue' = [ucQueue EXCEPT !.items = items]
  BY <1>2 DEF DequeRotate
<1> QED
  BY <1>1, <1>3, DequeBecomes

LEMMA UcQueueInitInv == UcInit => UcQueueInv
<1> SUFFICES ASSUME UcInit PROVE UcQueueInv
  OBVIOUS
<1>1. ucQueue = QueueOf("DEQUE", <<>>) /\ ucTicket \in Nat
  BY DEF UcInit, QueueOf
<1>2. ItemsOK("DEQUE", <<>>, ucTicket)
  BY DEF ItemsOK
<1> QED
  BY <1>1, <1>2 DEF UcQueueInv

LEMMA UcQueueNextInv == UcQueueInv /\ [UcNext]_ucVars => UcQueueInv'
<1> SUFFICES ASSUME UcQueueInv, [UcNext]_ucVars PROVE UcQueueInv'
  OBVIOUS
<1>1. CASE UNCHANGED <<ucQueue, ucTicket>>
  BY <1>1 DEF UcQueueInv, ItemsOK, QueueOf
<1>2. ASSUME UcListNext PROVE UNCHANGED <<ucQueue, ucTicket>>
  BY <1>2, Zenon DEF UcListNext, ListPush, ListInsertAt, ListRemoveAt, UxcListSet, ListClear, ListExtend
<1>3. ASSUME UcHashNext PROVE UNCHANGED <<ucQueue, ucTicket>>
  BY <1>3, Zenon DEF UcHashNext, DictSetValue, DictSetDefault, HashRemoveKey, DictPopFirst, DictPopLast,
                     SetPop, Inserted, Removed
<1>4. ASSUME UcQueueNext PROVE UcQueueInv'
  <2>1. CASE \E kind \in {"STACK", "QUEUE", "DEQUE"} : QueueNew(kind)
    BY <2>1, QueueNewInv
  <2>2. CASE \E atHead \in BOOLEAN : QueuePush(atHead)
    BY <2>2, QueuePushInv
  <2>3. CASE \E atHead \in BOOLEAN : QueuePop(atHead)
    BY <2>3, QueuePopInv
  <2>4. CASE \E atHead \in BOOLEAN : QueuePushRange(atHead)
    BY <2>4, QueuePushRangeInv
  <2>5. CASE \E n \in -2..2 : DequeRotate(n)
    BY <2>5, DequeRotateInv
  <2>6. CASE QueueClear
    BY <2>6, QueueClearInv
  <2> QED
    BY <1>4, <2>1, <2>2, <2>3, <2>4, <2>5, <2>6, Zenon DEF UcQueueNext
<1>5. CASE UNCHANGED ucVars
  BY <1>1, <1>5 DEF ucVars
<1> QED
  BY <1>1, <1>2, <1>3, <1>4, <1>5 DEF UcNext

(* QueuesInOrder (uxcollections_glib.c): for any number of items and any        *)
(* sequence of calls, what is taken from a queue is the oldest that it has     *)
(* and what is taken from a stack the newest, also when a list of items was    *)
(* pushed at once, which puts each item of a stack on top of the one before.   *)
THEOREM QueuesAlwaysInOrder == UcSpec => []QueuesInOrder
<1>1. ASSUME UcQueueInv PROVE QueuesInOrder
  <2>1. ItemsOK(ucQueue.kind, ucQueue.items, ucTicket)
    BY <1>1, QueueIs
  <2>2. CASE ucQueue.kind \in {"QUEUE", "STACK"}
    <3>1. PICK s \in Seq(Nat) : s = ucQueue.items
      BY <2>1, <2>2 DEF ItemsOK
    <3>2. DOMAIN s = 1..Len(s)
      OBVIOUS
    <3>3. ucQueue.kind = "QUEUE" => Rising(s)
      BY <2>1, <3>1 DEF ItemsOK
    <3>4. ucQueue.kind = "STACK" => Falling(s)
      BY <2>1, <3>1 DEF ItemsOK
    <3> QED
      BY <3>1, <3>2, <3>3, <3>4 DEF QueuesInOrder, Rising, Falling
  <2>3. CASE ucQueue.kind \notin {"QUEUE", "STACK"}
    BY <2>3 DEF QueuesInOrder
  <2> QED
    BY <2>2, <2>3
<1> QED
  BY <1>1, UcQueueInitInv, UcQueueNextInv, PTL DEF UcSpec

=============================================================================
