---------------------------- MODULE UxCollections ----------------------------
(***************************************************************************)
(* The collection library (src/runtime_ext/uxcollections): a list, one      *)
(* queue for stacks, queues and deques, and the hash table with its own     *)
(* list of keys that DICT and SET are made of.  GLib is external: a pointer *)
(* array and a queue are sequences, a hash table a function, its sort is     *)
(* stable.  Numbers are whole, an F64 among them; texts are model values.   *)
(* Trees and nodes, which only pass on to GLib, and the text functions are  *)
(* left out.                                                               *)
(***************************************************************************)
EXTENDS Integers, Sequences, FiniteSets, SequencesExt, FiniteSetsExt

CONSTANTS
  UcItems,     \* bound: the <<tag, value>> a list gets; the tag 3 is of a text
  UcKeys,      \* the texts that are keys and members
  UcValues,    \* bound: those of them that are values
  UcNumbers,   \* bound: the numbers that are values
  UcShown,     \* the text each number is written as
  UcLong,      \* those of them that the buffer of 4096 bytes cuts off
  UcCut,       \* and what is left of them
  UcLength,    \* bound: the items of a list, a queue
  UcTickets    \* bound: the items a queue gets in all

ASSUME UcAssumption ==
  /\ UcValues \cup UcLong \subseteq UcKeys /\ {UcLength, UcTickets} \subseteq Nat
  /\ UcShown \in [UcNumbers -> UcKeys]

VARIABLES
  ucList,      \* a list
  ucQueue,     \* the kind of a queue and its items, head first
  ucTicket,    \* for the properties: items are numbered as they come
  ucHashes,    \* two ordered hashes: table and orderedKeys
  ucContents   \* for the properties: what they hold

ucVars == <<ucList, ucQueue, ucTicket, ucHashes, ucContents>>

-----------------------------------------------------------------------------
(* Lists *)

Number(v) == IF v[1] = 3 THEN 0 ELSE v[2]   \* val_num: a text counts as 0
Text(v) == IF v[1] = 3 THEN v[2] ELSE 0     \* texts compare as these numbers, "" is 0

InsertedBy(s, v, Key(_)) ==
  LET after == {i \in DOMAIN s : Key(s[i]) > Key(v)}
  IN  IF after = {} THEN Append(s, v) ELSE InsertAt(s, Min(after), v)
SortedBy(s, Key(_)) == FoldLeft(LAMBDA t, v : InsertedBy(t, v, Key), <<>>, s)
ListSort(s) == SortedBy(s, Number)
ListSortAlpha(s) == SortedBy(s, Text)

(* The loop that exchanges the items of the two halves. *)
ListReverse(s) ==
  FoldLeft(LAMBDA t, i : [t EXCEPT ![i] = t[Len(t) + 1 - i], ![Len(t) + 1 - i] = t[i]],
           s, [i \in 1..(Len(s) \div 2) |-> i])

Numbers(s) == [i \in 0..(Len(s) - 1) |-> Number(ListSort(s)[i + 1])]
ListSum(s) == FoldLeft(LAMBDA x, v : x + Number(v), 0, s)
ListLeast(s) == FoldLeft(LAMBDA m, v : IF Number(v) < m THEN Number(v) ELSE m, Number(s[1]), s)
ListMost(s) == FoldLeft(LAMBDA m, v : IF Number(v) > m THEN Number(v) ELSE m, Number(s[1]), s)

TwiceMedian(s) ==
  LET n == Len(s)
  IN  IF n = 0 THEN 0 ELSE IF n % 2 = 1 THEN 2 * Numbers(s)[n \div 2]
      ELSE Numbers(s)[n \div 2 - 1] + Numbers(s)[n \div 2]

(* A hundred times the percentile: between two items in proportion. *)
Percentile(s, p) ==
  LET n == Len(s)
      cut == IF p < 0 THEN 0 ELSE IF p > 100 THEN 100 ELSE p
      lo == (cut * (n - 1)) \div 100
      hi == IF lo + 1 < n THEN lo + 1 ELSE lo
  IN  IF n = 0 THEN 0
      ELSE 100 * Numbers(s)[lo] + (Numbers(s)[hi] - Numbers(s)[lo]) * ((cut * (n - 1)) % 100)

(* The variance, times the cube of the length: the mean is the sum over it. *)
Variance(s) ==
  FoldLeft(LAMBDA x, v : x + (Len(s) * Number(v) - ListSum(s)) * (Len(s) * Number(v) - ListSum(s)),
           0, s)
CountOf(s, x) == Cardinality({i \in DOMAIN s : Number(s[i]) = x})
Mode(s) ==
  FoldLeft(LAMBDA best, v : IF CountOf(s, Number(v)) > best[2] THEN <<Number(v), CountOf(s, Number(v))>>
                            ELSE best, <<0, 0>>, s)[1]

IndexOf(s, v) == SelectInSeq(s, LAMBDA w : w = v) - 1
CountValue(s, v) == Cardinality({i \in DOMAIN s : s[i] = v})
Slice(s, start, end) ==
  SubSeq(s, (IF start < 0 THEN 0 ELSE start) + 1, IF end > Len(s) THEN Len(s) ELSE end)
Unique(s) == FoldLeft(LAMBDA t, v : IF Contains(t, v) THEN t ELSE Append(t, v), <<>>, s)

ListPush(v) ==
  Len(ucList) < UcLength /\ ucList' = Append(ucList, v) /\ UNCHANGED <<ucQueue, ucTicket, ucHashes, ucContents>>
ListInsertAt(i, v) ==
  /\ i \in 0..Len(ucList) /\ Len(ucList) < UcLength
  /\ ucList' = InsertAt(ucList, i + 1, v)
  /\ UNCHANGED <<ucQueue, ucTicket, ucHashes, ucContents>>
ListRemoveAt(i) ==
  /\ i \in 0..(Len(ucList) - 1)
  /\ ucList' = RemoveAt(ucList, i + 1)
  /\ UNCHANGED <<ucQueue, ucTicket, ucHashes, ucContents>>

UxcListSet(i, v) ==
  /\ i \in 0..(Len(ucList) - 1)
  /\ ucList' = [ucList EXCEPT ![i + 1] = v]
  /\ UNCHANGED <<ucQueue, ucTicket, ucHashes, ucContents>>
ListClear == ucList' = <<>> /\ UNCHANGED <<ucQueue, ucTicket, ucHashes, ucContents>>

(* uxc_list_extend, of another list: one that is given itself grows for ever. *)
ListExtend(other) ==
  /\ Len(ucList) + Len(other) <= UcLength
  /\ ucList' = ucList \o other
  /\ UNCHANGED <<ucQueue, ucTicket, ucHashes, ucContents>>

-----------------------------------------------------------------------------
(* Stacks, queues and deques *)

PushHead(v) == ucQueue' = [ucQueue EXCEPT !.items = <<v>> \o @]
PushTail(v) == ucQueue' = [ucQueue EXCEPT !.items = Append(@, v)]
PopHead == ucQueue' = [ucQueue EXCEPT !.items = Tail(@)]
PopTail == ucQueue' = [ucQueue EXCEPT !.items = Front(@)]

(* uxc_deque_rotate: as many times as the remainder, from the tail to the head. *)
Rotated(items, n) ==
  IF items = <<>> THEN items
  ELSE FoldLeft(LAMBDA t, i : <<Last(t)>> \o Front(t), items, [i \in 1..(n % Len(items)) |-> i])

QueueNew(kind) ==
  /\ ucQueue' = [kind |-> kind, items |-> <<>>]
  /\ UNCHANGED <<ucList, ucTicket, ucHashes, ucContents>>
GoesToHead(atHead) == ucQueue.kind = "STACK" \/ (ucQueue.kind = "DEQUE" /\ atHead)
QueuePush(atHead) ==
  /\ ucTicket < UcTickets
  /\ IF GoesToHead(atHead) THEN PushHead(ucTicket) ELSE PushTail(ucTicket)
  /\ ucTicket' = ucTicket + 1
  /\ UNCHANGED <<ucList, ucHashes, ucContents>>
QueuePop(atHead) ==
  /\ ucQueue.items # <<>>
  /\ IF ucQueue.kind = "DEQUE" /\ ~atHead THEN PopTail ELSE PopHead
  /\ UNCHANGED <<ucList, ucTicket, ucHashes, ucContents>>
QueueClear ==
  ucQueue' = [ucQueue EXCEPT !.items = <<>>] /\ UNCHANGED <<ucList, ucTicket, ucHashes, ucContents>>
(* A list of two is pushed in its order, at the head each on top of the last. *)
PushedRange(items, list, atHead) ==
  FoldLeft(LAMBDA t, v : IF GoesToHead(atHead) THEN <<v>> \o t ELSE Append(t, v), items, list)
QueuePushRange(atHead) ==
  /\ ucTicket + 1 < UcTickets
  /\ ucQueue' = [ucQueue EXCEPT !.items = PushedRange(@, <<ucTicket, ucTicket + 1>>, atHead)]
  /\ ucTicket' = ucTicket + 2
  /\ UNCHANGED <<ucList, ucHashes, ucContents>>
DequeRotate(n) ==
  /\ ucQueue.kind = "DEQUE" /\ ucQueue.items # <<>>
  /\ ucQueue' = [ucQueue EXCEPT !.items = Rotated(@, n)]
  /\ UNCHANGED <<ucList, ucTicket, ucHashes, ucContents>>

-----------------------------------------------------------------------------
(* Ordered hashes; the members of a SET have no value, here 0. *)

NewHash == [table |-> [k \in {} |-> 0], order |-> <<>>]
Replaced(table, k, v) == [x \in DOMAIN table \cup {k} |-> IF x = k THEN v ELSE table[x]]

HashSet(o, k, v) ==
  [table |-> Replaced(o.table, k, v),
   order |-> IF k \in DOMAIN o.table THEN o.order ELSE Append(o.order, k)]

HashRemove(o, k) ==
  IF k \notin DOMAIN o.table THEN o
  ELSE [table |-> [x \in DOMAIN o.table \ {k} |-> o.table[x]],
        order |-> RemoveAt(o.order, SelectInSeq(o.order, LAMBDA x : x = k))]

KeyAt(o, i) == o.order[i + 1]
Added(o, keys, Value(_)) == FoldLeft(LAMBDA h, k : HashSet(h, k, Value(k)), o, keys)

DictClone(o) == Added(NewHash, o.order, LAMBDA k : o.table[k])
DictUpdate(a, b) == Added(a, b.order, LAMBDA k : b.table[k])
DictMerge(a, b) == DictUpdate(DictClone(a), b)
Shown(v) == IF v \in UcNumbers THEN UcShown[v] ELSE v
DictInvert(o) ==   \* of the keys whose values show the same text the last remains
  FoldLeft(LAMBDA h, k : HashSet(h, Shown(o.table[k]), k), NewHash, o.order)
DictEquals(a, b) ==
  /\ Cardinality(DOMAIN a.table) = Cardinality(DOMAIN b.table)
  /\ \A i \in DOMAIN a.order : a.order[i] \in DOMAIN b.table
                               /\ a.table[a.order[i]] = b.table[a.order[i]]

DictValues(o) == [i \in DOMAIN o.order |-> o.table[o.order[i]]]
DictContainsValue(o, v) == \E i \in DOMAIN o.order : o.table[o.order[i]] = v

Members(o, Test(_)) == SelectSeq(o.order, Test)
SetOf(keys) == Added(NewHash, keys, LAMBDA k : 0)
SetUnion(a, b) == SetOf(a.order \o b.order)
SetIntersect(a, b) == SetOf(Members(a, LAMBDA k : k \in DOMAIN b.table))
SetDifference(a, b) == SetOf(Members(a, LAMBDA k : k \notin DOMAIN b.table))
SetSymmetricDifference(a, b) ==
  SetOf(Members(a, LAMBDA k : k \notin DOMAIN b.table)
        \o Members(b, LAMBDA k : k \notin DOMAIN a.table))
SetAddRange(a, list) == Added(a, list, LAMBDA k : 0)
SetRemoveRange(a, list) == FoldLeft(HashRemove, a, list)
SetIsSupersetOf(a, b) == \A i \in DOMAIN b.order : b.order[i] \in DOMAIN a.table
SetIsDisjoint(a, b) == \A i \in DOMAIN a.order : a.order[i] \notin DOMAIN b.table

Inserted(h, k, v) ==
  /\ ucHashes' = [ucHashes EXCEPT ![h] = HashSet(@, k, v)]
  /\ ucContents' = [ucContents EXCEPT ![h] = Replaced(@, k, v)]
  /\ UNCHANGED <<ucList, ucQueue, ucTicket>>
Removed(h, k) ==
  /\ ucHashes' = [ucHashes EXCEPT ![h] = HashRemove(@, k)]
  /\ ucContents' = [ucContents EXCEPT ![h] = [x \in DOMAIN @ \ {k} |-> @[x]]]
  /\ UNCHANGED <<ucList, ucQueue, ucTicket>>

(* uxc_dict_set, and uxc_dict_set_default: a known key keeps its value, but    *)
(* where the default is a text and the value is a number, which it replaces.  *)
DictSetValue(h, k, v) == Inserted(h, k, v)
DictSetDefault(h, k, v) ==
  /\ k \in DOMAIN ucHashes[h].table => v \notin UcNumbers /\ ucHashes[h].table[k] \in UcNumbers
  /\ Inserted(h, k, v)
HashRemoveKey(h, k) == Removed(h, k)
DictPopFirst(h) == ucHashes[h].order # <<>> /\ Removed(h, KeyAt(ucHashes[h], 0))
DictPopLast(h) ==
  ucHashes[h].order # <<>> /\ Removed(h, KeyAt(ucHashes[h], Len(ucHashes[h].order) - 1))

(* uxc_set_pop takes out what its buffer holds: a long member cut off. *)
SetPop(h) ==
  /\ ucHashes[h].order # <<>>
  /\ LET k == KeyAt(ucHashes[h], 0) IN Removed(h, IF k \in UcLong THEN UcCut ELSE k)

UcInit ==
  /\ ucList = <<>> /\ ucQueue = [kind |-> "DEQUE", items |-> <<>>] /\ ucTicket = 0
  /\ ucHashes = [h \in 1..2 |-> NewHash]
  /\ ucContents = [h \in 1..2 |-> NewHash.table]

UcListNext ==
  \/ \E v \in UcItems : ListPush(v) \/ \E i \in 0..UcLength : ListInsertAt(i, v)
  \/ \E i \in 0..UcLength : ListRemoveAt(i) \/ \E v \in UcItems : UxcListSet(i, v)
  \/ ListClear
  \/ \E v, w \in UcItems : ListExtend(<<v, w>>)
UcQueueNext ==
  \/ \E kind \in {"STACK", "QUEUE", "DEQUE"} : QueueNew(kind)
  \/ \E atHead \in BOOLEAN : QueuePush(atHead) \/ QueuePop(atHead) \/ QueuePushRange(atHead)
  \/ \E n \in -2..2 : DequeRotate(n)
  \/ QueueClear
UcHashNext ==
  \E h \in 1..2 :
    \/ \E k \in UcKeys, v \in UcValues \cup UcNumbers : DictSetValue(h, k, v) \/ DictSetDefault(h, k, v)
    \/ \E k \in UcKeys : HashRemoveKey(h, k)
    \/ DictPopFirst(h) \/ DictPopLast(h) \/ SetPop(h)
UcNext == UcListNext \/ UcQueueNext \/ UcHashNext

UcSpec == UcInit /\ [][UcNext]_ucVars

-----------------------------------------------------------------------------
(* Properties *)

(* Sorting keeps the items, in order and stable; the statistics are those of   *)
(* the numbers whatever order they came in.                                  *)
ListAnswersExact ==
  LET s == ucList
      n == Len(s)
      below(x) == Cardinality({i \in DOMAIN s : 2 * Number(s[i]) < x})
      above(x) == Cardinality({i \in DOMAIN s : 2 * Number(s[i]) > x})
  IN  /\ \A v \in UcItems : CountValue(ListSort(s), v) = CountValue(s, v)
                            /\ CountValue(ListSortAlpha(s), v) = CountValue(s, v)
      /\ \A i, j \in DOMAIN s : i < j => Number(ListSort(s)[i]) <= Number(ListSort(s)[j])
                                         /\ Text(ListSortAlpha(s)[i]) <= Text(ListSortAlpha(s)[j])
      /\ \A v, w \in UcItems : Number(v) = Number(w) /\ Text(v) = 0 /\ Text(w) = 0 =>
           SelectSeq(ListSort(s), LAMBDA u : u \in {v, w}) = SelectSeq(s, LAMBDA u : u \in {v, w})
      /\ ListReverse(s) = Reverse(s)
      /\ 2 * below(TwiceMedian(s)) <= n /\ 2 * above(TwiceMedian(s)) <= n
      /\ s # <<>> =>
           /\ Percentile(s, -1) = 100 * ListLeast(s) /\ Percentile(s, 101) = 100 * ListMost(s)
           /\ Percentile(s, 50) = 50 * TwiceMedian(s)
           /\ \A p \in 0..9 : Percentile(s, 10 * p) <= Percentile(s, 10 * (p + 1))
           /\ (Variance(s) = 0) = (ListLeast(s) = ListMost(s))
           /\ \A i \in DOMAIN s : CountOf(s, Mode(s)) >= CountOf(s, Number(s[i]))
      /\ \A v \in UcItems :
           /\ (IndexOf(s, v) >= 0) = (CountValue(s, v) > 0)
           /\ CountValue(Unique(s), v) = IF CountValue(s, v) > 0 THEN 1 ELSE 0
           /\ CountValue(s, v) > 0 =>
                IndexOf(s, v) = Min({i \in DOMAIN s : s[i] = v}) - 1
      /\ \A i \in 0..n : Slice(s, -1, i) \o Slice(s, i, n + 1) = s

(* A queue is first in first out, a stack last in first out, also for a list  *)
(* that is pushed.                                                          *)
QueuesInOrder ==
  LET items == ucQueue.items
  IN  /\ ucQueue.kind = "QUEUE" => \A i, j \in DOMAIN items : i < j => items[i] < items[j]
      /\ ucQueue.kind = "STACK" => \A i, j \in DOMAIN items : i < j => items[i] > items[j]

(* And a deque has each item once and is turned as far back as it was turned. *)
QueuesOrdered ==
  LET items == ucQueue.items
  IN  /\ QueuesInOrder
      /\ IsInjective(items)
      /\ \A m \in -3..3 :
           /\ Rotated(Rotated(items, m), -m) = items
           /\ \A i \in DOMAIN items :
                Rotated(items, m)[((i - 1 + m) % Len(items)) + 1] = items[i]

HashIs(o, keys) == ToSet(o.order) = keys /\ DOMAIN o.table = keys /\ IsInjective(o.order)

(* The list of keys and the table agree, and with what was set and not         *)
(* removed, a text default that took a number's place being set: no key is    *)
(* listed that is not found, none is lost or listed twice.                    *)
HashesKept ==
  \A h \in 1..2 : ucHashes[h].table = ucContents[h] /\ HashIs(ucHashes[h], DOMAIN ucContents[h])

(* And what is made of two is what it would be of sets and of functions, the   *)
(* keys of the first before those only of the second.                        *)
HashesExact ==
  LET a == ucHashes[1]
      b == ucHashes[2]
      A == DOMAIN a.table
      B == DOMAIN b.table
  IN  /\ HashesKept
      /\ HashIs(SetUnion(a, b), A \cup B) /\ HashIs(SetIntersect(a, b), A \cap B)
      /\ HashIs(SetDifference(a, b), A \ B)
      /\ SetUnion(SetDifference(a, b), SetDifference(b, a)) = SetSymmetricDifference(a, b)
      /\ SetIsSupersetOf(a, b) = (B \subseteq A) /\ SetIsDisjoint(a, b) = (A \cap B = {})
      /\ HashIs(SetAddRange(a, b.order), A \cup B) /\ IsPrefix(a.order, SetAddRange(a, b.order).order)
      /\ HashIs(SetRemoveRange(a, b.order), A \ B)
      /\ \A v \in UcValues \cup UcNumbers : DictContainsValue(a, v) = Contains(DictValues(a), v)
      /\ HashIs(DictMerge(a, b), A \cup B) /\ IsPrefix(a.order, DictMerge(a, b).order)
      /\ \A k \in A \cup B :
           DictMerge(a, b).table[k] = IF k \in B THEN b.table[k] ELSE a.table[k]
      /\ DictEquals(a, b) = (a.table = b.table) /\ DictEquals(DictClone(a), a)
      /\ DictUpdate(a, a) = a
      /\ \A v \in DOMAIN DictInvert(a).table :
           \A i \in DOMAIN a.order :
             Shown(a.table[a.order[i]]) = v =>
               i <= SelectInSeq(a.order, LAMBDA k : k = DictInvert(a).table[v])

UxCollectionsExact == ListAnswersExact /\ QueuesOrdered /\ HashesExact

=============================================================================
