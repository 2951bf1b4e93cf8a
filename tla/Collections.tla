----------------------------- MODULE Collections -----------------------------
(***************************************************************************)
(* LIST, DICT and SET of a native program, and arrays that are dimensioned   *)
(* anew (uxb_runtime_mir.cpp).  A collection is found by its handle, the     *)
(* place it has in a table that only grows, and by the kind the caller says. *)
(* Every operation is one section under collections_mutex.  A value carries *)
(* the tag of its type; texts that are handed out are copies.               *)
(***************************************************************************)
EXTENDS Integers, Sequences, FiniteSets, SequencesExt, FiniteSetsExt

CONSTANTS
  CoKeys,       \* the texts that are keys and members
  CoTagged,     \* bound: the <<tag, value>> that are stored, with wrong tags too
  CoTables,     \* bound: the collections of a program
  CoLength,     \* bound: the items of a LIST
  CoBounds      \* bound: the subscripts of an array

ASSUME CoAssumption ==
  CoTables \in Nat /\ CoLength \in Nat /\ CoBounds \subseteq Int

VARIABLES
  coCollections,   \* collections: kind, values, keys
  coArray,         \* the descriptor of an array: bounds, and the block by position
  coEntries,       \* for the properties: by handle, what a DICT maps or a SET holds
  coElements       \* and what the array holds by subscript

coTables == <<coCollections, coEntries>>
coVars == <<coTables, coArray, coElements>>

-----------------------------------------------------------------------------
Tags == 1..3   \* I64, F64 and STRING

(* collection_at: the handle and the kind have to fit. *)
CollectionAt(h, kind) == h \in DOMAIN coCollections /\ coCollections[h].kind = kind

Positions(s) == 0..(Len(s) - 1)
WithoutPosition(s, i) == SubSeq(s, 1, i) \o SubSeq(s, i + 2, Len(s))

(* collection_key_index: -1 when not found. *)
KeyIndex(c, key) == SelectInSeq(c.keys, LAMBDA k : k = key) - 1

NewCollection(kind) ==
  /\ Len(coCollections) < CoTables
  /\ coCollections' = Append(coCollections, [kind |-> kind, values |-> <<>>, keys |-> <<>>])
  /\ coEntries' = Append(coEntries, <<>>)
  /\ UNCHANGED <<coArray, coElements>>

Changed(h, c) == coCollections' = [coCollections EXCEPT ![h] = c]

(* Of the LIST operations a value with a wrong tag is refused by set and add. *)
ListSet(h, i, v) ==
  /\ CollectionAt(h, "LIST") /\ i \in Positions(coCollections[h].values) /\ v[1] \in Tags
  /\ Changed(h, [coCollections[h] EXCEPT !.values[i + 1] = v])
  /\ coEntries' = [coEntries EXCEPT ![h] = [p \in DOMAIN @ |-> IF p = i + 1 THEN v ELSE @[p]]]
  /\ UNCHANGED <<coArray, coElements>>

ListAdd(h, v) ==
  /\ CollectionAt(h, "LIST") /\ v[1] \in Tags
  /\ Len(coCollections[h].values) < CoLength
  /\ Changed(h, [coCollections[h] EXCEPT !.values = Append(@, v)])
  /\ coEntries' = [coEntries EXCEPT ![h] = Append(@, v)]
  /\ UNCHANGED <<coArray, coElements>>

ListRemove(h, i) ==
  /\ CollectionAt(h, "LIST") /\ i \in Positions(coCollections[h].values)
  /\ Changed(h, [coCollections[h] EXCEPT !.values = WithoutPosition(@, i)])
  /\ coEntries' = [coEntries EXCEPT ![h] = [p \in 1..(Len(@) - 1) |-> @[IF p <= i THEN p ELSE p + 1]]]
  /\ UNCHANGED <<coArray, coElements>>

(* list_clear, dict_clear and set_clear. *)
ClearCollection(h) ==
  /\ h \in DOMAIN coCollections
  /\ Changed(h, [coCollections[h] EXCEPT !.values = <<>>, !.keys = <<>>])
  /\ coEntries' = [coEntries EXCEPT ![h] = <<>>]
  /\ UNCHANGED <<coArray, coElements>>

Keyed(f, key, v) == [k \in DOMAIN f \cup {key} |-> IF k = key THEN v ELSE f[k]]

(* Mutant of DictSet: a key that is known is moved to the end, its value not. *)
DictSetMoves(h, key, v) ==
  /\ CollectionAt(h, "DICT") /\ v[1] \in Tags
  /\ LET c == coCollections[h]
         i == KeyIndex(c, key)
     IN  Changed(h, IF i >= 0 THEN [c EXCEPT !.keys = Append(WithoutPosition(@, i), key),
                                             !.values[i + 1] = v]
                    ELSE [c EXCEPT !.keys = Append(@, key), !.values = Append(@, v)])
  /\ coEntries' = [coEntries EXCEPT ![h] = Keyed(@, key, v)]
  /\ UNCHANGED <<coArray, coElements>>

(* A known key is overwritten in place. *)
DictSet(h, key, v) ==
  /\ CollectionAt(h, "DICT") /\ v[1] \in Tags
  /\ LET c == coCollections[h]
         i == KeyIndex(c, key)
     IN  Changed(h, IF i >= 0 THEN [c EXCEPT !.values[i + 1] = v]
                    ELSE [c EXCEPT !.keys = Append(@, key), !.values = Append(@, v)])
  /\ coEntries' = [coEntries EXCEPT ![h] = Keyed(@, key, v)]
  /\ UNCHANGED <<coArray, coElements>>

SetAdd(h, key) ==
  /\ CollectionAt(h, "SET")
  /\ Changed(h, IF KeyIndex(coCollections[h], key) >= 0 THEN coCollections[h]
                ELSE [coCollections[h] EXCEPT !.keys = Append(@, key)])
  /\ coEntries' = [coEntries EXCEPT ![h] = Keyed(@, key, <<>>)]
  /\ UNCHANGED <<coArray, coElements>>

SetRemove(h, key) ==
  /\ CollectionAt(h, "SET")
  /\ LET i == KeyIndex(coCollections[h], key)
     IN  Changed(h, IF i < 0 THEN coCollections[h]
                    ELSE [coCollections[h] EXCEPT !.keys = WithoutPosition(@, i)])
  /\ coEntries' = [coEntries EXCEPT ![h] = [k \in DOMAIN @ \ {key} |-> @[k]]]
  /\ UNCHANGED <<coArray, coElements>>

(* What the program reads: list_get and dict_get, and by position dict_key_at, *)
(* dict_value_at and set_member_at; a tag of 0 is the answer of a failure.   *)
ListGet(h, i) ==
  IF CollectionAt(h, "LIST") /\ i \in Positions(coCollections[h].values)
  THEN coCollections[h].values[i + 1] ELSE <<0>>
DictGet(h, key) ==
  IF CollectionAt(h, "DICT") /\ KeyIndex(coCollections[h], key) >= 0
  THEN coCollections[h].values[KeyIndex(coCollections[h], key) + 1] ELSE <<0>>
DictEntryAt(h, i) == <<coCollections[h].keys[i + 1], coCollections[h].values[i + 1]>>
SetHas(h, key) == CollectionAt(h, "SET") /\ KeyIndex(coCollections[h], key) >= 0

-----------------------------------------------------------------------------
(* An array: __uxb_rt_array_resize, with zeros in a new block, and from the    *)
(* old one, with PRESERVE, the subscripts that both have.  Bounds the wrong   *)
(* way round end the program.                                                *)
NoArray == [lower |-> 0, upper |-> -1, block |-> <<>>]

ArrayResize(lower, upper, preserve) ==
  /\ lower <= upper
  /\ LET lo == Max({lower, coArray.lower})
         hi == Min({upper, coArray.upper})
         From(p) == lo - coArray.lower + p - (lo - lower)   \* memcpy, by position
         block == [p \in 0..(upper - lower) |->
                     IF preserve /\ coArray # NoArray /\ p \in (lo - lower)..(hi - lower)
                     THEN coArray.block[From(p)] ELSE 0]
     IN  coArray' = [lower |-> lower, upper |-> upper, block |-> block]
  /\ coElements' = [s \in lower..upper |->
                      IF preserve /\ s \in DOMAIN coElements THEN coElements[s] ELSE 0]
  /\ UNCHANGED coTables

(* The generated code stores an element at its distance from the lower bound. *)
ArrayStore(s, v) ==
  /\ s \in coArray.lower..coArray.upper
  /\ coArray' = [coArray EXCEPT !.block[s - coArray.lower] = v]
  /\ coElements' = [coElements EXCEPT ![s] = v]
  /\ UNCHANGED coTables

CoInit ==
  /\ coCollections = <<>> /\ coEntries = <<>>
  /\ coArray = NoArray /\ coElements = [s \in {} |-> 0]

CoTablesNext ==
  \/ \E kind \in {"LIST", "DICT", "SET"} : NewCollection(kind)
  \/ \E h \in 1..CoTables :
       \/ ClearCollection(h)
       \/ \E v \in CoTagged :
            \/ ListAdd(h, v)
            \/ \E i \in -1..CoLength : ListSet(h, i, v)
            \/ \E key \in CoKeys : DictSet(h, key, v)
       \/ \E i \in -1..CoLength : ListRemove(h, i)
       \/ \E key \in CoKeys : SetAdd(h, key) \/ SetRemove(h, key)
CoArrayNext ==
  \/ \E lower, upper \in CoBounds, preserve \in BOOLEAN : ArrayResize(lower, upper, preserve)
  \/ \E s \in CoBounds : ArrayStore(s, 1)
CoNext == CoTablesNext \/ CoArrayNext

CoSpec == CoInit /\ [][CoNext]_coVars

-----------------------------------------------------------------------------
(* Properties *)

(* A DICT or SET is what was put into it and not removed, a key once, however  *)
(* the calls came, a value with its key also by position, and an operation of *)
(* another kind finds nothing; a LIST has its items in order.                *)
EntriesFound ==
  \A h \in DOMAIN coCollections :
    LET c == coCollections[h]
    IN  /\ c.kind = "LIST" =>
             /\ Len(c.values) = Len(coEntries[h]) /\ c.keys = <<>>
             /\ \A i \in Positions(coEntries[h]) : ListGet(h, i) = coEntries[h][i + 1]
        /\ c.kind # "LIST" =>
             ToSet(c.keys) = DOMAIN coEntries[h] /\ IsInjective(c.keys)
        /\ c.kind = "DICT" =>
             /\ Len(c.values) = Len(c.keys)
             /\ \A k \in DOMAIN coEntries[h] : DictGet(h, k) = coEntries[h][k]
             /\ \A i \in Positions(c.keys) :
                  coEntries[h][DictEntryAt(h, i)[1]] = DictEntryAt(h, i)[2]
        /\ c.kind = "SET" =>
             /\ c.values = <<>>
             /\ \A k \in CoKeys : SetHas(h, k) <=> k \in DOMAIN coEntries[h]
        /\ c.kind # "DICT" => \A k \in CoKeys : DictGet(h, k) = <<0>>

(* An element keeps its value as long as every array in between has its        *)
(* subscript, wherever it moved in the block.                                *)
ElementsPreserved ==
  \A s \in DOMAIN coElements :
    coArray.block[s - coArray.lower] = coElements[s]

CollectionsExact == EntriesFound /\ ElementsPreserved

=============================================================================
