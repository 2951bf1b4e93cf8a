-------------------------------- MODULE UxClz --------------------------------
(***************************************************************************)
(* The object registry (src/runtime_ext/uxclz/src/uxclz.cpp): types with    *)
(* bases, interfaces, methods and methods on pairs of types; objects in      *)
(* slots with generations and counted references.  Every call is one         *)
(* section under the mutex, but methods and destructors run outside of it   *)
(* and may call the registry themselves.  Argument and result buffers and   *)
(* error texts are left out, and with them the calls that are refused.      *)
(***************************************************************************)
EXTENDS Integers, Sequences, FiniteSets, SequencesExt

CONSTANTS
  ClzThreads, ClzMethodIds,
  ClzTypeCount,        \* bound: the types that are registered
  ClzPayloads,     \* what the program wraps, each thing once
  ClzSlots,        \* bound: the objects that live at once
  ClzMaxGen,       \* bound: the generations of a slot, 2^32 - 1 in the code
  ClzMaxRefs,      \* the greatest count of references, UINT32_MAX in the code
  ClzHolds,        \* bound: the references to an object that the program takes
  ClzRegistered,   \* bound: the methods, pairs and interfaces that are registered for them
  ClzNesting       \* bound: how deep methods and destructors call each other

ASSUME ClzAssumption ==
  /\ IsFiniteSet(ClzThreads)
  /\ {ClzTypeCount, ClzRegistered, ClzSlots, ClzMaxGen, ClzMaxRefs, ClzHolds, ClzNesting} \subseteq Nat \ {0}

VARIABLES
  clzTypes,      \* types_: base (0 for none), whether an interface, its interfaces
  clzMethods,    \* the <<type, method>> that are registered
  clzMulti,      \* multi_: the <<method, left type, right type>> that are registered
  clzObjects,    \* objects_, by slot
  clzHeld,       \* how many references to each handle the program has
  clzFrames,     \* of each thread, the methods and destructors it is in
  clzGiven,      \* for the properties: what each handle was made for since the last reset
  clzDestroyed   \* and how often the destructor of a payload was called

clzVars == <<clzTypes, clzMethods, clzMulti, clzObjects, clzHeld, clzFrames, clzGiven, clzDestroyed>>
clzTables == <<clzTypes, clzMethods, clzMulti>>

-----------------------------------------------------------------------------
(* Types *)

MaxInheritanceDepth == 256

TypeIds == 1..Len(clzTypes)

(* A type and its bases, the nearest first, as far as a search goes. *)
Chain(type) ==
  LET up[t \in 0..Len(clzTypes)] == IF t = 0 THEN <<>> ELSE <<t>> \o up[clzTypes[t].base]
  IN  IF type \in TypeIds
      THEN SubSeq(up[type], 1, IF Len(up[type]) < MaxInheritanceDepth
                               THEN Len(up[type]) ELSE MaxInheritanceDepth)
      ELSE <<>>

IsA(type, expected) == Contains(Chain(type), expected)

HasInterface(type, i) ==
  \E t \in ToSet(Chain(type)) :
    i \in clzTypes[t].interfaces \/ (t = i /\ clzTypes[t].interface)

(* The type whose method is called, 0 if there is none. *)
FirstIn(chain, Test(_)) ==
  LET found == SelectInSeq(chain, Test) IN IF found = 0 THEN 0 ELSE chain[found]
FindMethod(type, method) == FirstIn(Chain(type), LAMBDA t : <<t, method>> \in clzMethods)

(* Mutant of FindMulti: both sides have to be registered for the same type. *)
FindMultiAlike(method, left, right) ==
  LET l == FirstIn(Chain(left), LAMBDA t : <<method, t, t>> \in clzMulti)
  IN  IF l \in ToSet(Chain(right)) THEN <<l, l>> ELSE <<0, 0>>

(* The first left type for which some right type is registered decides. *)
FindMulti(method, left, right) ==
  LET l == FirstIn(Chain(left),
                   LAMBDA t : \E r \in ToSet(Chain(right)) : <<method, t, r>> \in clzMulti)
  IN  <<l, FirstIn(Chain(right), LAMBDA r : <<method, l, r>> \in clzMulti)>>

(* A new name.  One that is known is found, with the same contract, or refused. *)
RegisterType(base, interface) ==
  /\ Len(clzTypes) < ClzTypeCount
  /\ base \in {0} \cup TypeIds
  /\ clzTypes' = Append(clzTypes, [base |-> base, interface |-> interface, interfaces |-> {}])
  /\ UNCHANGED <<clzMethods, clzMulti, clzObjects, clzHeld, clzFrames, clzGiven, clzDestroyed>>

MayRegister ==
  Cardinality(clzMethods) + Cardinality(clzMulti)
  + Cardinality({x \in TypeIds \X TypeIds : x[2] \in clzTypes[x[1]].interfaces}) < ClzRegistered

AddInterface(type, i) ==
  /\ MayRegister
  /\ type \in TypeIds /\ i \in TypeIds /\ clzTypes[i].interface
  /\ clzTypes' = [clzTypes EXCEPT ![type].interfaces = @ \cup {i}]
  /\ UNCHANGED <<clzMethods, clzMulti, clzObjects, clzHeld, clzFrames, clzGiven, clzDestroyed>>

RegisterMethod(type, method) ==
  /\ type \in TypeIds /\ MayRegister
  /\ clzMethods' = clzMethods \cup {<<type, method>>}
  /\ UNCHANGED <<clzTypes, clzMulti, clzObjects, clzHeld, clzFrames, clzGiven, clzDestroyed>>

RegisterMulti(method, left, right) ==
  /\ {left, right} \subseteq TypeIds /\ MayRegister
  /\ clzMulti' = clzMulti \cup {<<method, left, right>>}
  /\ UNCHANGED <<clzTypes, clzMethods, clzObjects, clzHeld, clzFrames, clzGiven, clzDestroyed>>

-----------------------------------------------------------------------------
(* Objects.  A handle is a slot and the generation it had. *)

ClzHandles == (1..ClzSlots) \X (1..ClzMaxGen)
EmptySlot == [generation |-> 1, active |-> FALSE, type |-> 0, refs |-> 0, payload |-> {}]
Object(h) == clzObjects[h[1]]

FindObject(h) ==
  /\ h[1] \in DOMAIN clzObjects
  /\ Object(h).active /\ Object(h).generation = h[2] /\ Object(h).refs # 0

(* A thread calls from the program, a method or a destructor. *)
MayCall(th) ==
  clzFrames[th] # <<>> => Last(clzFrames[th]).at # "leave" /\ Len(clzFrames[th]) <= ClzNesting
Frame(at, handles, payloads) == [at |-> at, handles |-> handles, payloads |-> payloads]

(* The counts wrap at their width. *)
Retained(handles) ==
  [s \in DOMAIN clzObjects |->
     [clzObjects[s] EXCEPT
        !.refs = (@ + Cardinality({i \in DOMAIN handles : handles[i][1] = s})) % (ClzMaxRefs + 1)]]

(* The first slot that is not active, or a new one. *)
Wrap(th, type, payload) ==
  /\ MayCall(th) /\ type \in TypeIds
  /\ clzDestroyed[payload] = 0 /\ \A h \in DOMAIN clzGiven : clzGiven[h] # payload
  /\ LET free == SelectInSeq(clzObjects, LAMBDA o : ~o.active)
         grown == IF free = 0 THEN Append(clzObjects, EmptySlot) ELSE clzObjects
         slot == IF free = 0 THEN Len(grown) ELSE free
         h == <<slot, grown[slot].generation>>
     IN  /\ h \in ClzHandles
         /\ clzObjects' = [grown EXCEPT ![slot] = [EmptySlot EXCEPT
                             !.generation = h[2], !.active = TRUE, !.type = type,
                             !.refs = 1, !.payload = {payload}]]
         /\ clzHeld' = [clzHeld EXCEPT ![h] = 1]
         /\ clzGiven' = [x \in DOMAIN clzGiven \cup {h} |->
                          IF x \in DOMAIN clzGiven THEN clzGiven[x] ELSE payload]
  /\ UNCHANGED <<clzTables, clzFrames, clzDestroyed>>

(* uxclz_object_retain with no interface, else uxclz_object_query_interface. *)
Retain(th, h, interfaces) ==
  /\ MayCall(th) /\ FindObject(h) /\ Object(h).refs < ClzMaxRefs /\ clzHeld[h] < ClzHolds
  /\ \A i \in interfaces : HasInterface(Object(h).type, i)
  /\ clzObjects' = Retained(<<h>>)
  /\ clzHeld' = [clzHeld EXCEPT ![h] = @ + 1]
  /\ UNCHANGED <<clzTables, clzFrames, clzGiven, clzDestroyed>>

(* Mutant of Released: the slot is used again under the same generation. *)
ReleasedSame(h) ==
  IF Object(h).refs > 1 THEN [Object(h) EXCEPT !.refs = @ - 1]
  ELSE [EmptySlot EXCEPT !.generation = Object(h).generation]

(* The last reference empties the slot, for another generation. *)
Released(h) ==
  IF Object(h).refs > 1 THEN [Object(h) EXCEPT !.refs = @ - 1]
  ELSE [EmptySlot EXCEPT !.generation = Object(h).generation + 1]

(* Registry::release, by a thread that goes on with the frames given: the     *)
(* destructor, if this was the last reference, runs after the section.       *)
ReleaseBy(th, h, frames) ==
  LET payload == IF Object(h).refs = 1 THEN Object(h).payload ELSE {}
  IN  /\ clzObjects' = [clzObjects EXCEPT ![h[1]] = Released(h)]
      /\ clzFrames' = [clzFrames EXCEPT
           ![th] = IF payload = {} THEN frames
                   ELSE Append(frames, Frame("destructor", <<>>, payload))]
      /\ clzDestroyed' = [p \in ClzPayloads |->
                            clzDestroyed[p] + (IF p \in payload THEN 1 ELSE 0)]
      /\ UNCHANGED <<clzTables, clzGiven>>

(* The program gives back no more than it has. *)
Release(th, h) ==
  /\ MayCall(th) /\ clzHeld[h] > 0 /\ FindObject(h)
  /\ clzHeld' = [clzHeld EXCEPT ![h] = @ - 1]
  /\ ReleaseBy(th, h, clzFrames[th])

(* The method and the payload are looked up and the object is held under the  *)
(* mutex; the method runs after it.                                          *)
Call(th, handles) ==
  /\ MayCall(th)
  /\ \A i \in DOMAIN handles : FindObject(handles[i]) /\ Object(handles[i]).refs < ClzMaxRefs
  /\ clzObjects' = Retained(handles)
  /\ clzFrames' = [clzFrames EXCEPT
       ![th] = Append(@, Frame("method", handles,
                               UNION {Object(handles[i]).payload : i \in DOMAIN handles}))]
  /\ UNCHANGED <<clzTables, clzHeld, clzGiven, clzDestroyed>>

Invoke(th, method, h) ==
  Call(th, <<h>>) /\ FindMethod(Object(h).type, method) # 0
InvokeMulti(th, method, l, r) ==
  Call(th, <<l, r>>) /\ FindMulti(method, Object(l).type, Object(r).type)[1] # 0

(* A method has returned: what was held for it is released, one by one. *)
Leave(th) ==
  /\ clzFrames[th] # <<>> /\ Last(clzFrames[th]).at # "destructor"
  /\ LET frame == Last(clzFrames[th])
         rest == IF Len(frame.handles) = 1 THEN Front(clzFrames[th])
                 ELSE Append(Front(clzFrames[th]), Frame("leave", Tail(frame.handles), {}))
     IN  ReleaseBy(th, Head(frame.handles), rest)
  /\ UNCHANGED clzHeld

DestructorReturns(th) ==
  /\ clzFrames[th] # <<>> /\ Last(clzFrames[th]).at = "destructor"
  /\ clzFrames' = [clzFrames EXCEPT ![th] = Front(@)]
  /\ UNCHANGED <<clzTables, clzObjects, clzHeld, clzGiven, clzDestroyed>>

(* uxclz_reset_registry, refused while an object lives.  Slots and generations *)
(* begin anew: the program has to forget the handles from before.            *)
Reset(th) ==
  /\ MayCall(th)
  /\ \A s \in DOMAIN clzObjects : ~clzObjects[s].active
  /\ clzTypes' = <<>> /\ clzMethods' = {} /\ clzMulti' = {} /\ clzObjects' = <<>>
  /\ clzGiven' = <<>>
  /\ UNCHANGED <<clzHeld, clzFrames, clzDestroyed>>

ClzInit ==
  /\ clzTypes = <<>> /\ clzMethods = {} /\ clzMulti = {} /\ clzObjects = <<>>
  /\ clzHeld = [h \in ClzHandles |-> 0]
  /\ clzFrames = [th \in ClzThreads |-> <<>>]
  /\ clzGiven = <<>>
  /\ clzDestroyed = [p \in ClzPayloads |-> 0]

ClzTypesNext ==
  LET ids == 1..ClzTypeCount
  IN  \/ \E base \in 0..ClzTypeCount, i \in BOOLEAN : RegisterType(base, i)
      \/ \E t, i \in ids : AddInterface(t, i)
      \/ \E m \in ClzMethodIds, t, u \in ids : RegisterMethod(t, m) \/ RegisterMulti(m, t, u)

(* The objects are of one type, which has each method. *)
ClzObjectsNext ==
  \/ clzTypes = <<>> /\ RegisterType(0, TRUE)
  \/ \E m \in ClzMethodIds : RegisterMethod(1, m) \/ RegisterMulti(m, 1, 1)
  \/ \E th \in ClzThreads :
       \/ \E p \in ClzPayloads : Wrap(th, 1, p)
       \/ \E h \in DOMAIN clzGiven :
            \/ \E interfaces \in {{}, {1}} : Retain(th, h, interfaces)
            \/ Release(th, h)
            \/ \E m \in ClzMethodIds :
                 \/ Invoke(th, m, h)
                 \/ \E r \in DOMAIN clzGiven : InvokeMulti(th, m, h, r)
       \/ Leave(th) \/ DestructorReturns(th) \/ Reset(th)

(* All that a program can do, with types and objects together. *)
ClzNext ==
  \/ ClzTypesNext
  \/ \E th \in ClzThreads :
       \/ \E t \in TypeIds, p \in ClzPayloads : Wrap(th, t, p)
       \/ \E h \in ClzHandles :
            \/ \E interfaces \in SUBSET TypeIds : Retain(th, h, interfaces)
            \/ Release(th, h)
            \/ \E m \in ClzMethodIds :
                 \/ Invoke(th, m, h)
                 \/ \E r \in ClzHandles : InvokeMulti(th, m, h, r)
       \/ Leave(th) \/ DestructorReturns(th) \/ Reset(th)

ClzSpec == ClzInit /\ [][ClzNext]_clzVars

-----------------------------------------------------------------------------
(* Properties *)

(* The operands of the calls under way: of a thread, in a frame, the first or the *)
(* second.                                                                   *)
ClzOperands == ClzThreads \X ((1..(ClzNesting + 2)) \X {1, 2})
CallRefs(h) ==
  {x \in ClzOperands : LET frames == clzFrames[x[1]]
                           f == x[2][1]
                           i == x[2][2]
                       IN  f \in DOMAIN frames /\ i \in DOMAIN frames[f].handles /\ frames[f].handles[i] = h}

(* Every reference is the program's or a running call's, and whoever has one   *)
(* still finds the object.                                                   *)
RefsAccounted ==
  \A h \in ClzHandles :
    clzHeld[h] + Cardinality(CallRefs(h)) = IF FindObject(h) THEN Object(h).refs ELSE 0

(* A payload is destroyed once, after the last reference to it and not while a *)
(* method works on it; a handle finds the object it was made for or nothing. *)
PayloadsDestroyedOnce ==
  /\ \A p \in ClzPayloads : clzDestroyed[p] <= 1
  /\ \A s \in DOMAIN clzObjects :
       clzObjects[s].active <=> clzObjects[s].refs > 0 /\ clzObjects[s].payload # {}
  /\ \A h \in DOMAIN clzGiven :
       IF FindObject(h) THEN Object(h).payload = {clzGiven[h]} /\ clzDestroyed[clzGiven[h]] = 0
       ELSE clzDestroyed[clzGiven[h]] = 1
  /\ \A th \in ClzThreads : \A f \in DOMAIN clzFrames[th] :
       clzFrames[th][f].at = "method" =>
         \A p \in clzFrames[th][f].payloads : clzDestroyed[p] = 0

(* What a base answers, a type that is derived from it answers too, and what   *)
(* is called for a pair is registered for bases of both, such that nothing    *)
(* that fits is nearer on the left.                                          *)
DispatchInherited ==
  \A t, base \in TypeIds : IsA(t, base) =>
    /\ IsA(base, t) => t = base
    /\ \A i \in TypeIds : HasInterface(base, i) => HasInterface(t, i)
    /\ \A m \in ClzMethodIds :
         /\ FindMethod(base, m) # 0 => FindMethod(t, m) # 0 /\ IsA(t, FindMethod(t, m))
         /\ \A r \in TypeIds :
              LET found == FindMulti(m, t, r)
              IN  /\ FindMulti(m, base, r)[1] # 0 \/ FindMulti(m, r, base)[1] # 0 =>
                       found[1] # 0 \/ FindMulti(m, r, t)[1] # 0
                  /\ IF found[1] = 0
                     THEN \A x \in clzMulti : ~(x[1] = m /\ IsA(t, x[2]) /\ IsA(r, x[3]))
                     ELSE /\ <<m>> \o found \in clzMulti /\ IsA(t, found[1]) /\ IsA(r, found[2])
                          /\ \A x \in clzMulti :
                               x[1] = m /\ IsA(t, x[2]) /\ IsA(r, x[3]) => IsA(found[1], x[2])

ClzObjectsExact == RefsAccounted /\ PayloadsDestroyedOnce /\ DispatchInherited

=============================================================================
