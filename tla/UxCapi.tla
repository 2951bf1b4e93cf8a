------------------------------- MODULE UxCapi -------------------------------
(***************************************************************************)
(* The C interface bridge (src/runtime_ext/uxcapi/uxcapi.c): descriptors   *)
(* of C structures, counted by their owners; calls and argument lists that *)
(* own copies of their arguments; and callbacks, whose native threads put  *)
(* events into a queue that the program takes them from.  The layout of    *)
(* data and the libffi call itself are left out.  The program frees a      *)
(* handle once and does not pass it on afterwards.                         *)
(***************************************************************************)
EXTENDS Naturals, FiniteSets, SequencesExt

CONSTANTS
  CapiTypes,      \* bound: the descriptors a program makes
  CapiLists,      \* bound: its calls and argument lists
  CapiThreads,    \* the native threads that call the callback
  CapiArgMax,     \* bound: arguments in a list and fields in a structure
  CapiEventMax    \* bound: the events of the callback

ASSUME CapiAssumption ==
  IsFiniteSet(CapiTypes) /\ IsFiniteSet(CapiLists) /\ {CapiArgMax, CapiEventMax} \subseteq Nat

VARIABLES
  capiTypes,    \* descriptors: count and owners, finalized, fields
  capiLists,    \* uxc_call and uxc_argument_list: the STRUCT arguments and the return type
  capiQueue,    \* head .. tail of the callback
  capiPending,  \* its pending
  capiBuilt,    \* its closure exists
  capiCapture,  \* what each native thread has captured, 0 for nothing
  capiEvents,   \* how many events were captured
  capiTaken     \* the events that the program holds

capiRefs == <<capiTypes, capiLists>>
capiCallback == <<capiQueue, capiPending, capiBuilt, capiCapture, capiEvents, capiTaken>>
capiVars == <<capiRefs, capiCallback>>

NoType == [count |-> 0, held |-> FALSE, final |-> FALSE, fields |-> <<>>]
NoList == [live |-> FALSE, args |-> <<>>, return |-> <<>>]
CapiUsable(d) == capiTypes[d].held /\ capiTypes[d].final

(* new_type_descriptor: one reference, the program's. *)
TypeStructNew(d) ==
  /\ capiTypes[d] = NoType
  /\ capiTypes' = [capiTypes EXCEPT ![d].count = 1, ![d].held = TRUE]
  /\ UNCHANGED <<capiLists, capiCallback>>

(* type_descriptor_retain of each of the references refs. *)
CapiOccurrences(refs, d) == {i \in DOMAIN refs : refs[i] = d}
TypeRetain(types, refs) ==
  [d \in CapiTypes |-> [types[d] EXCEPT !.count = @ + Cardinality(CapiOccurrences(refs, d))]]

(* type_descriptor_release of the first of the references that are left: what nobody *)
(* refers to any more is freed, and its fields are left to be released.      *)
ReleaseFirst(s) ==
  LET d == Head(s.refs)
      type == s.types[d]
  IN  IF s.refs = <<>> THEN s
      ELSE IF type.count = 1
      THEN [types |-> [s.types EXCEPT ![d] = NoType], refs |-> Tail(s.refs) \o type.fields]
      ELSE [types |-> [s.types EXCEPT ![d].count = @ - 1], refs |-> Tail(s.refs)]

(* Until none is left: no more steps than there are references and fields. *)
CapiFieldPlaces == CapiTypes \X (1..CapiArgMax)
TypeRelease(types, refs) ==
  LET steps == Len(refs) + Cardinality({x \in CapiFieldPlaces : x[2] \in DOMAIN types[x[1]].fields})
      after[n \in 0..steps] ==
        IF n = 0 THEN [types |-> types, refs |-> refs] ELSE ReleaseFirst(after[n - 1])
  IN  after[steps].types

(* uxcapi_type_add_field and uxcapi_type_add_struct_field, through            *)
(* add_type_element; a scalar field has no descriptor and only counts here   *)
(* in that the structure is not empty.                                       *)
AddTypeElement(d, nested) ==
  /\ capiTypes[d].held /\ ~capiTypes[d].final
  /\ Len(capiTypes[d].fields) + Len(nested) <= CapiArgMax
  /\ capiTypes' = TypeRetain([capiTypes EXCEPT ![d].fields = @ \o nested], nested)
  /\ UNCHANGED <<capiLists, capiCallback>>
TypeAddStructField(d, f) == CapiUsable(f) /\ AddTypeElement(d, <<f>>)

(* uxcapi_type_add_struct_array_field, one field after the other: without     *)
(* memory the first n stay.                                                  *)
TypeAddStructArrayField(d, f, count) ==
  /\ CapiUsable(f)
  /\ \E n \in 1..count : AddTypeElement(d, [i \in 1..n |-> f])

(* uxcapi_type_finalize: libffi or the expected layout may refuse it. *)
TypeFinalize(d) ==
  /\ capiTypes[d].held /\ ~capiTypes[d].final
  /\ capiTypes' = [capiTypes EXCEPT ![d].final = TRUE]
  /\ UNCHANGED <<capiLists, capiCallback>>

TypeFree(d) ==
  /\ capiTypes[d].held
  /\ capiTypes' = TypeRelease([capiTypes EXCEPT ![d].held = FALSE], <<d>>)
  /\ UNCHANGED <<capiLists, capiCallback>>

(* uxcapi_call_new and uxcapi_args_new *)
CallNew(l) ==
  /\ ~capiLists[l].live
  /\ capiLists' = [capiLists EXCEPT ![l].live = TRUE]
  /\ UNCHANGED <<capiTypes, capiCallback>>

(* add_aggregate_argument: without memory for the copy or the list, none. *)
AddAggregateArgument(l, d) ==
  /\ capiLists[l].live /\ CapiUsable(d) /\ Len(capiLists[l].args) < CapiArgMax
  /\ capiLists' = [capiLists EXCEPT ![l].args = Append(@, d)]
  /\ capiTypes' = TypeRetain(capiTypes, <<d>>)
  /\ UNCHANGED capiCallback

(* uxcapi_call_append_args: a copy that fails leaves those before it. *)
CallAppendArgs(l, from) ==
  /\ l # from /\ capiLists[l].live /\ capiLists[from].live
  /\ \E n \in 0..Len(capiLists[from].args) :
       LET copied == SubSeq(capiLists[from].args, 1, n)
       IN  /\ Len(capiLists[l].args) + n <= CapiArgMax
           /\ capiLists' = [capiLists EXCEPT ![l].args = @ \o copied]
           /\ capiTypes' = TypeRetain(capiTypes, copied)
  /\ UNCHANGED capiCallback

(* Mutant of CallSetReturnStruct: the type set before is forgotten. *)
CallSetReturnStructOver(l, d) ==
  /\ capiLists[l].live /\ CapiUsable(d)
  /\ capiTypes' = TypeRetain(capiTypes, <<d>>)
  /\ capiLists' = [capiLists EXCEPT ![l].return = <<d>>]
  /\ UNCHANGED capiCallback

(* The type set before is released first; it may be the same one, which the   *)
(* program still holds.                                                      *)
CallSetReturnStruct(l, d) ==
  /\ capiLists[l].live /\ CapiUsable(d)
  /\ capiTypes' = TypeRetain(TypeRelease(capiTypes, capiLists[l].return), <<d>>)
  /\ capiLists' = [capiLists EXCEPT ![l].return = <<d>>]
  /\ UNCHANGED capiCallback

(* clear_argument_list, by uxcapi_call_clear_arguments and uxcapi_args_clear *)
CallClearArguments(l) ==
  /\ capiLists[l].live
  /\ capiTypes' = TypeRelease(capiTypes, capiLists[l].args)
  /\ capiLists' = [capiLists EXCEPT ![l].args = <<>>]
  /\ UNCHANGED capiCallback
CallFree(l) ==
  /\ capiLists[l].live
  /\ capiTypes' = TypeRelease(capiTypes, capiLists[l].args \o capiLists[l].return)
  /\ capiLists' = [capiLists EXCEPT ![l] = NoList]
  /\ UNCHANGED capiCallback

-----------------------------------------------------------------------------
(* The callback *)

CallbackBuild == capiBuilt' = TRUE /\ UNCHANGED <<capiRefs, capiQueue, capiPending, capiCapture, capiEvents, capiTaken>>

(* callback_dispatch: the arguments are copied without the lock, and put at   *)
(* the tail with it; without memory the event is lost.                       *)
DispatchCapture(t) ==
  /\ capiBuilt /\ capiCapture[t] = 0 /\ capiEvents < CapiEventMax
  /\ capiEvents' = capiEvents + 1
  /\ capiCapture' = [capiCapture EXCEPT ![t] = capiEvents + 1]
  /\ UNCHANGED <<capiRefs, capiQueue, capiPending, capiBuilt, capiTaken>>
DispatchAppend(t) ==
  /\ capiCapture[t] # 0
  /\ capiQueue' = Append(capiQueue, capiCapture[t])
  /\ capiPending' = capiPending + 1
  /\ capiCapture' = [capiCapture EXCEPT ![t] = 0]
  /\ UNCHANGED <<capiRefs, capiBuilt, capiEvents, capiTaken>>

CallbackNext ==
  /\ capiQueue # <<>>
  /\ capiQueue' = Tail(capiQueue)
  /\ capiPending' = IF capiPending > 0 THEN capiPending - 1 ELSE 0
  /\ capiTaken' = capiTaken \cup {Head(capiQueue)}
  /\ UNCHANGED <<capiRefs, capiBuilt, capiCapture, capiEvents>>
EventFree(e) ==
  /\ e \in capiTaken /\ capiTaken' = capiTaken \ {e}
  /\ UNCHANGED <<capiRefs, capiQueue, capiPending, capiBuilt, capiCapture, capiEvents>>

(* uxcapi_callback_free; the closure must not run any more. *)
CallbackFree ==
  /\ capiBuilt /\ \A t \in CapiThreads : capiCapture[t] = 0
  /\ capiBuilt' = FALSE /\ capiQueue' = <<>> /\ capiPending' = 0
  /\ UNCHANGED <<capiRefs, capiCapture, capiEvents, capiTaken>>

CapiInit ==
  /\ capiTypes = [d \in CapiTypes |-> NoType] /\ capiLists = [l \in CapiLists |-> NoList]
  /\ capiQueue = <<>> /\ capiPending = 0 /\ capiBuilt = FALSE
  /\ capiCapture = [t \in CapiThreads |-> 0] /\ capiEvents = 0 /\ capiTaken = {}

CapiTypesNext ==
  \/ \E d \in CapiTypes :
       \/ TypeStructNew(d) \/ TypeFinalize(d) \/ TypeFree(d)
       \/ \E f \in CapiTypes : TypeAddStructField(d, f) \/ TypeAddStructArrayField(d, f, CapiArgMax)
  \/ \E l \in CapiLists :
       \/ CallNew(l) \/ CallClearArguments(l) \/ CallFree(l)
       \/ \E d \in CapiTypes : AddAggregateArgument(l, d) \/ CallSetReturnStruct(l, d)
       \/ \E from \in CapiLists : CallAppendArgs(l, from)
CapiCallbackNext ==
  \/ CallbackBuild \/ CallbackNext \/ CallbackFree
  \/ \E t \in CapiThreads : DispatchCapture(t) \/ DispatchAppend(t)
  \/ \E e \in capiTaken : EventFree(e)

CapiSpec == CapiInit /\ [][CapiTypesNext \/ CapiCallbackNext]_capiVars

-----------------------------------------------------------------------------
(* Properties *)

(* Each event of the callback is in one place, or was freed: none is handed    *)
(* out twice, and uxcapi_callback_pending says how many wait.                *)
CapiEventsOnce ==
  LET captured == {capiCapture[t] : t \in CapiThreads} \ {0}
  IN  /\ IsInjective(capiQueue) /\ capiPending = Len(capiQueue)
      /\ Range(capiQueue) \cap (captured \cup capiTaken) = {}
      /\ captured \cap capiTaken = {}

(* A descriptor lives as long as somebody refers to it: its count is the      *)
(* program's handle and every field, argument and return type made of it, in *)
(* whatever order they are freed; none is left over and none is freed while  *)
(* libffi could still follow a pointer into it.                              *)
CapiFields(d) == {x \in CapiFieldPlaces : x[2] \in CapiOccurrences(capiTypes[x[1]].fields, d)}
CapiArguments(d) == {x \in CapiLists \X (1..CapiArgMax) : x[2] \in CapiOccurrences(capiLists[x[1]].args, d)}
CapiReturns(d) == {l \in CapiLists : capiLists[l].return = <<d>>}
CapiRefsExact ==
  \A d \in CapiTypes :
    capiTypes[d].count = (IF capiTypes[d].held THEN 1 ELSE 0) + Cardinality(CapiFields(d))
                         + Cardinality(CapiArguments(d)) + Cardinality(CapiReturns(d))

(* Both: descriptors and events have their owners, and no other.             *)
CapiOwnership == CapiRefsExact /\ CapiEventsOnce

=============================================================================
