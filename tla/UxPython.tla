------------------------------ MODULE UxPython ------------------------------
(***************************************************************************)
(* The CPython bridge (src/runtime_ext/uxpython/uxpython.c) called by      *)
(* several threads.  Its tables are changed under g_lock, each time in one *)
(* step; between the steps of a call Python code runs, and lets go of the  *)
(* GIL.  A call that starts once the runtime is gone does not come back.   *)
(* Error texts and the text a call returns are left out.                   *)
(***************************************************************************)
EXTENDS Naturals, FiniteSets

CONSTANTS
  PyThreads,
  PyObjects,                  \* Python objects, with the references the bridge owns
  PySesSlots, PyObjSlots,     \* bounds: 64 and 8192 in the code
  PyMaxSesGen, PyMaxObjGen    \* bounds: the generations that the program uses up

ASSUME PyAssumption == {PySesSlots, PyObjSlots} \subseteq Nat /\ IsFiniteSet(PyThreads)

VARIABLES
  pyState,   \* g_api: "none", "initialized" or "finalized"
  pySes,     \* g_sessions
  pyObj,     \* g_objects
  pyRef,     \* the references taken and not yet dropped, for each object
  pyCall     \* what each thread is in the middle of, and the references it holds

pyVars == <<pyState, pySes, pyObj, pyRef, pyCall>>

NoRefs == [o \in PyObjects |-> 0]
OneRef(o) == [NoRefs EXCEPT ![o] = 1]
PyIdle == [at |-> "idle", ses |-> 1, held |-> NoRefs]

(* session_index_from_token: the slot is only looked at again by its index. *)
SessionIndex(s, g) == pySes[s].active /\ pySes[s].gen = g
PyFree(table, i) == ~table[i].active /\ \A j \in 1..(i - 1) : table[j].active

(* initialize_python_runtime: the flags are read under the lock, the runtime *)
(* is started outside; a failure wipes g_api, whoever started it; a module   *)
(* path that cannot be added fails the call only.                            *)
InitializeLook(t) ==
  /\ pyCall[t].at = "idle" /\ pyState # "finalized"
  /\ pyCall' = [pyCall EXCEPT ![t].at = IF pyState = "none" THEN "start" ELSE "open"]
  /\ UNCHANGED <<pyState, pySes, pyObj, pyRef>>
InitializeStart(t) ==
  /\ pyCall[t].at = "start"
  /\ \/ pyState' = "none" /\ pyCall' = [pyCall EXCEPT ![t] = PyIdle]
     \/ pyState' = "initialized" /\ \E at \in {"idle", "open"} : pyCall' = [pyCall EXCEPT ![t].at = at]
  /\ UNCHANGED <<pySes, pyObj, pyRef>>

AllocateSession(t) ==
  /\ pyCall[t].at = "open"
  /\ \/ \E s \in DOMAIN pySes :
          /\ PyFree(pySes, s) /\ pySes[s].gen < PyMaxSesGen
          /\ pySes' = [pySes EXCEPT ![s] = [active |-> TRUE, gen |-> @.gen + 1]]
     \/ UNCHANGED pySes   \* the paths cannot be added, or the table is full
  /\ pyCall' = [pyCall EXCEPT ![t] = PyIdle]
  /\ UNCHANGED <<pyState, pyObj, pyRef>>

(* A call names a session that is open, then waits for the GIL. *)
PyBegin(t, s, op) ==
  /\ pyCall[t].at = "idle" /\ SessionIndex(s, pySes[s].gen)
  /\ pyCall' = [pyCall EXCEPT ![t] = [at |-> op, ses |-> s, held |-> NoRefs]]
  /\ UNCHANGED <<pyState, pySes, pyObj, pyRef>>

DecRef(refs) == pyRef' = [o \in PyObjects |-> pyRef[o] - refs[o]]

(* A new reference to o fills the first free entry; refs were dropped before. *)
Place(t, o, refs) ==
  \E i \in DOMAIN pyObj :
    /\ PyFree(pyObj, i) /\ pyObj[i].gen < PyMaxObjGen
    /\ pyObj' = [pyObj EXCEPT ![i] = [active |-> TRUE, gen |-> @.gen + 1, ses |-> pyCall[t].ses,
                                      obj |-> o]]
    /\ pyRef' = [x \in PyObjects |-> pyRef[x] + OneRef(o)[x] - refs[x]]
PyTableFull == \A i \in DOMAIN pyObj : pyObj[i].active

(* Mutant of Store: the answer that finds no entry is not given back. *)
StoreLeaks(t, o, refs) ==
  \/ Place(t, o, refs)
  \/ /\ PyTableFull /\ UNCHANGED pyObj
     /\ pyRef' = [x \in PyObjects |-> pyRef[x] + OneRef(o)[x] - refs[x]]

(* store_object: without a free entry, the reference is dropped. *)
Store(t, o, refs) ==
  \/ Place(t, o, refs)
  \/ PyTableFull /\ DecRef(refs) /\ UNCHANGED pyObj

(* Python has run for uxpython_import or uxpython_call_module_json (nothing   *)
(* held), or with the object acquired: its answer is stored, or it has none. *)
PyReturn(t) ==
  /\ pyCall[t].at \in {"import", "held"} /\ pyState = "initialized"
  /\ \/ \E o \in PyObjects : Store(t, o, pyCall[t].held)
     \/ DecRef(pyCall[t].held) /\ UNCHANGED pyObj
  /\ pyCall' = [pyCall EXCEPT ![t] = PyIdle]
  /\ UNCHANGED <<pyState, pySes>>

(* uxpython_get_attr, uxpython_call_json and the conversions: acquire_object, *)
(* for a handle <<i, g>>, which may be stale or foreign.                     *)
Acquire(t) ==
  /\ pyCall[t].at = "use" /\ pyState = "initialized"
  /\ \/ \E i \in DOMAIN pyObj :
          /\ pyObj[i].active /\ pyObj[i].ses = pyCall[t].ses
          /\ pyRef' = [pyRef EXCEPT ![pyObj[i].obj] = @ + 1]
          /\ pyCall' = [pyCall EXCEPT ![t].at = "held", ![t].held = OneRef(pyObj[i].obj)]
     \/ UNCHANGED pyRef /\ pyCall' = [pyCall EXCEPT ![t] = PyIdle]
  /\ UNCHANGED <<pyState, pySes, pyObj>>

(* The entries I are cleared; their references are dropped after the lock. *)
Deactivate(t, I) ==
  /\ pyObj' = [i \in DOMAIN pyObj |-> IF i \in I THEN [pyObj[i] EXCEPT !.active = FALSE, !.ses = 1]
                                                 ELSE pyObj[i]]
  /\ pyCall' = [pyCall EXCEPT ![t].at = "drop",
                              ![t].held = [o \in PyObjects |-> Cardinality({i \in I : pyObj[i].obj = o})]]
  /\ UNCHANGED <<pyState, pyRef>>

PyRelease(t) ==
  /\ pyCall[t].at = "use" /\ pyState = "initialized"
  /\ \E i \in DOMAIN pyObj : pyObj[i].active /\ pyObj[i].ses = pyCall[t].ses /\ Deactivate(t, {i})
  /\ UNCHANGED pySes

(* uxpython_close closes the slot's session, whoever opened it since the look. *)
PyClose(t) ==
  /\ pyCall[t].at = "close" /\ pyState = "initialized"
  /\ \/ /\ Deactivate(t, {i \in DOMAIN pyObj : pyObj[i].active /\ pyObj[i].ses = pyCall[t].ses})
        /\ pySes' = [pySes EXCEPT ![pyCall[t].ses].active = FALSE]
     \/ /\ pyCall' = [pyCall EXCEPT ![t] = PyIdle]   \* out of memory
        /\ UNCHANGED <<pyState, pySes, pyObj, pyRef>>

PyDrop(t) ==
  /\ pyCall[t].at = "drop" /\ pyState = "initialized"
  /\ DecRef(pyCall[t].held)
  /\ pyCall' = [pyCall EXCEPT ![t] = PyIdle]
  /\ UNCHANGED <<pyState, pySes, pyObj>>

(* The sessions are looked at under the lock, the runtime ends after it. *)
ShutdownLook(t) ==
  /\ pyCall[t].at = "idle" /\ pyState = "initialized"
  /\ \A s \in DOMAIN pySes : ~pySes[s].active
  /\ pyCall' = [pyCall EXCEPT ![t].at = "shutdown"]
  /\ UNCHANGED <<pyState, pySes, pyObj, pyRef>>
Shutdown(t) ==
  /\ pyCall[t].at = "shutdown" /\ pyState = "initialized"
  /\ pyState' = "finalized"
  /\ pyCall' = [pyCall EXCEPT ![t] = PyIdle]
  /\ UNCHANGED <<pySes, pyObj, pyRef>>

PyInit ==
  /\ pyState = "none"
  /\ pySes = [s \in 1..PySesSlots |-> [active |-> FALSE, gen |-> 0]]
  /\ pyObj = [i \in 1..PyObjSlots |-> [active |-> FALSE, gen |-> 0, ses |-> 1,
                                       obj |-> CHOOSE o \in PyObjects : TRUE]]
  /\ pyRef = NoRefs
  /\ pyCall = [t \in PyThreads |-> PyIdle]

PyNext ==
  \E t \in PyThreads :
     \/ InitializeLook(t) \/ InitializeStart(t) \/ AllocateSession(t)
     \/ \E s \in DOMAIN pySes, op \in {"import", "use", "close"} : PyBegin(t, s, op)
     \/ PyReturn(t) \/ Acquire(t) \/ PyRelease(t) \/ PyClose(t) \/ PyDrop(t)
     \/ ShutdownLook(t) \/ Shutdown(t)

PySpec == PyInit /\ [][PyNext]_pyVars

-----------------------------------------------------------------------------
(* Properties *)

(* Every reference taken is accounted for, one for each entry of the table    *)
(* and one for each use by a call under way: none is dropped twice (an object *)
(* in use cannot be freed by a release or a close in another thread) and     *)
(* none is lost, on the error paths and when the table is full, too.  The use *)
(* <<t, n>> is of the n-th reference that thread t's call holds.              *)
PyRefsExact ==
  \A o \in PyObjects :
    pyRef[o] = Cardinality({i \in DOMAIN pyObj : pyObj[i].active /\ pyObj[i].obj = o})
               + Cardinality({use \in PyThreads \X (1..PyObjSlots) : use[2] <= pyCall[use[1]].held[o]})

=============================================================================
