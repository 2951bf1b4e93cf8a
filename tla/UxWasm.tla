------------------------------- MODULE UxWasm -------------------------------
(***************************************************************************)
(* The WebAssembly bridge (src/runtime_ext/uxwasmrt/uxwasmrt.c): sessions  *)
(* built from Wasmtime objects, one by one, and taken down in the opposite *)
(* order.  One mutex is held for the whole of every call; the steps of a   *)
(* call are apart here so that each can fail and the order shows.  A call  *)
(* of an exported function is one step: all that remains of it is the error *)
(* it leaves.  What modules compute and the random numbers are left out.   *)
(***************************************************************************)
EXTENDS Sequences, FiniteSets, Integers

CONSTANTS
  WmThreads,
  WmSlots,    \* bound: 64 in the code
  WmMaxGen,   \* bound: the generations that the program uses up
  WmMaxInt    \* bound: the largest i32, 2^31 - 1 in the code

ASSUME WmAssumption == {WmSlots, WmMaxGen, WmMaxInt} \subseteq Nat

VARIABLES
  wmRuntime,   \* g_runtime: the Wasmtime library is loaded
  wmSes,       \* g_sessions; objs: the objects whose pointers it holds, code: its
               \* error_code, "ok", "failed" or "thread"; own, for the property: how its thread's last call on it ended
  wmAlive,     \* the Wasmtime objects that exist, counted by kind
  wmHold,      \* who holds the mutex, for what, and the session it builds or takes down;
               \* report: the error that the call leaves when it is done, "" for none
  wmGlobal     \* g_global_error_code: "ok" or "failed"

wmVars == <<wmRuntime, wmSes, wmAlive, wmHold, wmGlobal>>

(* Each object is made from the ones before it; the host functions, one for   *)
(* each import, stand for one object.                                        *)
WmOrder == <<"engine", "store", "module", "funcs", "instance", "exports">>
WmKinds == {WmOrder[i] : i \in DOMAIN WmOrder}
WmObjs(n) == {WmOrder[i] : i \in 1..n}

WmFree == [by |-> "nobody", at |-> "free", objs |-> {}, report |-> ""]
WmMutexFree == wmHold.at = "free"
SessionFromHandle(t, s, g) == wmSes[s].used /\ wmSes[s].gen = g /\ wmSes[s].owner = t

(* ensure_runtime_loaded, then read_file: both may fail, the call is over. *)
WmBegin(t, at) ==
  /\ WmMutexFree
  /\ wmRuntime' \in {wmRuntime, TRUE}
  /\ \/ /\ wmRuntime' /\ wmHold' = [WmFree EXCEPT !.by = t, !.at = at]
        /\ UNCHANGED wmGlobal
     \/ /\ wmGlobal' = "failed"
        /\ UNCHANGED wmHold
  /\ UNCHANGED <<wmSes, wmAlive>>

(* open_module_into: the next object is made, or the session is taken down.  *)
WmBuild ==
  /\ wmHold.at \in {"open", "validate"}
  /\ LET n == Cardinality(wmHold.objs) + 1
     IN  /\ n \in DOMAIN WmOrder
         /\ \/ /\ wmAlive' = [wmAlive EXCEPT ![WmOrder[n]] = @ + 1]
               /\ wmHold' = [wmHold EXCEPT !.objs = WmObjs(n)]
            \/ /\ wmHold' = [wmHold EXCEPT !.at = "close", !.report = "failed"]
               /\ UNCHANGED wmAlive
  /\ UNCHANGED <<wmRuntime, wmSes, wmGlobal>>

NextWmGeneration(g) == IF g = 16777215 THEN 1 ELSE g + 1

(* allocate_session: the first slot free; when there is none, or the file    *)
(* was only to be validated, what was built is taken down.                   *)
WmAllocate ==
  /\ wmHold.at \in {"open", "validate"} /\ wmHold.objs = WmKinds
  /\ \/ \E s \in DOMAIN wmSes :
          /\ wmHold.at = "open"
          /\ ~wmSes[s].used /\ \A r \in 1..(s - 1) : wmSes[r].used
          /\ wmSes[s].gen < WmMaxGen
          /\ wmSes' = [wmSes EXCEPT ![s] = [used |-> TRUE, gen |-> NextWmGeneration(@.gen),
                                            owner |-> wmHold.by, objs |-> wmHold.objs,
                                            code |-> "ok", own |-> "ok"]]
          /\ wmHold' = WmFree
     \/ /\ wmHold.at = "validate" \/ \A s \in DOMAIN wmSes : wmSes[s].used
        /\ wmHold' = [wmHold EXCEPT !.at = "close",
                                    !.report = IF wmHold.at = "validate" THEN "ok" ELSE "failed"]
        /\ UNCHANGED wmSes
  /\ UNCHANGED <<wmRuntime, wmAlive, wmGlobal>>

(* Mutant of WmTakeOver: the pointers stay in the slot. *)
WmTakeOverKeeps(s, t, at) ==
  /\ wmSes' = [wmSes EXCEPT ![s].used = FALSE]
  /\ wmHold' = [WmFree EXCEPT !.by = t, !.at = at, !.objs = wmSes[s].objs]

(* A slot is given up and its objects are taken down, the pointers cleared. *)
WmTakeOver(s, t, at) ==
  /\ wmSes' = [wmSes EXCEPT ![s].used = FALSE, ![s].objs = {}]
  /\ wmHold' = [WmFree EXCEPT !.by = t, !.at = at, !.objs = wmSes[s].objs]

WmClose(t, s, g) ==
  /\ WmMutexFree
  /\ SessionFromHandle(t, s, g)
  /\ WmTakeOver(s, t, "close")
  /\ UNCHANGED <<wmRuntime, wmAlive, wmGlobal>>

(* session_from_handle, of a handle that is of another thread or of no session. *)
Refused(t, s, g) ==
  /\ WmMutexFree /\ g # 0 /\ ~SessionFromHandle(t, s, g)
  /\ IF wmSes[s].used /\ wmSes[s].gen = g
     THEN wmSes' = [wmSes EXCEPT ![s].code = "thread"] /\ UNCHANGED wmGlobal
     ELSE wmGlobal' = "failed" /\ UNCHANGED wmSes
  /\ UNCHANGED <<wmRuntime, wmAlive, wmHold>>

(* host_callback for ux.host_call4: the numbers it may answer with for a, none *)
(* when it traps.  Some of the functions are called by what they do only.    *)
HostAnswers(id, a) ==
  CASE id = "print" -> {a}
    [] id = "random" -> 0..WmMaxInt
    [] id = "abs" -> {IF a < 0 THEN -a ELSE a} \cap 0..WmMaxInt
    [] id = "sqr" -> {n \in 0..WmMaxInt : n * n <= a /\ a < (n + 1) * (n + 1)}
    [] id = "log" -> IF a <= 0 THEN {} ELSE {n \in 0..WmMaxInt : 2 ^ n <= a}
    [] OTHER -> {}

HostIds == {"print", "random", "abs", "sqr", "log", "unbound"}

(* call_i32: the function is looked for, its type is compared, it runs and asks *)
(* the host.                                                                *)
CallI32(t, s, found, fits, id, a) ==
  LET code == IF found /\ fits /\ HostAnswers(id, a) # {} THEN "ok" ELSE "failed"
  IN  /\ WmMutexFree /\ SessionFromHandle(t, s, wmSes[s].gen)
      /\ wmSes' = [wmSes EXCEPT ![s].code = code, ![s].own = code]
      /\ UNCHANGED <<wmRuntime, wmAlive, wmHold, wmGlobal>>
HasExport(t, s, found) ==
  /\ WmMutexFree /\ SessionFromHandle(t, s, wmSes[s].gen)
  /\ LET code == IF found THEN "ok" ELSE "failed"
     IN  wmSes' = [wmSes EXCEPT ![s].code = code, ![s].own = code]
  /\ UNCHANGED <<wmRuntime, wmAlive, wmHold, wmGlobal>>

(* session_cleanup, one object at a time, the last made first. *)
WmCleanup ==
  /\ wmHold.at \in {"close", "shutdown"}
  /\ wmHold.objs # {}
  /\ LET n == Cardinality(wmHold.objs)
     IN  /\ wmAlive' = [wmAlive EXCEPT ![WmOrder[n]] = @ - 1]
         /\ wmHold' = [wmHold EXCEPT !.objs = WmObjs(n - 1)]
  /\ UNCHANGED <<wmRuntime, wmSes, wmGlobal>>
WmCleaned ==
  /\ wmHold.at = "close" /\ wmHold.objs = {}
  /\ wmHold' = WmFree
  /\ wmGlobal' = IF wmHold.report = "" THEN wmGlobal ELSE wmHold.report
  /\ UNCHANGED <<wmRuntime, wmSes, wmAlive>>

(* uxwasm_shutdown takes the sessions of every thread down, then the library. *)
WmShutdownBegin(t) ==
  /\ WmMutexFree /\ wmRuntime
  /\ wmHold' = [WmFree EXCEPT !.by = t, !.at = "shutdown"]
  /\ UNCHANGED <<wmRuntime, wmSes, wmAlive, wmGlobal>>
WmShutdown ==
  /\ wmHold.at = "shutdown" /\ wmHold.objs = {}
  /\ \/ \E s \in DOMAIN wmSes :
          /\ wmSes[s].used /\ \A r \in 1..(s - 1) : ~wmSes[r].used
          /\ WmTakeOver(s, wmHold.by, "shutdown")
          /\ UNCHANGED wmRuntime
     \/ /\ \A s \in DOMAIN wmSes : ~wmSes[s].used
        /\ wmRuntime' = FALSE /\ wmHold' = WmFree
        /\ UNCHANGED wmSes
  /\ UNCHANGED <<wmAlive, wmGlobal>>

WmInit ==
  /\ wmRuntime = FALSE
  /\ wmSes = [s \in 1..WmSlots |-> [used |-> FALSE, gen |-> 0, owner |-> CHOOSE t \in WmThreads : TRUE,
                                    objs |-> {}, code |-> "ok", own |-> "ok"]]
  /\ wmAlive = [k \in WmKinds |-> 0]
  /\ wmHold = WmFree
  /\ wmGlobal = "ok"

WmNext ==
  \/ \E t \in WmThreads :
       \/ WmBegin(t, "open") \/ WmBegin(t, "validate") \/ WmShutdownBegin(t)
       \/ \E s \in DOMAIN wmSes : 
            \/ WmClose(t, s, wmSes[s].gen)
            \/ \E g \in 1..wmSes[s].gen : Refused(t, s, g)
            \/ \E found \in BOOLEAN : HasExport(t, s, found)
            \/ \E found, fits \in BOOLEAN : CallI32(t, s, found, fits, "print", 0)
            \/ \E id \in HostIds, a \in (-WmMaxInt - 1)..WmMaxInt : CallI32(t, s, TRUE, TRUE, id, a)
  \/ WmBuild \/ WmAllocate \/ WmCleanup \/ WmCleaned \/ WmShutdown

WmSpec == WmInit /\ [][WmNext]_wmVars

-----------------------------------------------------------------------------
(* Properties *)

(* Every Wasmtime object that exists belongs to one session, whatever step of *)
(* an open fails: none is leaked, none deleted twice, and the library is not  *)
(* unloaded under a session, one of another thread included.  The error a     *)
(* session keeps is of its thread's last call on it, unless another thread    *)
(* has tried to use the session since.                                      *)
WmObjectsAccounted ==
  /\ \A k \in WmKinds :
       wmAlive[k] = Cardinality({s \in DOMAIN wmSes : k \in wmSes[s].objs})
                    + Cardinality({k} \cap wmHold.objs)
  /\ \A s \in DOMAIN wmSes : wmSes[s].objs = IF wmSes[s].used THEN WmKinds ELSE {}
  /\ (\E k \in WmKinds : wmAlive[k] > 0) => wmRuntime
  /\ \A s \in DOMAIN wmSes : wmSes[s].used => wmSes[s].code \in {wmSes[s].own, "thread"}

=============================================================================
