-------------------------------- MODULE UxJs --------------------------------
(***************************************************************************)
(* The QuickJS bridge (src/runtime_ext/uxjsruntime/uxjsrt.c): runtimes,    *)
(* contexts made in a runtime, results made in a context, each in a table  *)
(* of slots with a generation.  A runtime belongs to the thread that made  *)
(* it, but the tables are shared, and there is no lock: the calls of two   *)
(* threads interleave between the test of a slot and the writes to it, so  *)
(* that both may take the same slot in hand (JsClash).  Scripts and their  *)
(* jobs change no table, and a call that fails changes nothing but the     *)
(* error texts, left out here.                                             *)
(***************************************************************************)
EXTENDS Naturals

CONSTANTS
  JsThreads,
  JsRtSlots, JsCtxSlots, JsResSlots,   \* bounds: 16, 64 and 1024 in the code
  JsMaxGen     \* bound: the generations each table uses up, before they start again

ASSUME JsAssumption ==
  /\ JsRtSlots \in Nat \ {0} /\ JsCtxSlots \in Nat \ {0} /\ JsResSlots \in Nat \ {0}
  /\ JsMaxGen \in [{"rt", "ctx", "res"} -> Nat] /\ \A kind \in {"rt", "ctx", "res"} : JsMaxGen[kind] < 32767

VARIABLES
  jsTable,   \* g_runtimes, g_contexts, g_results; of: a runtime's owner, a context's
             \* runtime_index, a result's context_index
  jsCall,    \* what each thread is in the middle of
  jsClashed  \* history: two calls have the same slot in hand

jsVars == <<jsTable, jsCall, jsClashed>>

JsSlots == [rt |-> 1..JsRtSlots, ctx |-> 1..JsCtxSlots, res |-> 1..JsResSlots]
JsKinds == DOMAIN JsSlots
Nowhere == 0      \* what the code writes as -1

JsIdle == [at |-> "idle", kind |-> "rt", slot |-> 0, for |-> Nowhere]

NextGeneration(g) == IF g = 32767 THEN 1 ELSE g + 1

(* get_runtime, get_context and get_result, for the slot and generation that *)
(* a handle names.                                                           *)
JsResolves(kind, i, g) == jsTable[kind][i].used /\ jsTable[kind][i].gen = g
GetRuntime(t, r, g) == JsResolves("rt", r, g) /\ jsTable["rt"][r].of = t
GetContext(t, c, g) ==
  /\ JsResolves("ctx", c, g)
  /\ LET r == jsTable["ctx"][c].of
     IN  r \in JsSlots["rt"] /\ jsTable["rt"][r].used /\ jsTable["rt"][r].of = t
GetResult(r, g, c) == JsResolves("res", r, g) /\ jsTable["res"][r].of = c

(* The three calls that make an object look for an unused slot from the first *)
(* on; for: what the object is to belong to.                                 *)
Search(t, kind, for) ==
  /\ jsCall[t] = JsIdle
  /\ jsCall' = [jsCall EXCEPT ![t] = [at |-> "look", kind |-> kind, slot |-> 1, for |-> for]]
  /\ UNCHANGED jsTable

RuntimeCreate(t) == Search(t, "rt", t)
ContextCreate(t, r, g) == GetRuntime(t, r, g) /\ Search(t, "ctx", r)

(* A call that returns a value, at once or once the jobs have settled it;     *)
(* evaluating a script and draining the job queue make and free no handle.   *)
CallJson(t, c, g) == GetContext(t, c, g) /\ Search(t, "res", c)

(* Whether the slot is used is read once; if it is not, QuickJS may fail to   *)
(* make the runtime or the context.                                          *)
Look(t) ==
  LET c == jsCall[t]
  IN  /\ c.at = "look"
      /\ jsCall' = [jsCall EXCEPT ![t] =
           IF ~jsTable[c.kind][c.slot].used THEN [c EXCEPT !.at = "new"]
           ELSE IF c.slot + 1 \in JsSlots[c.kind] THEN [c EXCEPT !.slot = @ + 1] ELSE JsIdle]
      /\ UNCHANGED jsTable
MakeFails(t) ==
  /\ jsCall[t].at = "new" /\ jsCall[t].kind # "res"
  /\ jsCall' = [jsCall EXCEPT ![t] = JsIdle]
  /\ UNCHANGED jsTable

(* The generation and used are set before what the object belongs to is,      *)
(* which until then is what it was for the last object; then the handle is   *)
(* returned.                                                                 *)
Take(t) ==
  LET kind == jsCall[t].kind
      i == jsCall[t].slot
  IN  /\ jsCall[t].at = "new" /\ jsTable[kind][i].gen < JsMaxGen[kind]
      /\ jsTable' = [jsTable EXCEPT ![kind][i] = [jsTable[kind][i] EXCEPT !.used = TRUE, !.gen = NextGeneration(@)]]
      /\ jsCall' = [jsCall EXCEPT ![t].at = "fill"]
Fill(t) ==
  /\ jsCall[t].at = "fill"
  /\ jsTable' = [jsTable EXCEPT ![jsCall[t].kind][jsCall[t].slot] = [@ EXCEPT !.of = jsCall[t].for]]
  /\ jsCall' = [jsCall EXCEPT ![t] = JsIdle]

(* The calls that free an object; for: that object.                          *)
Release(t, kind, i) ==
  /\ jsCall[t] = JsIdle
  /\ jsCall' = [jsCall EXCEPT ![t] = [at |-> "free", kind |-> kind, slot |-> i, for |-> <<kind, i>>]]
  /\ UNCHANGED jsTable

RuntimeFree(t, r, g) == GetRuntime(t, r, g) /\ Release(t, "rt", r)
ContextFree(t, c, g) == GetContext(t, c, g) /\ Release(t, "ctx", c)

ResultFree(t, c, g, r, h) == GetContext(t, c, g) /\ GetResult(r, h, c) /\ Release(t, "res", r)

(* What goes next: the first context that is to be freed or, before it, the   *)
(* first of its results; a runtime after its contexts.                       *)
JsFirst(S) == {i \in S : \A j \in S : i <= j}
MadeFrom(kind, i) == {j \in JsSlots[kind] : jsTable[kind][j].used /\ jsTable[kind][j].of = i}

(* Mutant of Doomed: the results of a context are left. *)
DoomedContexts(goal) ==
  LET contexts == IF goal[1] = "rt" THEN MadeFrom("ctx", goal[2]) ELSE {}
  IN  IF contexts = {} THEN {goal} ELSE {<<"ctx", c>> : c \in JsFirst(contexts)}

Doomed(goal) ==
  LET contexts == CASE goal[1] = "rt" -> MadeFrom("ctx", goal[2])
                    [] goal[1] = "ctx" -> {goal[2]}
                    [] goal[1] = "res" -> {}
  IN  IF contexts = {} THEN {goal}
      ELSE {<<"res", r>> : r \in UNION {JsFirst(MadeFrom("res", c)) : c \in JsFirst(contexts)}}
           \cup {<<"ctx", c>> : c \in {d \in JsFirst(contexts) : MadeFrom("res", d) = {}}}

(* A slot is given back in two steps, too; a runtime keeps its owner_thread.  *)
Drop(t) ==
  /\ jsCall[t].at = "free"
  /\ \E v \in Doomed(jsCall[t].for) :
       /\ jsTable' = [jsTable EXCEPT ![v[1]][v[2]] =
                      [jsTable[v[1]][v[2]] EXCEPT !.used = FALSE, !.of = IF v[1] = "rt" THEN @ ELSE Nowhere]]
       /\ jsCall' = [jsCall EXCEPT ![t].at = "bump", ![t].kind = v[1], ![t].slot = v[2]]
Bump(t) ==
  LET kind == jsCall[t].kind
      i == jsCall[t].slot
  IN  /\ jsCall[t].at = "bump"
      /\ jsTable' = [jsTable EXCEPT ![kind][i] = [jsTable[kind][i] EXCEPT !.gen = NextGeneration(@)]]
      /\ jsCall' = [jsCall EXCEPT ![t] = IF @.for = <<kind, i>> THEN JsIdle ELSE [@ EXCEPT !.at = "free"]]

(* Two calls have the same slot in hand. *)
JsInHand(t, kind, i) ==
  jsCall[t].at \in {"new", "fill", "bump"} /\ jsCall[t].kind = kind /\ jsCall[t].slot = i
JsClash ==
  \E t, u \in JsThreads, kind \in JsKinds : t # u /\
    \E i \in JsSlots[kind] : JsInHand(t, kind, i) /\ JsInHand(u, kind, i)

(* The handles that were returned, as <<kind, slot, generation>>.  A slot's    *)
(* generation advances when it is taken and when it is freed, so the odd ones *)
(* were handed out, but for the one whose call has not returned yet.         *)
JsFilling(kind, i) == \E t \in JsThreads : jsCall[t].at = "fill" /\ JsInHand(t, kind, i)
JsReturned(kind, i) == jsTable[kind][i].gen - (IF JsFilling(kind, i) THEN 1 ELSE 0)
JsIssuedOf(kind) ==
  UNION {{kind} \X {i} \X {g \in 1..JsMaxGen[kind] : g <= JsReturned(kind, i) /\ g % 2 = 1} :
           i \in JsSlots[kind]}
JsIssued == UNION {JsIssuedOf(kind) : kind \in JsKinds}

JsInit ==
  /\ jsTable = [kind \in JsKinds |->
       [i \in JsSlots[kind] |-> [used |-> FALSE, gen |-> 0, of |-> IF kind = "rt" THEN Nowhere ELSE 1]]]
  /\ jsCall = [t \in JsThreads |-> JsIdle]
  /\ jsClashed = FALSE

(* A program passes the handles it was given, of whatever age or owner. *)
JsCalls(t) ==
  \/ RuntimeCreate(t)
  \/ \E h \in JsIssuedOf("rt") : ContextCreate(t, h[2], h[3]) \/ RuntimeFree(t, h[2], h[3])
  \/ \E h \in JsIssuedOf("ctx") :
       \/ CallJson(t, h[2], h[3]) \/ ContextFree(t, h[2], h[3])
       \/ \E k \in JsIssuedOf("res") : ResultFree(t, h[2], h[3], k[2], k[3])

(* What comes of two calls that write to one slot is not defined: a behaviour  *)
(* is followed as far as the first step after which they have it in hand.    *)
JsNext ==
  /\ ~jsClashed
  /\ \E t \in JsThreads :
       \/ JsCalls(t) \/ Look(t) \/ MakeFails(t) \/ Take(t) \/ Fill(t) \/ Drop(t) \/ Bump(t)
  /\ jsClashed' = JsClash'

JsSpec == JsInit /\ [][JsNext]_jsVars

-----------------------------------------------------------------------------
(* Properties *)

(* The handles that some thread can use, and what each was made from. *)
JsHandle(kind, i) == <<kind, i, jsTable[kind][i].gen>>
JsUsable(kind, i) ==
  /\ jsTable[kind][i].used /\ ~JsFilling(kind, i)
  /\ kind = "ctx" => LET r == jsTable["ctx"][i].of IN r \in JsSlots["rt"] /\ jsTable["rt"][r].used
JsLive == UNION {{JsHandle(kind, i) : i \in {j \in JsSlots[kind] : JsUsable(kind, j)}} : kind \in JsKinds}
JsRoot == <<"root", 0, 0>>
JsMadeFrom(h) ==
  LET from == jsTable[h[1]][h[2]].of
  IN  CASE h[1] = "rt" -> JsRoot
        [] h[1] = "ctx" -> JsHandle("rt", from)
        [] h[1] = "res" -> JsHandle("ctx", from)
JsParent == [h \in JsLive |-> JsMadeFrom(h)]

(* Steps that the abstract tables do not see, named so that they are tried    *)
(* before the others.                                                        *)
JsNoChange == UNCHANGED jsVars \/ UNCHANGED <<JsIssued, JsParent>>

(* The three tables implement handles until two calls have the same slot in   *)
(* hand: freeing a runtime takes its contexts and their results along, a     *)
(* freed handle never resolves again, and a slot that is half taken or half  *)
(* given back belongs to nobody.  The code does nothing to keep the calls of *)
(* different threads apart.                                                  *)
JsTables == INSTANCE Handles WITH Root <- JsRoot, issued <- JsIssued, parent <- JsParent
JsImplementsHandles ==
  JsTables!Init /\ [][jsClashed' \/ JsNoChange \/ JsTables!Issue \/ JsTables!Retire]_<<JsIssued, JsParent>>

=============================================================================
