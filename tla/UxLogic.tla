------------------------------- MODULE UxLogic -------------------------------
(***************************************************************************)
(* Lua and Prolog (src/runtime_ext/uxlogic/uxlogic.c): the Lua library is     *)
(* looked up under a lock at the first use, and a Prolog query is a child    *)
(* process whose output comes through a pipe.  Several threads call; a Lua    *)
(* state is used by one of them at a time.  Windows, Lua and SWI-Prolog are   *)
(* external.  Values of Lua other than numbers, and the two text buffers,     *)
(* which all threads share, are left out.                                   *)
(***************************************************************************)
EXTENDS Integers, Sequences, FiniteSets, SequencesExt

CONSTANTS
  LgThreads,     \* the threads of the program
  LgSymbols,     \* how many entry points are needed, 13 in the code
  LgLibraries,   \* the libraries to be found
  LgHas,         \* of each library, the number of the entry points it has
  LgStates, LgNames, LgNumbers, LgResults,   \* bounds: states, globals, numbers, results
  LgOutput       \* bound: how often a child writes

ASSUME LgAssumption ==
  /\ {LgSymbols, LgStates, LgResults, LgOutput} \subseteq Nat /\ LgHas \in [LgLibraries -> 0..LgSymbols]
  /\ LgNumbers \subseteq Int /\ "none" \notin LgLibraries

VARIABLES
  lgLua,         \* uxLua, or NoLibrary
  lgPointers,    \* p_luaL_newstate and the others: the library of each, or NoLibrary
  lgMapped,      \* external: the libraries loaded into the process, with a count
  lgLock,        \* uxLuaLoadLock: the thread that has it
  lgThreads,     \* of each thread, where it is and its locals
  lgStates,      \* external: the Lua states made: height of the stack, globals, alive
  lgAsked,       \* for the property: the results left and the numbers set, by state
  lgPipes        \* external: of each thread, the pipe and the child of its query

luaVars == <<lgLua, lgPointers, lgMapped, lgLock, lgStates, lgAsked>>
lgVars == <<luaVars, lgThreads, lgPipes>>

-----------------------------------------------------------------------------
(* Loading *)

NoLibrary == "none"
NoLoad == [at |-> "idle", library |-> NoLibrary, then |-> "return"]
At(th, place) == lgThreads[th].at = place
Go(th, place) == lgThreads' = [lgThreads EXCEPT ![th].at = place]

(* uxlogic_lua_load, from the program or at the start of uxlogic_lua_new. *)
LuaLoad(th, library, then) ==
  /\ At(th, "idle") /\ lgLock = {}
  /\ IF lgLua # NoLibrary
     THEN /\ lgThreads' = [lgThreads EXCEPT ![th].at = IF then = "new" THEN "new" ELSE "idle"]
          /\ UNCHANGED lgLock
     ELSE /\ lgLock' = {th}
          /\ lgThreads' = [lgThreads EXCEPT ![th] =
                             [at |-> "found", library |-> library, then |-> then]]
  /\ UNCHANGED <<lgLua, lgPointers, lgMapped, lgStates, lgAsked, lgPipes>>

Leave(th, place) ==
  /\ lgLock' = {}
  /\ lgThreads' = [lgThreads EXCEPT ![th] = [NoLoad EXCEPT !.at = place]]

LoadLibrary(th, ok) ==
  /\ At(th, "found")
  /\ IF ok THEN /\ lgMapped' = [lgMapped EXCEPT ![lgThreads[th].library] = @ + 1]
                /\ Go(th, "symbols") /\ UNCHANGED lgLock
           ELSE Leave(th, "idle") /\ UNCHANGED lgMapped
  /\ UNCHANGED <<lgLua, lgPointers, lgStates, lgAsked, lgPipes>>

(* UX_LUA_LOAD of the next entry point, which may be missing. *)
Resolved(library) == Cardinality({i \in 1..LgSymbols : lgPointers[i] = library})
ResolveSymbol(th) ==
  LET library == lgThreads[th].library
      next == Resolved(library) + 1
  IN  /\ At(th, "symbols") /\ next <= LgSymbols
      /\ IF next <= LgHas[library]
         THEN lgPointers' = [lgPointers EXCEPT ![next] = library] /\ UNCHANGED lgThreads
         ELSE Go(th, "failed") /\ UNCHANGED lgPointers
      /\ UNCHANGED <<lgLua, lgMapped, lgLock, lgStates, lgAsked, lgPipes>>

Publish(th) ==
  /\ At(th, "symbols") /\ Resolved(lgThreads[th].library) = LgSymbols
  /\ lgLua' = lgThreads[th].library
  /\ Leave(th, IF lgThreads[th].then = "new" THEN "new" ELSE "idle")
  /\ UNCHANGED <<lgPointers, lgMapped, lgStates, lgAsked, lgPipes>>

(* Mutant of LoadFailed: the entry points that were found stay. *)
LoadFailedKeeps(th) ==
  /\ At(th, "failed")
  /\ lgMapped' = [lgMapped EXCEPT ![lgThreads[th].library] = @ - 1]
  /\ Leave(th, "idle")
  /\ UNCHANGED <<lgLua, lgPointers, lgStates, lgAsked, lgPipes>>

LoadFailed(th) ==   \* the label load_failed
  /\ At(th, "failed")
  /\ lgMapped' = [lgMapped EXCEPT ![lgThreads[th].library] = @ - 1]
  /\ lgPointers' = [i \in 1..LgSymbols |-> NoLibrary]
  /\ Leave(th, "idle")
  /\ UNCHANGED <<lgLua, lgStates, lgAsked, lgPipes>>

-----------------------------------------------------------------------------
(* Lua states *)

UnsetNumbers == [name \in LgNames |-> 0]
LuaNew(th, ok) ==   \* lua_new after the load; memory may run out
  /\ At(th, "new") /\ Len(lgStates) < LgStates
  /\ lgStates' = IF ok THEN Append(lgStates, [height |-> 0, globals |-> UnsetNumbers, alive |-> TRUE])
                       ELSE lgStates
  /\ lgAsked' = IF ok THEN Append(lgAsked, [results |-> 0, numbers |-> UnsetNumbers]) ELSE lgAsked
  /\ Go(th, "idle")
  /\ UNCHANGED <<lgLua, lgPointers, lgMapped, lgLock, lgPipes>>

OpenStates == {s \in DOMAIN lgStates : lgStates[s].alive}
OnState(th, s, state, asked) ==
  /\ At(th, "idle") /\ s \in OpenStates
  /\ lgStates' = [lgStates EXCEPT ![s] = state]
  /\ lgAsked' = [lgAsked EXCEPT ![s] = asked]
  /\ UNCHANGED <<lgLua, lgPointers, lgMapped, lgLock, lgThreads, lgPipes>>

LuaClose(th, s) == OnState(th, s, [lgStates[s] EXCEPT !.alive = FALSE], lgAsked[s])

(* lua_settop(state, -2) takes one from the stack. *)
Popped(state) == [state EXCEPT !.height = @ - 1]
Pushed(state, n) == [state EXCEPT !.height = @ + n]

(* do_string and do_file: the chunk or, if it cannot be read, the message is    *)
(* pushed; the call takes the chunk and pushes the results or the message.     *)
LuaFinish(th, s, loads, ends, results) ==
  LET loaded == Pushed(lgStates[s], 1)
      called == Pushed(Popped(loaded), IF ends THEN results ELSE 1)
      whole == loads /\ ends
  IN  /\ s \in OpenStates
      /\ whole => lgStates[s].height + results <= LgResults
      /\ OnState(th, s, IF whole THEN called ELSE IF loads THEN Popped(called) ELSE Popped(loaded),
                 IF whole THEN [lgAsked[s] EXCEPT !.results = @ + results] ELSE lgAsked[s])

(* lua_set_number: lua_setglobal takes the number from the stack. *)
LuaSetNumber(th, s, name, number) ==
  OnState(th, s, Popped([Pushed(lgStates[s], 1) EXCEPT !.globals[name] = number]),
          [lgAsked[s] EXCEPT !.numbers[name] = number])

-----------------------------------------------------------------------------
(* Prolog *)

NoPipe == [open |-> {}, writers |-> {}, unread |-> 0, written |-> 0, read |-> 0,
           child |-> "none", closed |-> FALSE]
MyPipe(th, pipe) == lgPipes' = [lgPipes EXCEPT ![th] = pipe]

(* uxlogic_prolog_query_ex.  A write end of the process is inherited by every   *)
(* child that is made before it is closed, also by another thread's.  Bound:   *)
(* a thread ends one query.                                                 *)
CreatePipe(th, ok) ==
  /\ At(th, "idle") /\ ~lgPipes[th].closed
  /\ IF ok THEN /\ MyPipe(th, [NoPipe EXCEPT !.open = {"read", "write"}])
                /\ Go(th, "pipe")
           ELSE UNCHANGED <<lgPipes, lgThreads>>   \* what was made of it is closed
  /\ UNCHANGED luaVars

(* Mutant of StartChild: the pipe stays open if there is no child. *)
StartChildKeeps(th, ok) ==
  /\ At(th, "pipe")
  /\ IF ok
     THEN /\ lgPipes' = [t \in LgThreads |->
                IF "write" \notin lgPipes[t].open THEN lgPipes[t]
                ELSE [lgPipes[t] EXCEPT !.writers = @ \cup {th}, !.child = IF t = th THEN "runs" ELSE @]]
          /\ Go(th, "started")
     ELSE Go(th, "idle") /\ UNCHANGED lgPipes
  /\ UNCHANGED luaVars

StartChild(th, ok) ==
  /\ At(th, "pipe")
  /\ IF ok
     THEN /\ lgPipes' = [t \in LgThreads |->
                IF "write" \notin lgPipes[t].open THEN lgPipes[t]
                ELSE [lgPipes[t] EXCEPT !.writers = @ \cup {th}, !.child = IF t = th THEN "runs" ELSE @]]
          /\ Go(th, "started")
     ELSE MyPipe(th, NoPipe) /\ Go(th, "idle")
  /\ UNCHANGED luaVars

CloseWrite(th) ==
  /\ At(th, "started")
  /\ MyPipe(th, [lgPipes[th] EXCEPT !.open = {"read"}])
  /\ Go(th, "reading")
  /\ UNCHANGED luaVars

(* A child is external: it writes to its own pipe, and ends, which closes      *)
(* every write end it inherited.                                            *)
ChildWrites(th) ==
  /\ lgPipes[th].child = "runs" /\ lgPipes[th].written < LgOutput
  /\ MyPipe(th, [lgPipes[th] EXCEPT !.unread = @ + 1, !.written = @ + 1])
  /\ UNCHANGED <<luaVars, lgThreads>>
ChildEnds(th) ==
  /\ lgPipes[th].child = "runs"
  /\ lgPipes' = [t \in LgThreads |->
       [lgPipes[t] EXCEPT !.writers = @ \ {th}, !.child = IF t = th THEN "ended" ELSE @]]
  /\ UNCHANGED <<luaVars, lgThreads>>

(* ReadFile: what there is, or the end once nobody can write any more.  What    *)
(* is beyond the buffer is read and dropped.                                *)
ReadPipe(th) ==
  /\ At(th, "reading")
  /\ LET p == lgPipes[th]
     IN  \/ /\ p.unread > 0
            /\ MyPipe(th, [p EXCEPT !.unread = 0, !.read = @ + p.unread]) /\ UNCHANGED lgThreads
         \/ /\ p.unread = 0 /\ p.writers = {} /\ "write" \notin p.open
            /\ Go(th, "ended") /\ UNCHANGED lgPipes
  /\ UNCHANGED luaVars

WaitForChild(th) ==   \* and the last handles are closed
  /\ At(th, "ended") /\ lgPipes[th].child = "ended"
  /\ MyPipe(th, [lgPipes[th] EXCEPT !.open = {}, !.closed = TRUE])
  /\ Go(th, "idle")
  /\ UNCHANGED luaVars

-----------------------------------------------------------------------------
LgInit ==
  /\ lgLua = NoLibrary /\ lgStates = <<>> /\ lgAsked = <<>>
  /\ lgPointers = [i \in 1..LgSymbols |-> NoLibrary]
  /\ lgMapped = [l \in LgLibraries |-> 0]
  /\ lgLock = {}
  /\ lgThreads = [th \in LgThreads |-> NoLoad]
  /\ lgPipes = [th \in LgThreads |-> NoPipe]

LuaNext ==
  \E th \in LgThreads :
    \/ \E l \in LgLibraries, then \in {"return", "new"} : LuaLoad(th, l, then)
    \/ \E ok \in BOOLEAN : LoadLibrary(th, ok) \/ LuaNew(th, ok)
    \/ ResolveSymbol(th) \/ Publish(th) \/ LoadFailed(th)
    \/ \E s \in 1..LgStates :
         \/ LuaClose(th, s)
         \/ \E loads, ends \in BOOLEAN, n \in 0..LgResults : LuaFinish(th, s, loads, ends, n)
         \/ \E name \in LgNames, number \in LgNumbers : LuaSetNumber(th, s, name, number)

PrologNext ==
  \E th \in LgThreads :
    \/ \E ok \in BOOLEAN : CreatePipe(th, ok) \/ StartChild(th, ok)
    \/ CloseWrite(th) \/ ReadPipe(th) \/ WaitForChild(th)
    \/ ChildWrites(th) \/ ChildEnds(th)

LgNext == LuaNext \/ PrologNext
LgSpec == LgInit /\ [][LgNext]_lgVars

-----------------------------------------------------------------------------
(* Properties *)

(* A Lua that threads see as loaded has all its entry points, from that one     *)
(* library, whatever attempts failed before; a library that is not used is     *)
(* unloaded, and without a load under way nothing of a failed one remains.     *)
LuaLoadedWhole ==
  /\ \A th \in LgThreads : At(th, "new") => lgLua # NoLibrary
  /\ lgLua # NoLibrary => \A i \in 1..LgSymbols : lgPointers[i] = lgLua
  /\ lgLock = {} =>
       /\ lgLua = NoLibrary => \A i \in 1..LgSymbols : lgPointers[i] = NoLibrary
       /\ \A l \in LgLibraries : lgMapped[l] = IF l = lgLua THEN 1 ELSE 0

(* On the stack of a state are the results of the chunks that ended well and    *)
(* nothing of those that failed; the globals are what was set last.           *)
LuaStacksExact ==
  \A s \in OpenStates :
    lgStates[s].height = lgAsked[s].results /\ lgStates[s].globals = lgAsked[s].numbers

(* A query that is over has read all that its child wrote, however the queries  *)
(* of other threads lie, and whichever step failed, no end of a pipe is open.  *)
QueriesWhole ==
  \A th \in LgThreads : At(th, "idle") =>
    /\ lgPipes[th].open = {}
    /\ lgPipes[th].closed =>
         lgPipes[th].read = lgPipes[th].written /\ lgPipes[th].child = "ended"

LogicExact == LuaLoadedWhole /\ LuaStacksExact /\ QueriesWhole

=============================================================================
